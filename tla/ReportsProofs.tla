--------------------------- MODULE ReportsProofs ---------------------------
(***************************************************************************)
(* Proofs about Reports: types, the log's mutual exclusion across threads  *)
(* and handlers, the one late report of a thread, and the timer that stays *)
(* shut; for every set of grades, every choice of the threads that take    *)
(* signals, and any number of handlers at once.                            *)
(***************************************************************************)
EXTENDS Reports, SequenceTheorems, TLAPS

USE DEF Own, Handler

-----------------------------------------------------------------------------
(* Types. *)

\* What write_log skips leaves a sequence of operations.
LEMMA PastType ==
  ASSUME NEW ops \in Seq(Operations)
  PROVE  Past(ops) \in Seq(Operations)
  BY HeadTailProperties DEF Past, Filtered

\* Whatever a context is given to do, left keeps its type.
LEMMA DoType ==
  ASSUME left \in [Contexts -> Seq(Operations)],
         NEW c, NEW ops \in Seq(Operations), Do(c, ops)
  PROVE  left' \in [Contexts -> Seq(Operations)]
<1>1. Past(Past(ops)) \in Seq(Operations)
  BY PastType
<1> QED
  BY <1>1 DEF Do

\* Wherever a thread goes, place keeps its type.
LEMMA GoType ==
  ASSUME place \in [Threads -> Places],
         NEW t, NEW p \in Places, Go(t, p)
  PROVE  place' \in [Threads -> Places]
  BY DEF Go

\* The operations of every report, answer and failure.
LEMMA ReportTypes ==
  /\ Locate \in Seq(Operations) /\ Status \in Seq(Operations)
  /\ Signal \in Seq(Operations) /\ Scan \in Seq(Operations)
  /\ Failure \in Seq(Operations)
  /\ <<"INFO">> \in Seq(Operations) /\ <<"libc">> \in Seq(Operations)
  /\ <<"ERROR", "INFO">> \in Seq(Operations)
  BY DEF Locate, Status, Signal, Scan, Failure, Operations, Level

LEMMA InitType == Init => TypeOK
<1> SUFFICES ASSUME Init PROVE TypeOK
  OBVIOUS
<1>1. left \in [Contexts -> Seq(Operations)]
  BY DEF Init
<1>2. place \in [Threads -> Places] /\ late \in [Reporters -> Nat]
  BY DEF Init, Places
<1> QED
  BY <1>1, <1>2 DEF Init, TypeOK

\* A call of a context.
LEMMA CallType ==
  ASSUME TypeOK, NEW c \in Contexts, Call(c)
  PROVE  TypeOK'
<1>1. left[c] \in Seq(Operations) /\ c[1] \in Threads /\ c \in Contexts
  BY DEF TypeOK, Contexts
<1>2. left[c] # <<>> => Tail(left[c]) \in Seq(Operations)
  BY <1>1, HeadTailProperties
<1>3. CASE Lock(c)
  BY <1>3 DEF TypeOK, Lock, timerVars
<1>4. CASE Unlock(c)
  <2>1. left' \in [Contexts -> Seq(Operations)]
    BY <1>2, <1>4, DoType DEF TypeOK, Unlock, Calls, Done
  <2> QED
    BY <1>4, <2>1 DEF TypeOK, Unlock, timerVars
<1>5. CASE Write(c) \/ WriteFails(c)
  <2>1. left' \in [Contexts -> Seq(Operations)]
    BY <1>2, <1>5, DoType, ReportTypes DEF TypeOK, Write, WriteFails, Calls, Done
  <2>2. Counted(c)
    BY <1>5 DEF Write, WriteFails
  <2>3. late' \in [Reporters -> Nat]
    BY <2>2 DEF TypeOK, Counted
  <2> QED
    BY <1>5, <2>1, <2>3 DEF TypeOK, Write, WriteFails, timerVars, logVars
<1>6. CASE Arm(c)
  <2>1. left' \in [Contexts -> Seq(Operations)]
    BY <1>2, <1>6, DoType DEF TypeOK, Arm, Calls, Done
  <2>2. lateScan' \in BOOLEAN
    BY <1>6, Zenon DEF TypeOK, Arm
  <2> QED
    BY <1>6, <2>1, <2>2 DEF TypeOK, Arm, logVars
<1> QED
  BY <1>3, <1>4, <1>5, <1>6 DEF Call

LEMMA MainType ==
  ASSUME TypeOK, main
  PROVE  TypeOK'
<1> USE DEF TypeOK, logVars, timerVars
<1>1. CASE ConfigureFails \/ InitLoggerFails \/ Return
  BY <1>1 DEF ConfigureFails, InitLoggerFails, Return
<1>2. CASE Configure \/ Quit
  <2>1. place' \in [Threads -> Places]
    BY <1>2, GoType DEF Configure, Quit, Places
  <2> QED
    BY <1>2, <2>1, GradesAssumption DEF Configure, Quit
<1>3. CASE InitLogger
  <2>1. place' \in [Threads -> Places]
    BY <1>3, GoType DEF InitLogger, Places
  <2>2. left' \in [Contexts -> Seq(Operations)]
    BY <1>3, DoType, ReportTypes DEF InitLogger
  <2> QED
    BY <1>3, <2>1, <2>2 DEF InitLogger
<1>4. \A t \in DOMAIN Then : Then[t] \in Places /\ Start[t] \in Places
  BY DEF Then, Start, Places
<1>5. ASSUME NEW t \in DOMAIN Then, Create(t)
      PROVE  TypeOK'
  <2>1. place' \in [Threads -> Places]
    BY <1>4, <1>5 DEF Create
  <2> QED
    BY <1>5, <2>1 DEF Create
<1>6. ASSUME NEW t \in DOMAIN Then, CreateFails(t)
      PROVE  TypeOK'
  <2>1. place' \in [Threads -> Places]
    BY <1>4, <1>6, GoType DEF CreateFails, Places
  <2>2. left' \in [Contexts -> Seq(Operations)]
    BY <1>6, DoType, ReportTypes DEF CreateFails
  <2> QED
    BY <1>6, <2>1, <2>2 DEF CreateFails
<1> QED
  BY <1>1, <1>2, <1>3, <1>5, <1>6 DEF main

LEMMA ThreadsType ==
  ASSUME TypeOK,
         th_RDWR \/ th_run_timer \/ (\E t \in Reporters : Reporting(t))
  PROVE  TypeOK'
<1> USE DEF TypeOK, logVars, timerVars
<1>1. CASE th_RDWR
  <2>1. left' \in [Contexts -> Seq(Operations)]
    BY <1>1, DoType, ReportTypes DEF th_RDWR, Open, OpenFails, NeverOpened, Turn, EndTurn
  <2>2. place' \in [Threads -> Places]
    BY <1>1, GoType DEF th_RDWR, Open, OpenFails, NeverOpened, Turn, EndTurn, Places
  <2> QED
    BY <1>1, <2>1, <2>2 DEF th_RDWR, Open, OpenFails, NeverOpened, Turn, EndTurn
<1>2. CASE th_run_timer
  <2>1. place' \in [Threads -> Places]
    BY <1>2, GoType DEF th_run_timer, InstallHandler, ClearTimer, ShutTimer, TimerEnds, Places
  <2> QED
    BY <1>2, <2>1 DEF th_run_timer, InstallHandler, ClearTimer, ShutTimer, TimerEnds
<1>3. ASSUME NEW t \in Reporters, Reporting(t)
      PROVE  TypeOK'
  <2>1. left' \in [Contexts -> Seq(Operations)]
    BY <1>3, DoType, ReportTypes DEF Reporting, Wake, EndReport, Report, Reporters
  <2>2. place' \in [Threads -> Places]
    BY <1>3, GoType DEF Reporting, Wake, EndReport, Places
  <2> QED
    BY <1>3, <2>1, <2>2 DEF Reporting, Wake, EndReport
<1> QED
  BY <1>1, <1>2, <1>3

LEMMA NextType ==
  ASSUME TypeOK, [Next]_vars
  PROVE  TypeOK'
<1>1. CASE \E t \in Threads : Expire(t) \/ Block(t)
  <2>1. left' \in [Contexts -> Seq(Operations)]
    BY <1>1, DoType, ReportTypes DEF TypeOK, Expire, Block
  <2> QED
    BY <1>1, <2>1 DEF TypeOK, Expire, Block, logVars, timerVars
<1>2. CASE Killed
  BY <1>2 DEF TypeOK, Killed, logVars, timerVars
<1>3. CASE UNCHANGED vars
  BY <1>3 DEF TypeOK, vars, logVars, timerVars
<1> QED
  BY <1>1, <1>2, <1>3, CallType, MainType, ThreadsType DEF Next

\* Every variable keeps its type, so every place is one that the code has.
THEOREM TypeCorrect == Spec => []TypeOK
  BY InitType, NextType, PTL DEF Spec

-----------------------------------------------------------------------------
(* The log. *)

\* Whoever is between _slog_lock and _slog_unlock is alone there, and the mutex
\* is locked exactly as long.
LogInv == (locked <=> writing # {}) /\ LogLinesWhole

LEMMA LogStep ==
  ASSUME LogInv, [Next]_vars
  PROVE  LogInv'
<1> USE DEF LogInv, LogLinesWhole
<1>1. ASSUME NEW c \in Contexts, Lock(c)
      PROVE  LogInv'
  BY <1>1 DEF Lock
<1>2. ASSUME NEW c \in Contexts, Unlock(c)
      PROVE  LogInv'
  BY <1>2 DEF Unlock
<1>3. ASSUME UNCHANGED logVars
      PROVE  LogInv'
  BY <1>3 DEF logVars
<1>4. (\E c \in Contexts : Lock(c) \/ Unlock(c)) \/ UNCHANGED logVars
  <2>1. CASE \E c \in Contexts : Call(c)
    BY <2>1 DEF Call, Write, WriteFails, Arm
  <2>2. CASE main
    BY <2>2 DEF main, Configure, ConfigureFails, InitLogger, InitLoggerFails, Return, Quit,
       Create, CreateFails
  <2>3. CASE th_RDWR \/ th_run_timer
    BY <2>3 DEF th_RDWR, Open, OpenFails, NeverOpened, Turn, EndTurn,
       th_run_timer, InstallHandler, ClearTimer, ShutTimer, TimerEnds
  <2>4. CASE \E t \in Reporters : Reporting(t)
    BY <2>4 DEF Reporting, Wake, EndReport
  <2>5. CASE Killed \/ (\E t \in Threads : Expire(t) \/ Block(t)) \/ UNCHANGED vars
    BY <2>5 DEF Killed, Expire, Block, vars
  <2> QED
    BY <2>1, <2>2, <2>3, <2>4, <2>5 DEF Next
<1> QED
  BY <1>1, <1>2, <1>3, <1>4

\* No line of the log is written inside another one.
THEOREM LogStaysWhole == Spec => []LogLinesWhole
<1>1. Init => LogInv
  BY DEF Init, LogInv, LogLinesWhole
<1>2. LogInv => LogLinesWhole
  BY DEF LogInv
<1> QED
  BY <1>1, <1>2, LogStep, PTL DEF Spec

-----------------------------------------------------------------------------
(* Start-up. *)

\* Until init_logger has succeeded main is alone and has called nothing.
StartInv ==
  ~inited => /\ place["main"] \in {"config", "init_logger"}
             /\ \A t \in Threads \ {"main"} : place[t] = "unborn"
             /\ \A c \in Contexts : left[c] = <<>>
             /\ writing = {}
             /\ ~installed

LEMMA StartStep ==
  ASSUME TypeOK, StartInv, [Next]_vars
  PROVE  StartInv'
<1> SUFFICES ASSUME ~inited' PROVE StartInv'
  BY DEF StartInv
<1> USE DEF StartInv
<1>0. place \in [Threads -> Places] /\ "main" \in Threads
      /\ Reporters \union {"th_RDWR", "th_run_timer"} \subseteq Threads \ {"main"}
  BY DEF TypeOK, Threads, Reporters
<1>1. CASE inited
  <2>1. UNCHANGED inited
    BY <1>1 DEF Next, Call, Lock, Unlock, Write, WriteFails, Arm, main, Configure,
       ConfigureFails, InitLogger, InitLoggerFails, Return, Quit, Create, CreateFails,
       th_RDWR, Open, OpenFails, NeverOpened, Turn, EndTurn, th_run_timer, InstallHandler,
       ClearTimer, ShutTimer, TimerEnds, Reporting, Wake, EndReport, Expire, Block, Killed, vars
  <2> QED
    BY <1>1, <2>1
<1>2. CASE ~inited
  <2>1. ~(\E c \in Contexts : Call(c))
    BY <1>2 DEF Call, Lock, Unlock, Write, WriteFails, Arm, Calls
  <2>2. ~th_RDWR /\ ~th_run_timer /\ ~(\E t \in Reporters : Reporting(t))
    BY <1>0, <1>2 DEF th_RDWR, Open, OpenFails, NeverOpened, Turn, EndTurn, th_run_timer,
       InstallHandler, ClearTimer, ShutTimer, TimerEnds, Reporting, Wake, EndReport, At
  <2>3. ~(\E t \in Threads : Expire(t) \/ Block(t))
    BY <1>2 DEF Expire, Block, Busy, Contexts
  <2>4. CASE main
    <3>1. Configure \/ ConfigureFails \/ InitLoggerFails
      BY <1>2, <2>4 DEF main, InitLogger, Return, Quit, Create, CreateFails, At, Then
    <3>2. CASE Configure
      <4>1. place'["main"] = "init_logger" /\ \A t \in Threads \ {"main"} : place'[t] = place[t]
        BY <1>0, <3>2 DEF Configure, Go
      <4> QED
        BY <1>2, <3>2, <4>1 DEF Configure, logVars, timerVars
    <3>3. CASE ConfigureFails \/ InitLoggerFails
      BY <1>2, <3>3 DEF ConfigureFails, InitLoggerFails, logVars, timerVars
    <3> QED
      BY <3>1, <3>2, <3>3
  <2>5. CASE Killed \/ UNCHANGED vars
    BY <1>2, <2>5 DEF Killed, vars, logVars, timerVars
  <2> QED
    BY <2>1, <2>2, <2>3, <2>4, <2>5 DEF Next
<1> QED
  BY <1>1, <1>2

\* No line is written to a log that was never opened.
THEOREM LogReadyCorrect == Spec => []LogReady
<1>1. Init => StartInv
  BY DEF Init, StartInv, Contexts, Threads, Reporters
<1>2. StartInv => LogReady
  BY DEF StartInv, LogReady
<1> QED
  BY <1>1, <1>2, StartStep, TypeCorrect, PTL DEF Spec

-----------------------------------------------------------------------------
(* The timer. *)

\* From shut_timer on only a scan command after "q" can arm the timer.
TimerInv ==
  place["th_run_timer"] \in {"shut_timer", "ended"} => g_isExit /\ (armed => lateScan)

LEMMA TimerStep ==
  ASSUME TypeOK, TimerInv, [Next]_vars
  PROVE  TimerInv'
<1> USE DEF TimerInv
<1>0. place \in [Threads -> Places] /\ "th_run_timer" \in Threads /\ g_isExit \in BOOLEAN
      /\ lateScan \in BOOLEAN
  BY DEF TypeOK, Threads
<1>1. CASE \E c \in Contexts : Call(c)
  <2>1. CASE \E c \in Contexts : Arm(c)
    <3>1. place' = place /\ g_isExit' = g_isExit
      BY <2>1 DEF Arm
    <3>2. g_isExit => lateScan'
      BY <2>1, Zenon DEF Arm
    <3> QED
      BY <3>1, <3>2
  <2>2. CASE \E c \in Contexts : Lock(c) \/ Unlock(c) \/ Write(c) \/ WriteFails(c)
    BY <2>2 DEF Lock, Unlock, Write, WriteFails, timerVars
  <2> QED
    BY <1>1, <2>1, <2>2 DEF Call
<1>2. CASE main
  <2>1. CASE Configure \/ ConfigureFails \/ InitLogger \/ InitLoggerFails \/ Return \/ Quit
    BY <1>0, <2>1 DEF Configure, ConfigureFails, InitLogger, InitLoggerFails, Return, Quit,
       Go, timerVars
  <2>2. ASSUME NEW t \in DOMAIN Then, Create(t) \/ CreateFails(t)
        PROVE  TimerInv'
    <3>1. Start[t] \notin {"shut_timer", "ended"} /\ t # "main"
      BY DEF Start, Then
    <3>2. CASE t = "th_run_timer"
      BY <1>0, <2>2, <3>1, <3>2 DEF Create, CreateFails, Go, timerVars
    <3>3. CASE t # "th_run_timer"
      BY <1>0, <2>2, <3>3 DEF Create, CreateFails, Go, timerVars
    <3> QED
      BY <3>2, <3>3
  <2> QED
    BY <1>2, <2>1, <2>2 DEF main
<1>3. CASE th_RDWR
  BY <1>0, <1>3 DEF th_RDWR, Open, OpenFails, NeverOpened, Turn, EndTurn, Go, timerVars
<1>4. CASE th_run_timer
  BY <1>0, <1>4 DEF th_run_timer, InstallHandler, ClearTimer, ShutTimer, TimerEnds, At, Go,
     timerVars
<1>5. CASE \E t \in Reporters : Reporting(t)
  BY <1>0, <1>5 DEF Reporting, Wake, EndReport, Go, Reporters, timerVars
<1>6. CASE Killed \/ (\E t \in Threads : Expire(t) \/ Block(t)) \/ UNCHANGED vars
  BY <1>6 DEF Killed, Expire, Block, vars, timerVars
<1> QED
  BY <1>1, <1>2, <1>3, <1>4, <1>5, <1>6 DEF Next

\* Once th_run_timer has ended, an armed timer comes from a command that was
\* served after "q".
THEOREM TimerStaysShutCorrect == Spec => []TimerStaysShut
<1>1. Init => TimerInv
  BY DEF Init, TimerInv, Threads
<1>2. TypeOK /\ TimerInv => TimerStaysShut
  BY DEF TimerInv, TimerStaysShut
<1> QED
  BY <1>1, <1>2, TimerStep, TypeCorrect, PTL DEF Spec

-----------------------------------------------------------------------------
(* Late reports. *)

\* What is left of a report, on each of its ways.
Written   == {<<>>, <<"DEBUG">>, <<"ERROR">>}
Unwritten == {Locate, Status, <<"write", "DEBUG">>}

\* Where main is until it has created a thread.
Before ==
  LET upToTimer == {"config", "init_logger", "th_Listen", "th_RDWR", "th_run_timer"}
  IN  [th_run2 |-> upToTimer \union {"th_run2"},
       th_run3 |-> upToTimer \union {"th_run2", "th_run3"}]

\* A report thread has a report to write only while it is on its way to the
\* test of g_isExit; one that wrote to the closed descriptor has nothing left
\* to write and will find g_isExit set, which it is only when main waits in its
\* join; a thread that main has still to create has written nothing.
LateInv ==
  /\ g_fd = "closed" => g_isExit
  /\ g_isExit => place["main"] = "pthread_join"
  /\ \A t \in Reporters :
       /\ place["main"] \in Before[t] => place[t] = "unborn"
       /\ left[Own(t)] \in Written \union Unwritten
       /\ left[Own(t)] # <<>> => place[t] = "check"
       /\ \/ late[t] = 0
          \/ /\ late[t] = 1 /\ g_isExit
             /\ place[t] \in {"check", "ended"}
             /\ left[Own(t)] \in Written

\* Skipping what the log filters leaves a report in one of these forms.
LEMMA PastForms ==
  /\ \A ops \in Written : Past(Past(ops)) \in Written
  /\ \A ops \in Written \union Unwritten : Past(Past(ops)) \in Written \union Unwritten
  BY DEF Past, Filtered, Written, Unwritten, Locate, Status, Level

LEMMA TailForms ==
  ASSUME NEW ops \in Written \union Unwritten, ops # <<>>, Head(ops) \in DOMAIN Level
  PROVE  /\ ops \in Written => Tail(ops) \in Written
         /\ Tail(ops) \in Written \union Unwritten
<1>1. CASE ops = <<"DEBUG">>
  BY <1>1 DEF Written
<1>2. CASE ops = <<"ERROR">>
  BY <1>2 DEF Written
<1>3. CASE ops = <<"INFO", "write", "DEBUG">>
  BY <1>3 DEF Written, Unwritten
<1>4. CASE ops = <<"DEBUG", "write", "DEBUG">>
  BY <1>4 DEF Written, Unwritten
<1>5. ops # <<"write", "DEBUG">>
  BY DEF Level
<1> QED
  BY <1>1, <1>2, <1>3, <1>4, <1>5 DEF Written, Unwritten, Locate, Status

\* The own code of a report thread is left alone by every other context.
LEMMA LateCall ==
  ASSUME TypeOK, LateInv, NEW c \in Contexts, Call(c)
  PROVE  LateInv'
<1> USE DEF LateInv
<1>0. /\ late \in [Reporters -> Nat]
      /\ left \in [Contexts -> Seq(Operations)]
      /\ \A t \in Reporters : Own(t) \in Contexts
  BY DEF TypeOK, Contexts, Threads
<1>1. /\ UNCHANGED <<place, g_isExit, g_fd>>
      /\ UNCHANGED left \/ \E ops : Do(c, ops)
  BY DEF Call, Lock, Unlock, Write, WriteFails, Arm, Done
<1>2. \A d \in Contexts : d # c => left'[d] = left[d]
  BY <1>0, <1>1 DEF Do
<1>3. CASE c = Own(c[1]) /\ c[1] \in Reporters
  <2> DEFINE t == c[1]
  <2>1. \A u \in Reporters : u # t => left'[Own(u)] = left[Own(u)] /\ late'[u] = late[u]
    BY <1>0, <1>2, <1>3 DEF Call, Lock, Unlock, Write, WriteFails, Arm, Counted
  <2>2. CASE Lock(c)
    BY <1>1, <2>1, <2>2 DEF Lock
  <2>3. CASE Unlock(c)
    <3>1. left[c] \in Written \union Unwritten /\ left[c] # <<>> /\ late' = late
      BY <1>3, <2>3 DEF Unlock, Calls
    <3>2. /\ left[c] \in Written => Tail(left[c]) \in Written
          /\ Tail(left[c]) \in Written \union Unwritten
      BY <2>3, <3>1, TailForms DEF Unlock, Calls
    <3>3. left'[c] = Past(Past(Tail(left[c])))
      BY <1>0, <2>3 DEF Unlock, Done, Do
    <3> QED
      BY <1>1, <1>3, <2>1, <3>1, <3>2, <3>3, PastForms
  <2>4. CASE Write(c) \/ WriteFails(c)
    <3>1. left[c] = <<"write", "DEBUG">> /\ left[c] # <<>>
      BY <1>3, <2>4 DEF Write, WriteFails, Calls, Written, Unwritten, Locate, Status
    <3>2. left[c] \notin Written
      BY <3>1 DEF Written
    <3>3. left'[c] \in {Past(Past(<<"DEBUG">>)), Past(Past(<<"ERROR">>))}
      BY <1>0, <1>3, <2>4, <3>1 DEF Write, WriteFails, Done, Do, Failure
    <3>4. left'[c] \in Written
      BY <3>3, PastForms DEF Written
    <3>5. late[t] = 0 /\ place[t] = "check"
      BY <1>3, <3>1, <3>2
    <3>6. late'[t] = 0 \/ (late'[t] = 1 /\ g_isExit)
      BY <1>0, <1>3, <2>4, <3>5 DEF Write, WriteFails, Counted
    <3> QED
      BY <1>1, <1>3, <2>1, <3>4, <3>5, <3>6
  <2>5. CASE Arm(c)
    BY <1>3, <2>5 DEF Arm, Calls, Written, Unwritten, Locate, Status
  <2> QED
    BY <2>2, <2>3, <2>4, <2>5 DEF Call
<1>4. CASE ~(c = Own(c[1]) /\ c[1] \in Reporters)
  <2>0. \A u \in Reporters : Own(u)[1] = u
    BY DEF Own
  <2>1. \A u \in Reporters : left'[Own(u)] = left[Own(u)]
    BY <1>0, <1>2, <1>4, <2>0
  <2>2. late' = late
    BY <1>4 DEF Call, Lock, Unlock, Write, WriteFails, Arm, Counted, Contexts
  <2> QED
    BY <1>1, <2>1, <2>2
<1> QED
  BY <1>3, <1>4

\* A thread that looks at its loop has nothing left, and main creates a thread
\* that has not run.
LEMMA LateThreads ==
  ASSUME TypeOK, LateInv,
         main \/ th_RDWR \/ th_run_timer \/ (\E t \in Reporters : Reporting(t))
  PROVE  LateInv'
<1> USE DEF LateInv
<1>0. /\ late \in [Reporters -> Nat] /\ place \in [Threads -> Places]
      /\ left \in [Contexts -> Seq(Operations)] /\ g_isExit \in BOOLEAN
      /\ \A t \in Reporters : Own(t) \in Contexts /\ t \in Threads
      /\ "main" \in Threads
  BY DEF TypeOK, Contexts, Threads
<1>1. CASE th_RDWR
  <2>1. /\ \A t \in Reporters : left'[Own(t)] = left[Own(t)] /\ place'[t] = place[t]
        /\ place'["main"] = place["main"]
    BY <1>0, <1>1 DEF th_RDWR, Open, OpenFails, NeverOpened, Turn, EndTurn, Do, Go, Reporters
  <2> QED
    BY <1>1, <2>1 DEF th_RDWR, Open, OpenFails, NeverOpened, Turn, EndTurn
<1>2. CASE th_run_timer
  <2>1. \A t \in Reporters \union {"main"} : place'[t] = place[t]
    BY <1>0, <1>2 DEF th_run_timer, InstallHandler, ClearTimer, ShutTimer, TimerEnds, Go, Reporters
  <2> QED
    BY <1>2, <2>1 DEF th_run_timer, InstallHandler, ClearTimer, ShutTimer, TimerEnds
<1>3. ASSUME NEW t \in Reporters, Wake(t)
      PROVE  LateInv'
  <2>1. Report[t] \in Unwritten
    BY DEF Report, Reporters, Unwritten
  <2>2. left'[Own(t)] \in Written \union Unwritten /\ place'[t] = "check" /\ late[t] = 0
    BY <1>0, <1>3, <2>1, PastForms DEF Wake, At, Do, Go
  <2>3. /\ \A u \in Reporters : u # t => left'[Own(u)] = left[Own(u)] /\ place'[u] = place[u]
        /\ place'["main"] = place["main"] /\ place[t] = "run"
    BY <1>0, <1>3 DEF Wake, At, Do, Go, Reporters
  <2> QED
    BY <1>3, <2>2, <2>3 DEF Wake
<1>4. ASSUME NEW t \in Reporters, EndReport(t)
      PROVE  LateInv'
  <2>1. place'[t] = (IF g_isExit THEN "ended" ELSE "run") /\ left[Own(t)] = <<>>
    BY <1>0, <1>4 DEF EndReport, Go, At, Runs
  <2>2. /\ \A u \in Reporters : u # t => place'[u] = place[u]
        /\ place'["main"] = place["main"] /\ place[t] = "check"
    BY <1>0, <1>4 DEF EndReport, At, Go, Reporters
  <2> QED
    BY <1>4, <2>1, <2>2 DEF EndReport
<1>5. CASE main
  <2>0. /\ Before["th_run2"] \subseteq Before["th_run3"]
        /\ \A t \in Reporters : {"return", "scan", "pthread_join"} \cap Before[t] = {}
    BY DEF Before, Reporters
  <2>1. CASE ConfigureFails \/ InitLoggerFails \/ Return
    BY <2>1 DEF ConfigureFails, InitLoggerFails, Return
  <2>2. CASE Configure \/ InitLogger \/ Quit
    <3>1. \A t \in Reporters : left'[Own(t)] = left[Own(t)] /\ place'[t] = place[t]
      BY <1>0, <2>2 DEF Configure, InitLogger, Quit, Do, Go, Reporters
    <3>2. CASE Configure \/ InitLogger
      <4>1. \A t \in Reporters : place["main"] \in Before[t]
        BY <3>2 DEF Configure, InitLogger, At, Before, Reporters
      <4>2. ~g_isExit /\ place["main"] # "pthread_join"
        BY <3>2 DEF Configure, InitLogger, At
      <4> QED
        BY <3>1, <3>2, <4>1, <4>2 DEF Configure, InitLogger
    <3>3. CASE Quit
      <4>1. place'["main"] = "pthread_join"
        BY <1>0, <3>3 DEF Quit, Go, Threads
      <4> QED
        BY <2>0, <3>1, <3>3, <4>1 DEF Quit
    <3> QED
      BY <2>2, <3>2, <3>3
  <2>3. ASSUME NEW t \in DOMAIN Then, Create(t)
        PROVE  LateInv'
    <3>1. place["main"] = t /\ t # "pthread_join" /\ ~g_isExit
      BY <2>3 DEF Create, At, Then
    <3>2. place' = [place EXCEPT !["main"] = Then[t], ![t] = Start[t]] /\ t # "main"
      BY <2>3 DEF Create, Then
    <3>3. \A u \in Reporters : u # t => place'[u] = place[u]
      BY <1>0, <3>2 DEF Reporters
    <3>4. \A u \in Reporters : Then[t] \in Before[u] => t \in Before[u] /\ u # t
      BY DEF Then, Before, Reporters
    <3>5. t \in Reporters => left[Own(t)] = <<>> /\ late[t] = 0
      <4>1. t \in Reporters => t \in Before[t]
        BY DEF Before, Reporters
      <4> QED
        BY <3>1, <4>1
    <3>6. place'["main"] = Then[t]
      BY <1>0, <3>2 DEF Threads
    <3> QED
      BY <2>3, <3>1, <3>3, <3>4, <3>5, <3>6 DEF Create
  <2>4. ASSUME NEW t \in DOMAIN Then, CreateFails(t)
        PROVE  LateInv'
    <3>1. place["main"] = t /\ t # "pthread_join" /\ ~g_isExit
      BY <2>4 DEF CreateFails, At, Then
    <3>2. \A u \in Reporters : place'[u] = place[u] /\ left'[Own(u)] = left[Own(u)]
      BY <1>0, <2>4 DEF CreateFails, Go, Do, Reporters
    <3>3. place'["main"] \in {Then[t], "return"}
      BY <1>0, <2>4 DEF CreateFails, Go, Threads
    <3>4. \A u \in Reporters : Then[t] \in Before[u] => t \in Before[u]
      BY DEF Then, Before, Reporters
    <3> QED
      BY <2>0, <2>4, <3>1, <3>2, <3>3, <3>4 DEF CreateFails
  <2> QED
    BY <1>5, <2>1, <2>2, <2>3, <2>4 DEF main
<1> QED
  BY <1>1, <1>2, <1>3, <1>4, <1>5 DEF Reporting

LEMMA LateStep ==
  ASSUME TypeOK, LateInv, [Next]_vars
  PROVE  LateInv'
<1>1. CASE \E t \in Threads : Expire(t) \/ Block(t)
  <2>1. \A t \in Reporters : left'[Own(t)] = left[Own(t)]
    BY <1>1 DEF Expire, Block, Do, TypeOK, Contexts, Threads
  <2> QED
    BY <1>1, <2>1 DEF Expire, Block, LateInv
<1>2. CASE Killed \/ UNCHANGED vars
  BY <1>2 DEF Killed, vars, LateInv
<1> QED
  BY <1>1, <1>2, LateCall, LateThreads DEF Next

\* A report thread writes at most once to the descriptor that was closed.
THEOREM OneLateReportCorrect == Spec => []OneLateReport
<1>1. Init => LateInv
  BY DEF Init, LateInv, Contexts, Threads, Reporters, Written, Before
<1>2. LateInv => OneLateReport
  <2>1. LateInv => \A t \in Reporters : late[t] = 0 \/ late[t] = 1
    BY Zenon DEF LateInv
  <2> QED
    BY <2>1 DEF OneLateReport
<1> QED
  BY <1>1, <1>2, LateStep, TypeCorrect, PTL DEF Spec
=============================================================================
