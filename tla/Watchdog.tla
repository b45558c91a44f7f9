------------------------------- MODULE Watchdog -------------------------------
(* The heartbeat watchdog that both engines start before they touch the TPU: a  *)
(* hung process would keep the ION carveout, so a thread compares the age of    *)
(* the main thread's last heartbeat with a timeout and ends the process.        *)
(*                                                                              *)
(* Time is a number of ticks, kept as ages: of the heartbeat, of the value the  *)
(* watchdog has loaded, of the main thread's last kick and of the watchdog's    *)
(* last step.  Scheduling is bounded by MaxGap (a live main thread kicks at     *)
(* least that often) and Delay (a runnable watchdog thread runs by then).       *)
(*                                                                              *)
(* Its specification is WdSpec, so that it can be extended beside an engine's.  *)
EXTENDS Integers

CONSTANTS
    Timeout,    \* WD_TIMEOUT_SEC / SM_WD_TIMEOUT
    QwenPoll,   \* how long the Qwen watchdog sleeps between two checks
    MaxGap,     \* longest time a live main thread takes between two kicks
    Delay,      \* longest time a runnable watchdog thread waits for the CPU
    Boot        \* age of a heartbeat that was never stored (clock since boot)

ASSUME TimesAssumption == {Timeout, QwenPoll, MaxGap, Delay, Boot} \subseteq Nat
\* WD_TIMEOUT_SEC "covers the longest init gap and the slowest token": what a
\* heartbeat may age in a live process stays under the timeout.
ASSUME GapAssumption == MaxGap + Delay <= Timeout

VARIABLES
    engine,    \* "qwen" or "smol": the program this process runs
    main,      \* "start" | "armed" | "working" | "hung" | "done"
    enabled,   \* g_wd_enabled (qwen); always TRUE in smol, which has no flag
    wd,        \* "none" | "first" | "sleep" | "check": the watchdog thread
    age,       \* now - heartbeat
    seen,      \* now - the heartbeat value the watchdog has loaded
    gap,       \* the live main thread: now - its last kick (or its start)
    wait,      \* now - the watchdog's last step
    killed     \* the watchdog has called _exit(1)

wdVars == <<engine, main, enabled, wd, age, seen, gap, wait, killed>>

\* The SmolLM2 watchdog sleeps as long as its timeout.
Poll == IF engine = "qwen" THEN QwenPoll ELSE Timeout

Live == main \in {"start", "armed", "working"}
Running == ~killed /\ main # "done"

WdTypeOK ==
    /\ engine \in {"qwen", "smol"}
    /\ main \in {"start", "armed", "working", "hung", "done"}
    /\ enabled \in BOOLEAN /\ killed \in BOOLEAN
    /\ wd \in {"none", "first", "sleep", "check"}
    /\ {age, seen, gap, wait} \subseteq Nat

WdInit ==
    /\ engine \in {"qwen", "smol"}
    /\ main = "start" /\ wd = "none"
    /\ enabled = (engine = "smol")
    /\ age = Boot /\ seen = 0 /\ gap = 0 /\ wait = 0
    /\ killed = FALSE

-----------------------------------------------------------------------------
(* The main thread *)

\* qwen's wd_start stores a heartbeat before it raises the flag.
StoreFirstBug ==
    /\ engine = "qwen" /\ main = "start" /\ ~killed
    /\ main' = "armed" /\ enabled' = TRUE
    /\ UNCHANGED <<engine, wd, age, seen, gap, wait, killed>>
StoreFirst ==
    /\ engine = "qwen" /\ main = "start" /\ ~killed
    /\ main' = "armed" /\ age' = 0 /\ enabled' = TRUE
    /\ UNCHANGED <<engine, wd, seen, gap, wait, killed>>

\* pthread_create of the watchdog; without it the process runs unguarded.
CreateThread ==
    /\ main = IF engine = "qwen" THEN "armed" ELSE "start"
    /\ ~killed
    /\ main' = "working"
    /\ \/ /\ wd' = IF engine = "qwen" THEN "sleep" ELSE "first"
          /\ enabled' = enabled
       \/ wd' = "none" /\ enabled' = (engine = "smol")
    /\ wait' = 0
    /\ UNCHANGED <<engine, age, seen, gap, killed>>

\* wd_kick at an init milestone, a layer, a weight batch or an LM-head chunk.
Kick ==
    /\ main = "working" /\ ~killed
    /\ age' = IF enabled THEN 0 ELSE age
    /\ gap' = 0
    /\ UNCHANGED <<engine, main, enabled, wd, seen, wait, killed>>

\* An SDK call that never returns (ION retry loop, TPU submit, SD read).
Hang ==
    /\ main = "working" /\ ~killed
    /\ main' = "hung"
    /\ UNCHANGED <<engine, enabled, wd, age, seen, gap, wait, killed>>

\* main returns: the process and its watchdog are gone.
MainReturn ==
    /\ main = "working" /\ ~killed
    /\ main' = "done"
    /\ UNCHANGED <<engine, enabled, wd, age, seen, gap, wait, killed>>

-----------------------------------------------------------------------------
(* The watchdog thread *)

\* smol's thread kicks once itself before its first sleep.
FirstKickBug ==
    /\ wd = "first" /\ Running
    /\ wd' = "sleep" /\ wait' = 0
    /\ UNCHANGED <<engine, main, enabled, age, seen, gap, killed>>
FirstKick ==
    /\ wd = "first" /\ Running
    /\ wd' = "sleep" /\ age' = 0 /\ wait' = 0
    /\ UNCHANGED <<engine, main, enabled, seen, gap, killed>>

\* The sleep ends and the heartbeat is loaded.
LoadBug ==
    /\ wd = "sleep" /\ Running /\ wait >= Poll
    /\ wd' = "check" /\ seen' = age /\ wait' = 0 /\ age' = 0
    /\ UNCHANGED <<engine, main, enabled, gap, killed>>
Load ==
    /\ wd = "sleep" /\ Running /\ wait >= Poll
    /\ wd' = "check" /\ seen' = age /\ wait' = 0
    /\ UNCHANGED <<engine, main, enabled, age, gap, killed>>

\* The clock is read again and compared with the value loaded.
CheckBug ==
    /\ wd = "check" /\ Running
    /\ wait' = 0
    /\ IF enabled /\ seen > Timeout + Poll
       THEN killed' = TRUE /\ wd' = wd
       ELSE killed' = killed /\ wd' = "sleep"
    /\ UNCHANGED <<engine, main, enabled, age, seen, gap>>
Check ==
    /\ wd = "check" /\ Running
    /\ wait' = 0
    /\ IF enabled /\ seen > Timeout
       THEN killed' = TRUE /\ wd' = wd
       ELSE killed' = killed /\ wd' = "sleep"
    /\ UNCHANGED <<engine, main, enabled, age, seen, gap>>

-----------------------------------------------------------------------------
\* The latest moment of the watchdog's next step after its last one.
Due == CASE wd = "sleep" -> Poll + Delay
         [] wd \in {"first", "check"} -> Delay
         [] OTHER -> 0

\* One tick, unless a live main thread or a runnable watchdog must run first.
\* A process left without a watchdog goes on, and nothing measures its time.
Tick ==
    /\ Running
    /\ Live => gap < MaxGap
    /\ IF wd = "none" THEN main \in {"start", "armed"} ELSE wait < Due
    /\ age' = age + 1 /\ wait' = wait + 1
    /\ gap' = IF Live THEN gap + 1 ELSE gap
    /\ seen' = IF wd = "check" THEN seen + 1 ELSE seen
    /\ UNCHANGED <<engine, main, enabled, wd, killed>>

WdNext ==
    \/ StoreFirst \/ CreateThread \/ Kick \/ Hang \/ MainReturn
    \/ FirstKick \/ Load \/ Check
    \/ Tick

WdSpec == WdInit /\ [][WdNext]_wdVars
\* Time passes and a runnable watchdog thread runs; the main thread may hang.
WdFairSpec == WdSpec /\ WF_wdVars(Tick) /\ WF_wdVars(FirstKick \/ Load \/ Check)

-----------------------------------------------------------------------------
\* The watchdog never ends a process whose main thread is live, however its
\* first heartbeat, the thread's first check, and the pause between loading the
\* heartbeat and reading the clock fall (README.md: "zero false kills").
NoFalseKill == killed => main = "hung"

\* A process with a watchdog never lives longer without a heartbeat than one
\* timeout, one sleep and the scheduling delays.
HangBounded ==
    (Running /\ wd \in {"sleep", "check"} /\ enabled)
        => age <= Timeout + Poll + 2 * Delay

\* A hung process that has a watchdog is ended.
HungIsEnded == (main = "hung" /\ wd # "none") ~> killed
=============================================================================
