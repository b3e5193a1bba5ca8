------------------------------ MODULE WatchDog ------------------------------
(***************************************************************************)
(* The watchdog driver and the watchdog it keeps from firing.  Time is     *)
(* counted in periods of the ping timer (5 s of a timeout of 30 s).        *)
(***************************************************************************)
EXTENDS Naturals

CONSTANT Timeout   \* in periods of the ping timer

\* It is six: a ping that is due has another period to come.
ASSUME TimeoutAssumption == Timeout \in Nat /\ Timeout > 1

VARIABLES
    working,   \* PcdWatchdogWorkingTimer of the platform
    backup,    \* the mode the boot loader left: enabled or not
    enabled,   \* the mode register
    left,      \* what the counter has left
    driver,    \* what the driver has set up
    pingDue,   \* the ping timer's event is signalled and waits
    stage      \* "boot", "os" after ExitBootServices, or "reset"

watchdogVars == <<working, backup, enabled, left, driver, pingDue, stage>>

\* driver: the events that exist.
NotLoaded == [loaded |-> FALSE, timer |-> FALSE, exitEvent |-> FALSE]

WatchdogInit ==
    /\ working \in BOOLEAN
    /\ backup \in BOOLEAN /\ enabled = backup
    /\ left = Timeout
    /\ driver = NotLoaded
    /\ pingDue = FALSE
    /\ stage = "boot"

\* Mutant: one unit too many.
SetTimeoutLonger == left' = Timeout + 1

\* SetTimeout (30*1000*1000) restarts the counter with the whole timeout.
SetTimeout == left' = Timeout

\* The call that fails in WatchdogDxeEntry, or none.
EntryFailures == {"none", "CreateTimerEvent", "SetTimer", "CreateExitEvent"}

\* Mutant: a working timer is disabled and enabled again at the end only.
WatchdogDxeEntryDisables(failure) ==
    /\ stage = "boot" /\ ~driver.loaded
    /\ failure \in {"CreateTimerEvent", "SetTimer"} => working
    /\ SetTimeout
    /\ enabled' = FALSE
    /\ driver' = [loaded |-> TRUE,
                  timer |-> working /\ failure \notin {"CreateTimerEvent", "SetTimer"},
                  exitEvent |-> failure = "none"]
    /\ UNCHANGED <<working, backup, pingDue, stage>>

\* Each failure returns at once and leaves what was done before it.
WatchdogDxeEntry(failure) ==
    /\ stage = "boot" /\ ~driver.loaded
    /\ failure \in {"CreateTimerEvent", "SetTimer"} => working
    /\ SetTimeout
    /\ enabled' = (enabled /\ working)
    /\ driver' = [loaded |-> TRUE,
                  timer |-> working /\ failure \notin {"CreateTimerEvent", "SetTimer"},
                  exitEvent |-> failure = "none"]
    /\ UNCHANGED <<working, backup, pingDue, stage>>

\* Mutant: the two cases are exchanged.
PingWatchdogEventExchanged ==
    IF ~working THEN left' = Timeout /\ enabled' = enabled
    ELSE enabled' = backup /\ left' = left

\* The counter starts anew, or the mode is restored.
PingWatchdogEvent ==
    IF working THEN left' = Timeout /\ enabled' = enabled
    ELSE enabled' = backup /\ left' = left

\* The ping timer's event is dispatched at TPL_CALLBACK.  When the entry point
\* failed after it set the timer, the driver's image is gone and its memory may
\* have been reused: the call still pings, or does something else.
TimerPings ==
    /\ stage = "boot" /\ pingDue
    /\ pingDue' = FALSE
    /\ PingWatchdogEvent \/ (~driver.exitEvent /\ UNCHANGED <<enabled, left>>)
    /\ UNCHANGED <<working, backup, driver, stage>>

\* ExitBootServices stops the timer and signals the event of the driver.
ExitBootServices ==
    /\ stage = "boot" /\ driver.loaded
    /\ stage' = "os"
    /\ pingDue' = FALSE
    /\ IF driver.exitEvent THEN PingWatchdogEvent ELSE UNCHANGED <<enabled, left>>
    /\ driver' = [driver EXCEPT !.timer = FALSE]
    /\ UNCHANGED <<working, backup>>

\* A period of the ping timer passes; the watchdog counts when it is enabled.
PeriodPasses ==
    /\ stage = "boot"
    /\ left' = IF enabled THEN left - 1 ELSE left
    /\ stage' = IF left' = 0 THEN "reset" ELSE stage
    /\ pingDue' = (pingDue \/ driver.timer)
    /\ UNCHANGED <<working, backup, enabled, driver>>
-----------------------------------------------------------------------------
WatchdogTypeOK ==
    /\ working \in BOOLEAN /\ backup \in BOOLEAN /\ enabled \in BOOLEAN
    /\ pingDue \in BOOLEAN
    /\ left \in 0 .. Timeout
    /\ driver \in [loaded : BOOLEAN, timer : BOOLEAN, exitEvent : BOOLEAN]
    /\ stage \in {"boot", "os", "reset"}

\* The operating system takes over a watchdog in the mode the boot loader left,
\* with a whole timeout ahead of it, once the driver's entry point succeeded
\* (WatchDogDxe.c:58-62,111-117).
HandsOverWholeTimeout ==
    [][ stage = "boot" /\ stage' = "os" /\ driver.exitEvent
          => enabled' = backup /\ left' = Timeout ]_watchdogVars
=============================================================================
