---------------------------- MODULE KeypadBinding ----------------------------
(***************************************************************************)
(* The driver binding of the keypad console: Start builds a device out of  *)
(* nine resources, each of which the firmware may refuse, ErrorExit takes  *)
(* down what Start had built, and Stop takes down a device that was in use.*)
(* All three run at TPL_APPLICATION, so the poll timer, the handler of key *)
(* notifications and the clients these call may run between any two of     *)
(* their steps, on a device that is half built or half gone.               *)
(*                                                                         *)
(* A resource is named by the field or the call that holds it; "armed" is  *)
(* the periodic timer behind TimerEvent, "interfaces" the two installed    *)
(* protocols, which are installed and uninstalled together.                *)
(***************************************************************************)
EXTENDS Naturals, Sequences

CONSTANT MaxListed   \* bound: how many key notifications are registered at once

ASSUME MaxListedAssumption == MaxListed \in Nat

VARIABLES held,     \* the resources the driver holds
          listed,   \* how many entries NotifyList has
          pending,  \* the events with a notification that waits to run
          step      \* the operation under way, its next step, and what failed

vars == <<held, listed, pending, step>>

Events == {"WaitForKey", "WaitForKeyEx", "TimerEvent", "KeyNotifyProcessEvent"}
Resources == Events \cup {"protocol", "pool", "armed", "names", "interfaces"}

\* The calls of the three paths, in the order of the source.
\* Mutant: the timer is created and never armed.
StartOrderUnarmed == <<"protocol", "pool", "WaitForKey", "WaitForKeyEx", "TimerEvent",
                       "KeyNotifyProcessEvent", "Reset", "names", "interfaces">>
StartOrder == <<"protocol", "pool", "WaitForKey", "WaitForKeyEx", "TimerEvent", "armed",
                "KeyNotifyProcessEvent", "Reset", "names", "interfaces">>

\* Mutant: the second wait event is forgotten.
ExitOrderForgets == <<"WaitForKey", "TimerEvent", "KeyNotifyProcessEvent",
                      "NotifyList", "names", "pool", "protocol">>
ExitOrder == <<"WaitForKey", "TimerEvent", "WaitForKeyEx", "KeyNotifyProcessEvent",
               "NotifyList", "names", "pool", "protocol">>

\* Mutant: the timer outlives the event its polls signal.
StopOrderTimerLast == <<"lookup", "interfaces", "protocol", "WaitForKey", "WaitForKeyEx",
                        "KeyNotifyProcessEvent", "TimerEvent", "NotifyList", "names", "pool">>
StopOrder == <<"lookup", "TimerEvent", "interfaces", "protocol", "WaitForKey",
               "WaitForKeyEx", "KeyNotifyProcessEvent", "NotifyList", "names", "pool">>

AtRest(failed) == [op |-> "none", at |-> 0, failed |-> failed]
At(op) == [op |-> op, at |-> 1, failed |-> "none"]

\* The step after this one, or rest after the last.
Onward(order) == IF step.at = Len(order) THEN AtRest(step.failed)
                                         ELSE [step EXCEPT !.at = @ + 1]

Init == held = {} /\ listed = 0 /\ pending = {} /\ step = AtRest("none")
-----------------------------------------------------------------------------
\* Supported opens the device protocol and closes it again; it refuses a
\* controller whose protocol the driver has open already.
KeypadControllerDriverSupported ==
    /\ step.op = "none"
    /\ "protocol" \notin held
    /\ step' = At("start")
    /\ UNCHANGED <<held, listed, pending>>

Start(resource) == step.op = "start" /\ StartOrder[step.at] = resource

StartAcquires ==
    \E resource \in Resources \cup {"Reset"} :
        /\ Start(resource)
        /\ held' = held \cup ({resource} \cap Resources)
        /\ step' = Onward(StartOrder)
        /\ UNCHANGED <<listed, pending>>

\* A name table that cannot be built is done without.
StartIsLeftNameless ==
    /\ Start("names")
    /\ step' = Onward(StartOrder)
    /\ UNCHANGED <<held, listed, pending>>

\* Every other failure goes to ErrorExit, but for that of the first call.
StartFails ==
    \E resource \in (Resources \ {"names"}) \cup {"Reset"} :
        /\ Start(resource)
        /\ step' = IF resource = "protocol" THEN AtRest("protocol")
                                            ELSE [At("exit") EXCEPT !.failed = resource]
        /\ UNCHANGED <<held, listed, pending>>
-----------------------------------------------------------------------------
\* Closing an event takes its pending notification with it, and its timer.
Release(resource) ==
    /\ held' = held \ (IF resource = "TimerEvent" THEN {resource, "armed"} ELSE {resource})
    /\ pending' = pending \ {resource}
    /\ listed' = IF resource = "NotifyList" THEN 0 ELSE listed

\* KbdFreeNotifyList reads the list in the device: where there is no device,
\* what is at that low address decides whether it comes back.
ExitReleases ==
    /\ step.op = "exit"
    /\ Release(ExitOrder[step.at])
    /\ \/ step' = Onward(ExitOrder)
       \/ /\ ExitOrder[step.at] = "NotifyList" /\ "pool" \notin held
          /\ step' = [step EXCEPT !.op = "lost"]

KeypadControllerDriverStop ==
    /\ step.op = "none"
    /\ step' = At("stop")
    /\ UNCHANGED <<held, listed, pending>>

\* A device that is not there has no SimpleTextIn to stop it through.
StopLooksUp ==
    /\ step.op = "stop" /\ StopOrder[step.at] = "lookup"
    /\ step' = IF "interfaces" \in held THEN Onward(StopOrder) ELSE AtRest("lookup")
    /\ UNCHANGED <<held, listed, pending>>

StopReleases ==
    /\ step.op = "stop" /\ StopOrder[step.at] # "lookup"
    /\ Release(StopOrder[step.at])
    /\ step' = Onward(StopOrder)

\* A consumer that keeps a protocol makes Stop return halfway.
StopIsRefused ==
    /\ step.op = "stop" /\ StopOrder[step.at] = "interfaces"
    /\ step' = AtRest("interfaces")
    /\ UNCHANGED <<held, listed, pending>>
-----------------------------------------------------------------------------
Running == step.op # "lost"

TimerTicks ==
    /\ Running /\ "armed" \in held
    /\ pending' = pending \cup {"TimerEvent"}
    /\ UNCHANGED <<held, listed, step>>

\* A poll may find a key that a registration matches.
PollFinds == \/ UNCHANGED listed /\ pending' = pending \ {"TimerEvent"}
             \/ /\ listed > 0 /\ UNCHANGED listed
                /\ pending' = (pending \ {"TimerEvent"}) \cup {"KeyNotifyProcessEvent"}

KeypadTimerHandler ==
    /\ Running /\ "TimerEvent" \in pending
    /\ PollFinds
    /\ UNCHANGED <<held, step>>

KeyNotifyProcessHandler ==
    /\ Running /\ "KeyNotifyProcessEvent" \in pending
    /\ pending' = pending \ {"KeyNotifyProcessEvent"}
    /\ UNCHANGED <<held, listed, step>>

\* Clients call the protocols while they are installed; a read polls too.
ClientReads ==
    /\ Running /\ "interfaces" \in held /\ listed > 0
    /\ pending' = pending \cup {"KeyNotifyProcessEvent"}
    /\ UNCHANGED <<held, listed, step>>

ClientRegisters ==
    /\ Running /\ "interfaces" \in held /\ listed < MaxListed
    /\ listed' = listed + 1
    /\ UNCHANGED <<held, pending, step>>

ClientUnregisters ==
    /\ Running /\ "interfaces" \in held /\ listed > 0
    /\ listed' = listed - 1
    /\ UNCHANGED <<held, pending, step>>

Next == \/ KeypadControllerDriverSupported \/ StartAcquires \/ StartIsLeftNameless
        \/ StartFails \/ ExitReleases
        \/ KeypadControllerDriverStop \/ StopLooksUp \/ StopReleases \/ StopIsRefused
        \/ TimerTicks \/ KeypadTimerHandler \/ KeyNotifyProcessHandler
        \/ ClientReads \/ ClientRegisters \/ ClientUnregisters

BindingSpec == Init /\ [][Next]_vars
-----------------------------------------------------------------------------
\* The type invariant: what the driver holds, which of its notifications wait,
\* and how far Start, ErrorExit or Stop has come.
BindingTypeOK ==
    /\ held \subseteq Resources /\ listed \in 0 .. MaxListed
    /\ pending \subseteq {"TimerEvent", "KeyNotifyProcessEvent"}
    /\ step \in [op : {"none", "start", "exit", "lost", "stop"}, at : Nat,
                 failed : Resources \cup {"none", "Reset", "lookup"}]
    /\ \/ step.op = "none" /\ step.at = 0
       \/ step.op = "start" /\ step.at \in DOMAIN StartOrder
       \/ step.op \in {"exit", "lost"} /\ step.at \in DOMAIN ExitOrder
       \/ step.op = "stop" /\ step.at \in DOMAIN StopOrder

\* Whatever may still run finds what it works on: no event, timer, installed
\* protocol, name table or registration outlives the device, no notification
\* waits on an event that is closed or not yet created (a poll signals
\* KeyNotifyProcessEvent whenever the list has a match), and the driver is lost
\* in the list of a device that is not there only when there never was one.
NothingDangles ==
    /\ held \cap (Resources \ {"protocol", "pool"}) # {} \/ listed > 0 => "pool" \in held
    /\ pending \subseteq held
    /\ "armed" \in held => "TimerEvent" \in held
    /\ step.op = "lost" => step.failed = "pool"

\* When neither Start nor Stop runs, the driver either has let go of everything,
\* whichever call of Start failed, or has the controller with its protocols
\* installed on a whole device that is polled.  A Stop that was refused is the
\* one exception: it leaves the protocols on a device whose timer is closed.
AllOrNothing ==
    step.op = "none" =>
        \/ held = {} /\ listed = 0 /\ pending = {}
        \/ /\ {"protocol", "pool", "interfaces"} \cup (Events \ {"TimerEvent"}) \subseteq held
           /\ \/ {"TimerEvent", "armed"} \subseteq held
              \/ step.failed = "interfaces"
=============================================================================
