------------------------- MODULE KeypadBindingProofs -------------------------
(***************************************************************************)
(* Theorems about KeypadBinding, for any number of key notifications.      *)
(***************************************************************************)
EXTENDS KeypadBinding, TLAPS

\* Which step of each path is about which resource.
LEMMA StartSteps ==
    /\ Len(StartOrder) = 10 /\ DOMAIN StartOrder = 1 .. 10
    /\ StartOrder[1] = "protocol" /\ StartOrder[2] = "pool"
    /\ StartOrder[3] = "WaitForKey" /\ StartOrder[4] = "WaitForKeyEx"
    /\ StartOrder[5] = "TimerEvent" /\ StartOrder[6] = "armed"
    /\ StartOrder[7] = "KeyNotifyProcessEvent" /\ StartOrder[8] = "Reset"
    /\ StartOrder[9] = "names" /\ StartOrder[10] = "interfaces"
BY DEF StartOrder

LEMMA ExitSteps ==
    /\ Len(ExitOrder) = 8 /\ DOMAIN ExitOrder = 1 .. 8
    /\ ExitOrder[1] = "WaitForKey" /\ ExitOrder[2] = "TimerEvent"
    /\ ExitOrder[3] = "WaitForKeyEx" /\ ExitOrder[4] = "KeyNotifyProcessEvent"
    /\ ExitOrder[5] = "NotifyList" /\ ExitOrder[6] = "names"
    /\ ExitOrder[7] = "pool" /\ ExitOrder[8] = "protocol"
BY DEF ExitOrder

LEMMA StopSteps ==
    /\ Len(StopOrder) = 10 /\ DOMAIN StopOrder = 1 .. 10
    /\ StopOrder[1] = "lookup" /\ StopOrder[2] = "TimerEvent"
    /\ StopOrder[3] = "interfaces" /\ StopOrder[4] = "protocol"
    /\ StopOrder[5] = "WaitForKey" /\ StopOrder[6] = "WaitForKeyEx"
    /\ StopOrder[7] = "KeyNotifyProcessEvent" /\ StopOrder[8] = "NotifyList"
    /\ StopOrder[9] = "names" /\ StopOrder[10] = "pool"
BY DEF StopOrder
-----------------------------------------------------------------------------
\* A device with its protocols installed, but perhaps without its timer.
Whole == {"protocol", "pool", "interfaces"} \cup (Events \ {"TimerEvent"}) \subseteq held
Nothing == held = {} /\ listed = 0 /\ pending = {}

\* What Start holds before each of its steps: what the steps before acquired.
StartHolds ==
    step.op = "start" =>
        /\ listed = 0 /\ "interfaces" \notin held
        /\ "protocol" \in held <=> step.at > 1
        /\ "pool" \in held <=> step.at > 2
        /\ "WaitForKey" \in held <=> step.at > 3
        /\ "WaitForKeyEx" \in held <=> step.at > 4
        /\ "TimerEvent" \in held <=> step.at > 5
        /\ "armed" \in held <=> step.at > 6
        /\ "KeyNotifyProcessEvent" \in held <=> step.at > 7
        /\ "names" \in held => step.at > 9

\* What ErrorExit may still hold before each of its steps: the device until its
\* step, unless it is the device that could not be had.
ExitHolds ==
    step.op = "exit" =>
        /\ listed = 0 /\ "interfaces" \notin held
        /\ "WaitForKey" \in held => step.at <= 1
        /\ "TimerEvent" \in held \/ "armed" \in held => step.at <= 2
        /\ "WaitForKeyEx" \in held => step.at <= 3
        /\ "KeyNotifyProcessEvent" \in held => step.at <= 4
        /\ "names" \in held => step.at <= 6
        /\ "pool" \in held => step.at <= 7
        /\ step.failed # "pool" => ("pool" \in held <=> step.at <= 7)
        /\ step.failed = "pool" => held \subseteq {"protocol"}

\* What Stop holds before each of its steps, once it has found the device.
StopHolds ==
    step.op = "stop" =>
        /\ step.at = 1 => Nothing \/ Whole
        /\ step.at \in {2, 3} => Whole
        /\ step.at > 2 => "TimerEvent" \notin held /\ "armed" \notin held
        /\ step.at > 3 => "interfaces" \notin held
        /\ step.at > 4 => "protocol" \notin held
        /\ step.at > 5 => "WaitForKey" \notin held
        /\ step.at > 6 => "WaitForKeyEx" \notin held
        /\ step.at > 7 => "KeyNotifyProcessEvent" \notin held
        /\ step.at > 8 => listed = 0
        /\ step.at > 9 => "names" \notin held
        /\ step.at > 1 => "pool" \in held

BindingInv == /\ BindingTypeOK /\ NothingDangles /\ AllOrNothing
              /\ StartHolds /\ ExitHolds /\ StopHolds

\* What the invariant is good for between two steps: a poll or a client finds
\* the event that it signals.
LEMMA SignalledEventExists ==
    ASSUME BindingInv, listed > 0, step.op # "lost",
           "interfaces" \in held \/ "TimerEvent" \in held
    PROVE  "KeyNotifyProcessEvent" \in held
<1>1. CASE step.op = "none"
  BY <1>1 DEF BindingInv, BindingTypeOK, AllOrNothing, Events
<1>2. CASE step.op = "start"
  BY <1>2 DEF BindingInv, BindingTypeOK, StartHolds
<1>3. CASE step.op = "exit"
  BY <1>3 DEF BindingInv, BindingTypeOK, ExitHolds
<1>4. CASE step.op = "stop"
  BY <1>4, StopSteps DEF BindingInv, BindingTypeOK, StopHolds, Whole, Nothing, Events
<1> QED BY <1>1, <1>2, <1>3, <1>4 DEF BindingInv, BindingTypeOK

LEMMA BindingInvStart == Init => BindingInv
<1> SUFFICES ASSUME Init PROVE BindingInv
  OBVIOUS
<1>1. step = [op |-> "none", at |-> 0, failed |-> "none"]
  BY DEF Init, AtRest
<1>2. BindingTypeOK
  BY <1>1, MaxListedAssumption DEF Init, BindingTypeOK
<1>3. NothingDangles /\ AllOrNothing
  BY <1>1 DEF Init, NothingDangles, AllOrNothing
<1> QED
  BY <1>1, <1>2, <1>3 DEF BindingInv, StartHolds, ExitHolds, StopHolds

LEMMA SupportedStep == BindingInv /\ KeypadControllerDriverSupported => BindingInv'
<1> SUFFICES ASSUME BindingInv, KeypadControllerDriverSupported PROVE BindingInv'
  OBVIOUS
<1>1. held = {} /\ listed = 0 /\ pending = {}
  BY DEF KeypadControllerDriverSupported, BindingInv, AllOrNothing
<1> QED
  BY <1>1, StartSteps
     DEF KeypadControllerDriverSupported, At, BindingInv, BindingTypeOK, NothingDangles,
         AllOrNothing, StartHolds, ExitHolds, StopHolds, Resources, Events

\* An acquisition that is not the last goes one step on, and the last to rest.
LEMMA StartAcquiresStep == BindingInv /\ StartAcquires => BindingInv'
<1> SUFFICES ASSUME BindingInv, NEW r \in Resources \cup {"Reset"}, Start(r),
                    held' = held \cup ({r} \cap Resources), step' = Onward(StartOrder),
                    UNCHANGED <<listed, pending>>
             PROVE  BindingInv'
  BY DEF StartAcquires
<1>1. step.op = "start" /\ step.at \in 1 .. 10 /\ StartOrder[step.at] = r
  BY StartSteps DEF Start, BindingInv, BindingTypeOK
<1>2. CASE step.at < 10
  <2>1. step' = [step EXCEPT !.at = step.at + 1]
    BY <1>1, <1>2, StartSteps DEF Onward
  <2>2. BindingTypeOK'
    BY <1>1, <1>2, <2>1, StartSteps DEF BindingInv, BindingTypeOK
  <2>3. StartHolds'
    <3>1. held' = IF r = "Reset" THEN held ELSE held \cup {r}
      BY DEF Resources, Events
    <3>2. step'.op = "start" /\ step'.at = step.at + 1 /\ listed' = listed
      BY <1>1, <2>1 DEF BindingInv, BindingTypeOK
    <3>3. /\ r = "protocol" <=> step.at = 1
          /\ r = "pool" <=> step.at = 2
          /\ r = "WaitForKey" <=> step.at = 3
          /\ r = "WaitForKeyEx" <=> step.at = 4
          /\ r = "TimerEvent" <=> step.at = 5
          /\ r = "armed" <=> step.at = 6
          /\ r = "KeyNotifyProcessEvent" <=> step.at = 7
          /\ r = "names" <=> step.at = 9
          /\ r # "interfaces"
      BY <1>1, <1>2, StartSteps
    <3> QED
      BY <1>1, <1>2, <3>1, <3>2, <3>3 DEF BindingInv, StartHolds
  <2>4. NothingDangles'
    BY <1>1, <1>2, <2>1, StartSteps
       DEF BindingInv, BindingTypeOK, NothingDangles, StartHolds, Resources, Events
  <2> QED
    BY <1>1, <2>1, <2>2, <2>3, <2>4
       DEF BindingInv, BindingTypeOK, AllOrNothing, ExitHolds, StopHolds
<1>3. CASE step.at = 10
  <2>1. step' = [op |-> "none", at |-> 0, failed |-> step.failed]
    BY <1>1, <1>3, StartSteps DEF Onward, AtRest
  <2>2. BindingTypeOK'
    BY <1>1, <2>1 DEF BindingInv, BindingTypeOK
  <2>3. /\ r = "interfaces" /\ held' = held \cup {"interfaces"}
        /\ UNCHANGED <<listed, pending>>
    BY <1>1, <1>3, StartSteps DEF Resources
  <2>4. {"protocol", "pool", "TimerEvent", "armed"} \cup Events \subseteq held
    BY <1>1, <1>3 DEF BindingInv, StartHolds, Events
  <2>5. AllOrNothing'
    BY <2>3, <2>4 DEF AllOrNothing, Events
  <2>6. NothingDangles'
    BY <2>1, <2>3, <2>4 DEF BindingInv, NothingDangles, Events
  <2> QED
    BY <2>1, <2>2, <2>5, <2>6 DEF BindingInv, StartHolds, ExitHolds, StopHolds
<1> QED BY <1>1, <1>2, <1>3

LEMMA StartIsLeftNamelessStep == BindingInv /\ StartIsLeftNameless => BindingInv'
<1> SUFFICES ASSUME BindingInv, StartIsLeftNameless PROVE BindingInv'
  OBVIOUS
<1>1. step.op = "start" /\ step.at = 9
  BY StartSteps DEF StartIsLeftNameless, Start, BindingInv, BindingTypeOK
<1>2. step' = [step EXCEPT !.at = 10] /\ UNCHANGED <<held, listed, pending>>
  BY <1>1, StartSteps DEF StartIsLeftNameless, Onward, BindingInv, BindingTypeOK
<1> QED
  BY <1>1, <1>2, StartSteps
     DEF BindingInv, BindingTypeOK, NothingDangles, AllOrNothing, StartHolds, ExitHolds, StopHolds

LEMMA StartFailsStep == BindingInv /\ StartFails => BindingInv'
<1> SUFFICES ASSUME BindingInv, NEW r \in (Resources \ {"names"}) \cup {"Reset"}, Start(r),
                    step' = IF r = "protocol" THEN AtRest("protocol")
                                              ELSE [At("exit") EXCEPT !.failed = r],
                    UNCHANGED <<held, listed, pending>>
             PROVE  BindingInv'
  BY DEF StartFails
<1>1. step.op = "start" /\ step.at \in 1 .. 10 /\ StartOrder[step.at] = r
  BY StartSteps DEF Start, BindingInv, BindingTypeOK
<1>2. CASE r = "protocol"
  <2>1. step.at = 1 /\ step' = [op |-> "none", at |-> 0, failed |-> "protocol"]
    BY <1>1, <1>2, StartSteps DEF AtRest
  <2>2. held = {} /\ listed = 0 /\ pending = {}
    BY <1>1, <2>1
       DEF BindingInv, BindingTypeOK, NothingDangles, StartHolds, Resources, Events
  <2> QED
    BY <2>1, <2>2
       DEF BindingInv, BindingTypeOK, NothingDangles, AllOrNothing, StartHolds, ExitHolds,
           StopHolds, Resources, Events
<1>3. CASE r # "protocol"
  <2>1. step' = [op |-> "exit", at |-> 1, failed |-> r] /\ step.at > 1
    BY <1>1, <1>3, StartSteps DEF At
  <2>2. BindingTypeOK'
    BY <2>1, ExitSteps DEF BindingInv, BindingTypeOK
  <2>3. r = "pool" <=> step.at = 2
    BY <1>1, StartSteps
  <2>4. ExitHolds'
    BY <1>1, <2>1, <2>3
       DEF BindingInv, BindingTypeOK, StartHolds, ExitHolds, Resources, Events
  <2> QED
    BY <2>1, <2>2, <2>4
       DEF BindingInv, NothingDangles, AllOrNothing, StartHolds, StopHolds
<1> QED BY <1>2, <1>3

\* ErrorExit lets go of one resource after the other; without a device it may
\* be lost in the list.
LEMMA ExitReleasesStep == BindingInv /\ ExitReleases => BindingInv'
<1> SUFFICES ASSUME BindingInv, ExitReleases PROVE BindingInv'
  OBVIOUS
<1> DEFINE r == ExitOrder[step.at]
<1>1. step.op = "exit" /\ step.at \in 1 .. 8 /\ listed = 0 /\ "interfaces" \notin held
  BY ExitSteps DEF ExitReleases, BindingInv, BindingTypeOK, ExitHolds
<1>2. /\ held' \subseteq held /\ r \notin held'
      /\ r # "pool" /\ "pool" \in held => "pool" \in held'
      /\ r = "TimerEvent" => "armed" \notin held'
      /\ pending' = pending \ {r} /\ listed' = 0
  BY <1>1 DEF ExitReleases, Release
<1>3. /\ \A x \in held : x \in held' \/ x = r \/ (r = "TimerEvent" /\ x = "armed")
      /\ r # "armed"
  BY <1>1, ExitSteps DEF ExitReleases, Release
<1>4. NothingDangles'
  <2>1. held' \cap (Resources \ {"protocol", "pool"}) # {} => "pool" \in held'
    <3>1. CASE r = "pool"
      BY <1>1, <1>2, <3>1, ExitSteps
         DEF BindingInv, BindingTypeOK, ExitHolds, Resources, Events
    <3>2. CASE r # "pool"
      BY <1>2, <3>2 DEF BindingInv, NothingDangles
    <3> QED BY <3>1, <3>2
  <2>2. pending' \subseteq held' /\ ("armed" \in held' => "TimerEvent" \in held')
    BY <1>2, <1>3 DEF BindingInv, BindingTypeOK, NothingDangles
  <2>3. step'.op = "lost" => step'.failed = "pool"
    BY <1>1, ExitSteps
       DEF ExitReleases, Onward, AtRest, BindingInv, BindingTypeOK, ExitHolds
  <2> QED BY <1>2, <2>1, <2>2, <2>3 DEF NothingDangles
<1>5. CASE step' = Onward(ExitOrder) /\ step.at < 8
  <2>1. step' = [step EXCEPT !.at = step.at + 1]
    BY <1>1, <1>5, ExitSteps DEF Onward
  <2>2. BindingTypeOK'
    BY <1>1, <1>2, <1>5, <2>1, ExitSteps, MaxListedAssumption DEF BindingInv, BindingTypeOK
  <2>3. step'.op = "exit" /\ step'.at = step.at + 1 /\ step'.failed = step.failed
    BY <1>1, <2>1 DEF BindingInv, BindingTypeOK
  <2>4. /\ r = "WaitForKey" <=> step.at = 1
        /\ r = "TimerEvent" <=> step.at = 2
        /\ r = "WaitForKeyEx" <=> step.at = 3
        /\ r = "KeyNotifyProcessEvent" <=> step.at = 4
        /\ r = "names" <=> step.at = 6
        /\ r = "pool" <=> step.at = 7
    BY <1>1, <1>5, ExitSteps
  <2>5. ExitHolds'
    BY <1>1, <1>2, <2>3, <2>4 DEF BindingInv, ExitHolds
  <2> QED
    BY <1>4, <2>2, <2>3, <2>5 DEF BindingInv, AllOrNothing, StartHolds, StopHolds
<1>6. CASE step' = Onward(ExitOrder) /\ step.at = 8
  <2>1. step' = [op |-> "none", at |-> 0, failed |-> step.failed]
    BY <1>1, <1>6, ExitSteps DEF Onward, AtRest
  <2>2. BindingTypeOK'
    BY <1>1, <1>2, <2>1, MaxListedAssumption DEF BindingInv, BindingTypeOK
  <2>3. held' = {}
    BY <1>1, <1>2, <1>6, ExitSteps
       DEF BindingInv, BindingTypeOK, ExitHolds, Resources, Events
  <2>4. pending' = {}
    BY <1>4, <2>3 DEF NothingDangles
  <2> QED
    BY <1>2, <1>4, <2>1, <2>2, <2>3, <2>4
       DEF BindingInv, AllOrNothing, StartHolds, ExitHolds, StopHolds
<1>7. CASE step' = [step EXCEPT !.op = "lost"]
  <2>1. step'.op = "lost"
    BY <1>7 DEF BindingInv, BindingTypeOK
  <2>2. BindingTypeOK'
    BY <1>1, <1>2, <1>7, ExitSteps, MaxListedAssumption DEF BindingInv, BindingTypeOK
  <2> QED
    BY <1>4, <2>1, <2>2 DEF BindingInv, AllOrNothing, StartHolds, ExitHolds, StopHolds
<1> QED BY <1>1, <1>5, <1>6, <1>7 DEF ExitReleases
-----------------------------------------------------------------------------
LEMMA StopBeginsStep == BindingInv /\ KeypadControllerDriverStop => BindingInv'
<1> SUFFICES ASSUME BindingInv, KeypadControllerDriverStop PROVE BindingInv'
  OBVIOUS
<1>1. step' = [op |-> "stop", at |-> 1, failed |-> "none"] /\ UNCHANGED <<held, listed, pending>>
  BY DEF KeypadControllerDriverStop, At
<1>2. Nothing \/ Whole
  BY DEF KeypadControllerDriverStop, BindingInv, AllOrNothing, Nothing, Whole
<1>3. (Nothing \/ Whole)'
  BY <1>1, <1>2 DEF Nothing, Whole
<1>4. BindingTypeOK'
  BY <1>1, StopSteps DEF BindingInv, BindingTypeOK
<1> QED
  BY <1>1, <1>3, <1>4
     DEF BindingInv, NothingDangles, AllOrNothing, StartHolds, ExitHolds, StopHolds

LEMMA StopLooksUpStep == BindingInv /\ StopLooksUp => BindingInv'
<1> SUFFICES ASSUME BindingInv, StopLooksUp PROVE BindingInv'
  OBVIOUS
<1>1. step.op = "stop" /\ step.at = 1 /\ UNCHANGED <<held, listed, pending>>
  BY StopSteps DEF StopLooksUp, BindingInv, BindingTypeOK
<1>2. Nothing \/ Whole
  BY <1>1 DEF BindingInv, StopHolds
<1>3. CASE "interfaces" \in held
  <2>1. step' = [step EXCEPT !.at = 2]
    BY <1>1, <1>3, StopSteps DEF StopLooksUp, Onward, BindingInv, BindingTypeOK
  <2>2. Whole'
    BY <1>1, <1>2, <1>3 DEF Nothing, Whole
  <2>3. BindingTypeOK'
    BY <1>1, <2>1, StopSteps DEF BindingInv, BindingTypeOK
  <2>4. step'.op = "stop" /\ step'.at = 2
    BY <1>1, <2>1 DEF BindingInv, BindingTypeOK
  <2>5. "pool" \in held'
    BY <2>2 DEF Whole
  <2> QED
    BY <1>1, <2>2, <2>3, <2>4, <2>5
       DEF BindingInv, NothingDangles, AllOrNothing, StartHolds, ExitHolds, StopHolds
<1>4. CASE "interfaces" \notin held
  <2>1. step' = [op |-> "none", at |-> 0, failed |-> "lookup"]
    BY <1>4 DEF StopLooksUp, AtRest
  <2>2. held' = {} /\ listed' = 0 /\ pending' = {}
    BY <1>1, <1>2, <1>4 DEF Nothing, Whole
  <2>3. BindingTypeOK'
    BY <2>1, <2>2, MaxListedAssumption DEF BindingTypeOK
  <2> QED
    BY <2>1, <2>2, <2>3
       DEF BindingInv, NothingDangles, AllOrNothing, StartHolds, ExitHolds, StopHolds
<1> QED BY <1>3, <1>4

LEMMA StopReleasesStep == BindingInv /\ StopReleases => BindingInv'
<1> SUFFICES ASSUME BindingInv, StopReleases PROVE BindingInv'
  OBVIOUS
<1> DEFINE r == StopOrder[step.at]
<1>1. step.op = "stop" /\ step.at \in 2 .. 10 /\ r # "lookup"
  BY StopSteps DEF StopReleases, BindingInv, BindingTypeOK
<1>2. /\ held' \subseteq held /\ r \notin held'
      /\ r = "TimerEvent" => "armed" \notin held'
      /\ pending' = pending \ {r}
      /\ listed' = IF r = "NotifyList" THEN 0 ELSE listed
  BY DEF StopReleases, Release
<1>3. /\ \A x \in held : x \in held' \/ x = r \/ (r = "TimerEvent" /\ x = "armed")
      /\ r # "armed"
  BY <1>1, StopSteps DEF StopReleases, Release
<1>4. CASE step.at < 10
  <2>1. step' = [step EXCEPT !.at = step.at + 1]
    BY <1>1, <1>4, StopSteps DEF StopReleases, Onward
  <2>2. BindingTypeOK'
    BY <1>1, <1>2, <1>4, <2>1, StopSteps, MaxListedAssumption DEF BindingInv, BindingTypeOK
  <2>3. step'.op = "stop" /\ step'.at = step.at + 1 /\ step'.failed = step.failed
    BY <1>1, <2>1 DEF BindingInv, BindingTypeOK
  <2>4. /\ r = "TimerEvent" <=> step.at = 2
        /\ r = "interfaces" <=> step.at = 3
        /\ r = "protocol" <=> step.at = 4
        /\ r = "WaitForKey" <=> step.at = 5
        /\ r = "WaitForKeyEx" <=> step.at = 6
        /\ r = "KeyNotifyProcessEvent" <=> step.at = 7
        /\ r = "NotifyList" <=> step.at = 8
        /\ r = "names" <=> step.at = 9
        /\ r # "pool"
    BY <1>1, <1>4, StopSteps
  <2>5. "pool" \in held'
    BY <1>1, <1>3, <2>4 DEF BindingInv, StopHolds
  <2>6. step.at = 2 => Whole'
    <3> DEFINE Kept == {"protocol", "pool", "interfaces"} \cup (Events \ {"TimerEvent"})
    <3> SUFFICES ASSUME step.at = 2 PROVE Kept \subseteq held'
      BY DEF Whole
    <3>1. Kept \subseteq held
      BY <1>1 DEF BindingInv, StopHolds, Whole
    <3>2. \A x \in Kept : x # "TimerEvent" /\ x # "armed"
      BY DEF Events
    <3> HIDE DEF Kept
    <3> QED BY <1>3, <2>4, <3>1, <3>2
  <2>7. StopHolds'
    BY <1>1, <1>2, <2>3, <2>4, <2>5, <2>6 DEF BindingInv, StopHolds
  <2>8. NothingDangles'
    <3>1. pending' \subseteq held' /\ ("armed" \in held' => "TimerEvent" \in held')
      BY <1>2, <1>3 DEF BindingInv, BindingTypeOK, NothingDangles
    <3> QED BY <2>3, <2>5, <3>1 DEF NothingDangles
  <2> QED
    BY <2>2, <2>3, <2>7, <2>8 DEF BindingInv, AllOrNothing, StartHolds, ExitHolds
<1>5. CASE step.at = 10
  <2>1. step' = [op |-> "none", at |-> 0, failed |-> step.failed]
    BY <1>1, <1>5, StopSteps DEF StopReleases, Onward, AtRest
  <2>2. BindingTypeOK'
    <3>1. listed' \in 0 .. MaxListed
      BY <1>2, MaxListedAssumption DEF BindingInv, BindingTypeOK
    <3> QED BY <1>2, <2>1, <3>1 DEF BindingInv, BindingTypeOK
  <2>3. held' = {}
    BY <1>1, <1>2, <1>5, StopSteps
       DEF BindingInv, BindingTypeOK, StopHolds, Resources, Events
  <2>4. listed' = 0 /\ pending' = {}
    BY <1>1, <1>2, <1>3, <1>5, <2>3, StopSteps DEF BindingInv, NothingDangles, StopHolds
  <2> QED
    BY <2>1, <2>2, <2>3, <2>4
       DEF BindingInv, NothingDangles, AllOrNothing, StartHolds, ExitHolds, StopHolds
<1> QED BY <1>1, <1>4, <1>5

LEMMA StopIsRefusedStep == BindingInv /\ StopIsRefused => BindingInv'
<1> SUFFICES ASSUME BindingInv, StopIsRefused PROVE BindingInv'
  OBVIOUS
<1>1. step.op = "stop" /\ step.at = 3 /\ UNCHANGED <<held, listed, pending>>
  BY StopSteps DEF StopIsRefused, BindingInv, BindingTypeOK
<1>2. step' = [op |-> "none", at |-> 0, failed |-> "interfaces"]
  BY DEF StopIsRefused, AtRest
<1>3. Whole
  BY <1>1 DEF BindingInv, StopHolds
<1>4. BindingTypeOK'
  BY <1>1, <1>2 DEF BindingInv, BindingTypeOK, Resources
<1>5. AllOrNothing'
  BY <1>1, <1>2, <1>3 DEF AllOrNothing, Whole
<1> QED
  BY <1>1, <1>2, <1>4, <1>5
     DEF BindingInv, NothingDangles, StartHolds, ExitHolds, StopHolds
-----------------------------------------------------------------------------
\* Between two steps of Start, ErrorExit or Stop: notifications come and go on
\* events that exist, and registrations only while the protocols are installed.
LEMMA BetweenStep ==
    ASSUME BindingInv, step.op # "lost", UNCHANGED <<held, step>>,
           pending' \subseteq {"TimerEvent", "KeyNotifyProcessEvent"}, pending' \subseteq held,
           listed' \in 0 .. MaxListed, listed' = listed \/ "interfaces" \in held
    PROVE  BindingInv'
<1>1. BindingTypeOK'
  BY DEF BindingInv, BindingTypeOK
<1>2. "interfaces" \in held => step.op \in {"none", "stop"} /\ held # {}
  BY DEF BindingInv, BindingTypeOK, StartHolds, ExitHolds
<1>3. "interfaces" \in held => "pool" \in held
  BY DEF BindingInv, NothingDangles, Resources
<1>4. NothingDangles'
  BY <1>3 DEF BindingInv, NothingDangles
<1>5. AllOrNothing'
  BY <1>2 DEF BindingInv, AllOrNothing
<1>6. StartHolds' /\ ExitHolds'
  BY <1>2 DEF BindingInv, StartHolds, ExitHolds
<1>7. Nothing => Nothing'
  BY DEF Nothing
<1>8. Whole => Whole'
  BY DEF Whole
<1>9. step.op = "stop" /\ step.at > 3 => listed' = listed
  BY DEF BindingInv, StopHolds
<1>10. StopHolds'
  BY <1>7, <1>8, <1>9, StopSteps DEF BindingInv, BindingTypeOK, StopHolds
<1> QED BY <1>1, <1>4, <1>5, <1>6, <1>10 DEF BindingInv

LEMMA InterruptStep ==
    ASSUME BindingInv,
           \/ TimerTicks \/ KeypadTimerHandler \/ KeyNotifyProcessHandler
           \/ ClientReads \/ ClientRegisters \/ ClientUnregisters
    PROVE  BindingInv'
<1>1. /\ pending \subseteq {"TimerEvent", "KeyNotifyProcessEvent"} /\ pending \subseteq held
      /\ listed \in Nat /\ listed \in 0 .. MaxListed /\ MaxListed \in Nat
  BY MaxListedAssumption DEF BindingInv, BindingTypeOK, NothingDangles
<1>2. CASE TimerTicks
  <2>1. "TimerEvent" \in held
    BY <1>2 DEF TimerTicks, BindingInv, NothingDangles
  <2> QED BY <1>1, <1>2, <2>1, BetweenStep DEF TimerTicks, Running
<1>3. CASE KeypadTimerHandler
  <2>1. listed > 0 => "KeyNotifyProcessEvent" \in held
    BY <1>1, <1>3, SignalledEventExists DEF KeypadTimerHandler, Running
  <2> QED BY <1>1, <1>3, <2>1, BetweenStep DEF KeypadTimerHandler, Running, PollFinds
<1>4. CASE KeyNotifyProcessHandler
  BY <1>1, <1>4, BetweenStep DEF KeyNotifyProcessHandler, Running
<1>5. CASE ClientReads
  <2>1. "KeyNotifyProcessEvent" \in held
    BY <1>5, SignalledEventExists DEF ClientReads, Running
  <2> QED BY <1>1, <1>5, <2>1, BetweenStep DEF ClientReads, Running
<1>6. CASE ClientRegisters
  BY <1>1, <1>6, BetweenStep DEF ClientRegisters, Running
<1>7. CASE ClientUnregisters
  BY <1>1, <1>7, BetweenStep DEF ClientUnregisters, Running
<1> QED BY <1>2, <1>3, <1>4, <1>5, <1>6, <1>7
-----------------------------------------------------------------------------
\* The invariant holds from before the first Start, through every failure of a
\* call, whatever timer, handler or client runs between two calls.
THEOREM BindingInvariance == BindingSpec => []BindingInv
<1>1. BindingInv /\ [Next]_vars => BindingInv'
  <2> SUFFICES ASSUME BindingInv, [Next]_vars PROVE BindingInv'
    OBVIOUS
  <2>1. CASE UNCHANGED vars
    BY <2>1 DEF vars, BindingInv, BindingTypeOK, NothingDangles, AllOrNothing, StartHolds,
                ExitHolds, StopHolds, Whole, Nothing
  <2> QED
    BY <2>1, SupportedStep, StartAcquiresStep, StartIsLeftNamelessStep, StartFailsStep,
       ExitReleasesStep, StopBeginsStep, StopLooksUpStep, StopReleasesStep,
       StopIsRefusedStep, InterruptStep
       DEF Next
<1> QED BY <1>1, BindingInvStart, PTL DEF BindingSpec

\* The bookkeeping of Start, ErrorExit and Stop keeps its type.
THEOREM BindingTypesHold == BindingSpec => []BindingTypeOK
BY BindingInvariance, PTL DEF BindingInv

\* No event, timer, protocol or registration outlives the device or runs before
\* there is one, whichever call of Start fails and wherever Stop is interrupted.
THEOREM NothingIsLeftDangling == BindingSpec => []NothingDangles
BY BindingInvariance, PTL DEF BindingInv

\* Start and Stop are all or nothing, but for the Stop that is refused.
THEOREM StartAndStopAreWhole == BindingSpec => []AllOrNothing
BY BindingInvariance, PTL DEF BindingInv
=============================================================================
