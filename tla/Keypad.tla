------------------------------- MODULE Keypad -------------------------------
(***************************************************************************)
(* The keypad console driver once it is started: two key buffers, the list *)
(* of registered key notifications, and the code that runs on them at      *)
(* three task priority levels.  An application calls the protocols at      *)
(* TPL_APPLICATION; the poll timer and KeyNotifyProcessHandler are event   *)
(* notifications at TPL_CALLBACK, which run to their end one at a time and *)
(* in the order they were signalled; and every access to the buffers is a  *)
(* critical section at TPL_NOTIFY, which nothing here interrupts.  The     *)
(* registered functions run at TPL_CALLBACK inside the handler, outside    *)
(* any critical section, and may call the protocols themselves.            *)
(*                                                                         *)
(* KeypadErr is not modelled: nothing calls KeypadError, so it stays FALSE *)
(* from AllocateZeroPool on.  The rings are the queues of BoundedFifo,     *)
(* which KeyQueue implements.                                              *)
(***************************************************************************)
EXTENDS BoundedFifo, FiniteSets

CONSTANTS Inputs,      \* the key data a device may push
          Registrable, \* the key data a client may register
          Functions,   \* the notification functions of clients
          Nodes,       \* bound: the pool of KEYPAD_CONSOLE_IN_EX_NOTIFY entries
          SelfRemoval, \* whether a function may unregister the entry it is called for
          ListHead,    \* the address of NotifyList itself
          Free         \* what an entry that is not allocated holds

ASSUME SelfRemovalAssumption == SelfRemoval \in BOOLEAN
ASSUME AddressAssumption == ListHead \notin Nodes
ASSUME FreeAssumption == Free \notin [KeyData : Registrable, fn : Functions] \cup Inputs

VARIABLES efiKeyQueue, efiKeyQueueForNotify,
          isSupportPartialKey,
          notifyList,  \* the linked entries of NotifyList, first to last
          node,        \* what is in each entry of the pool
          eventQueue,  \* the signalled TPL_CALLBACK events, first to last
          callback,    \* the TPL_CALLBACK notification that is running
          section,     \* the critical section that is running and polls
          reading,     \* the callers inside the loop of KeypadReadKeyStroke
          handler,     \* KeyNotifyProcessHandler: its step, KeyData and Link
          todo,        \* history: entries the handler's pass has yet to call
          promised     \* history: WaitForKey was signalled, no key taken or lost since

queues == <<efiKeyQueue, efiKeyQueueForNotify, isSupportPartialKey>>
list == <<notifyList, node>>
events == <<eventQueue, callback>>
vars == <<queues, list, events, section, reading, handler, todo, promised>>

Callers == {"app", "fn"}
NoSection == [op |-> "none", by |-> "none"]
Sections == [op : {"read", "readEx", "wait"}, by : Callers]
              \cup {[op |-> "poll", by |-> "timer"]}

\* Key data is a code (ScanCode and UnicodeChar) with shift and toggle state.
\* The code NULL stands for SCAN_NULL with CHAR_NULL, a partial key.
IsPartial(k) == k.code = "NULL"

IsKeyRegistered(registered, input) ==
    /\ registered.code = input.code
    /\ registered.shift \in {0, input.shift}
    /\ registered.toggle \in {0, input.toggle}

Listed == {notifyList[i] : i \in DOMAIN notifyList}
Matching(k) == {n \in Listed : IsKeyRegistered(node[n].KeyData, k)}

Init ==
    /\ efiKeyQueue = <<>> /\ efiKeyQueueForNotify = <<>>
    /\ isSupportPartialKey = FALSE
    /\ notifyList = <<>> /\ node = [n \in Nodes |-> Free]
    /\ eventQueue = <<>> /\ callback = "none"
    /\ section = NoSection
    /\ reading = {}
    /\ handler = [step |-> "idle", KeyData |-> Free, link |-> ListHead]
    /\ todo = {} /\ promised = FALSE
-----------------------------------------------------------------------------
\* The boot services the driver stands on: SignalEvent queues a notification
\* once, and pending notifications run before the application goes on.
SignalEvent(e) ==
    eventQueue' = IF \E i \in DOMAIN eventQueue : eventQueue[i] = e
                    THEN eventQueue ELSE Append(eventQueue, e)

Tick == /\ SignalEvent("timer")
        /\ UNCHANGED <<queues, list, callback, section, reading, handler, todo, promised>>

MayCall(by) ==
    /\ section = NoSection
    /\ \/ by = "app" /\ callback = "none" /\ eventQueue = <<>>
       \/ by = "fn" /\ handler.step = "call"

Dispatch ==
    /\ section = NoSection /\ callback = "none" /\ eventQueue # <<>>
    /\ callback' = Head(eventQueue) /\ eventQueue' = Tail(eventQueue)
    /\ \/ /\ Head(eventQueue) = "timer"
          /\ section' = [op |-> "poll", by |-> "timer"]
          /\ UNCHANGED handler
       \/ /\ Head(eventQueue) = "notify"
          /\ handler' = [handler EXCEPT !.step = "pop"]
          /\ UNCHANGED section
    /\ UNCHANGED <<queues, list, reading, todo, promised>>
-----------------------------------------------------------------------------
\* Critical sections that poll: KeypadTimerHandler calls GetKeys, which pushes
\* any number of keys, and then the section does what its caller came for.
Enter(by, op) ==
    /\ MayCall(by)
    /\ by \in reading => op = "read"
    /\ section' = [op |-> op, by |-> by]
    /\ UNCHANGED <<queues, list, events, reading, handler, todo, promised>>

\* Mutant: keys for notification are queued but the event is not signalled.
PushWithoutSignal(k) ==
    /\ IsPartial(k) => isSupportPartialKey
    /\ efiKeyQueueForNotify' =
          PushedAll(efiKeyQueueForNotify, [i \in 1 .. Cardinality(Matching(k)) |-> k])
    /\ efiKeyQueue' = Pushed(efiKeyQueue, k)
    /\ promised' = (promised /\ Len(efiKeyQueue) < Capacity)
    /\ UNCHANGED <<isSupportPartialKey, list, events, section, reading, handler, todo>>

\* One copy of the key for every registration it matches, and one for the
\* console; a partial key goes nowhere unless they are exposed.
PushToQueues(k) ==
    /\ IsPartial(k) => isSupportPartialKey
    /\ efiKeyQueueForNotify' =
          PushedAll(efiKeyQueueForNotify, [i \in 1 .. Cardinality(Matching(k)) |-> k])
    /\ IF Matching(k) # {} THEN SignalEvent("notify") ELSE UNCHANGED eventQueue
    /\ efiKeyQueue' = Pushed(efiKeyQueue, k)
    /\ promised' = (promised /\ Len(efiKeyQueue) < Capacity)
    /\ UNCHANGED <<isSupportPartialKey, list, callback, section, reading,
                   handler, todo>>

\* A device pushes while it is polled, which is inside a critical section.
KeypadReturnApiPushEfikeyBufTail(k) == section # NoSection /\ PushToQueues(k)

Leave == section' = NoSection

KeypadTimerHandlerReturns ==
    /\ section.op = "poll"
    /\ Leave /\ callback' = "none"
    /\ UNCHANGED <<queues, list, eventQueue, reading, handler, todo, promised>>

\* KeypadReadKeyStrokeWorker pops after it has polled; KeypadReadKeyStroke goes
\* round, through another critical section, after a partial key.
KeypadReadKeyStrokeWorkerReturns ==
    /\ section.op \in {"read", "readEx"}
    /\ \/ efiKeyQueue = <<>> /\ UNCHANGED <<efiKeyQueue, promised>>
       \/ /\ efiKeyQueue # <<>>
          /\ efiKeyQueue' = Tail(efiKeyQueue) /\ promised' = FALSE
    /\ reading' = IF /\ section.op = "read"
                     /\ efiKeyQueue # <<>>
                     /\ IsPartial(Head(efiKeyQueue))
                    THEN reading \cup {section.by} ELSE reading \ {section.by}
    /\ Leave
    /\ UNCHANGED <<efiKeyQueueForNotify, isSupportPartialKey, list, events,
                   handler, todo>>

\* The first key WaitForKey leaves in the buffer, 0 when there is none.
WholeKeys == {i \in DOMAIN efiKeyQueue : ~IsPartial(efiKeyQueue[i])}
FirstWhole == IF WholeKeys = {} THEN 0
              ELSE CHOOSE i \in WholeKeys : \A j \in WholeKeys : i <= j

\* Mutant: any pending key signals, a partial one too.
WaitForKeyKeepsPartial ==
    /\ section.op = "wait"
    /\ promised' = (promised \/ efiKeyQueue # <<>>)
    /\ Leave
    /\ UNCHANGED <<queues, list, events, reading, handler, todo>>

\* KeypadWaitForKey drops the partial keys ahead of a whole one and signals.
KeypadWaitForKeyReturns ==
    /\ section.op = "wait"
    /\ \/ /\ FirstWhole = 0
          /\ efiKeyQueue' = <<>> /\ UNCHANGED promised
       \/ /\ FirstWhole # 0
          /\ efiKeyQueue' = SubSeq(efiKeyQueue, FirstWhole, Len(efiKeyQueue))
          /\ promised' = TRUE
    /\ Leave
    /\ UNCHANGED <<efiKeyQueueForNotify, isSupportPartialKey, list, events,
                   reading, handler, todo>>
-----------------------------------------------------------------------------
\* Critical sections that do not poll are one step.
MayRun(by) == MayCall(by) /\ by \notin reading

\* Mutant: a reset that also forgets the registrations.
ResetFreesNotifyList(by) ==
    /\ MayRun(by)
    /\ efiKeyQueue' = <<>> /\ efiKeyQueueForNotify' = <<>>
    /\ isSupportPartialKey' = FALSE
    /\ notifyList' = <<>> /\ node' = [n \in Nodes |-> Free]
    /\ promised' = FALSE /\ todo' = {}
    /\ UNCHANGED <<events, section, reading, handler>>

KeypadEfiReset(by) ==
    /\ MayRun(by)
    /\ efiKeyQueue' = <<>> /\ efiKeyQueueForNotify' = <<>>
    /\ isSupportPartialKey' = FALSE
    /\ promised' = FALSE
    /\ UNCHANGED <<list, events, section, reading, handler, todo>>

KeypadSetState(by, expose) ==
    /\ MayRun(by)
    /\ isSupportPartialKey' = expose
    /\ UNCHANGED <<efiKeyQueue, efiKeyQueueForNotify, list, events, section,
                   reading, handler, todo, promised>>

\* Mutant: the function does not count.
ExistingForKey(kd, fn) ==
    {i \in DOMAIN notifyList : IsKeyRegistered(node[notifyList[i]].KeyData, kd)}

\* The places in the list of the entries that pass for the one to register.
Existing(kd, fn) ==
    {i \in DOMAIN notifyList : /\ IsKeyRegistered(node[notifyList[i]].KeyData, kd)
                               /\ node[notifyList[i]].fn = fn}

\* A registration that exists already, or for which there is no memory,
\* changes nothing.
KeypadRegisterKeyNotify(by, kd, fn) ==
    /\ MayRun(by)
    /\ Existing(kd, fn) = {}
    /\ \E n \in Nodes :
          /\ node[n] = Free
          /\ node' = [node EXCEPT ![n] = [KeyData |-> kd, fn |-> fn]]
          /\ notifyList' = Append(notifyList, n)
    /\ UNCHANGED <<queues, events, section, reading, handler, todo, promised>>

Place(n) == CHOOSE i \in DOMAIN notifyList : notifyList[i] = n

\* RemoveEntryList and GetNextNode on the entry n, which is linked.
Unlinked(n) == SubSeq(notifyList, 1, Place(n) - 1)
                 \o SubSeq(notifyList, Place(n) + 1, Len(notifyList))
LinkAfter(n) ==
    IF Place(n) < Len(notifyList) THEN notifyList[Place(n) + 1] ELSE ListHead

\* Mutant: the entry is unlinked and never freed.
UnregisterWithoutFree(by, n) ==
    /\ MayRun(by)
    /\ n \in Listed
    /\ by = "fn" /\ n = handler.link => SelfRemoval
    /\ notifyList' = Unlinked(n)
    /\ todo' = todo \ {n}
    /\ UNCHANGED <<queues, node, events, section, reading, handler, promised>>

KeypadUnregisterKeyNotify(by, n) ==
    /\ MayRun(by)
    /\ n \in Listed
    /\ by = "fn" /\ n = handler.link => SelfRemoval
    /\ notifyList' = Unlinked(n)
    /\ node' = [node EXCEPT ![n] = Free]
    /\ todo' = todo \ {n}
    /\ UNCHANGED <<queues, events, section, reading, handler, promised>>
-----------------------------------------------------------------------------
\* KeyNotifyProcessHandler: pop a key, walk the list, call what matches.
FirstLink == IF notifyList = <<>> THEN ListHead ELSE Head(notifyList)

\* The link of a freed entry is whatever its memory now holds.
NextLinks(n) ==
    IF n \in Listed THEN {LinkAfter(n)} ELSE Nodes \cup {ListHead}

HandlerPops ==
    /\ handler.step = "pop" /\ section = NoSection
    /\ \/ /\ efiKeyQueueForNotify = <<>>
          /\ handler' = [handler EXCEPT !.step = "idle"]
          /\ callback' = "none"
          /\ UNCHANGED <<efiKeyQueueForNotify, todo>>
       \/ /\ efiKeyQueueForNotify # <<>>
          /\ handler' = [step |-> "walk", KeyData |-> Head(efiKeyQueueForNotify),
                         link |-> FirstLink]
          /\ efiKeyQueueForNotify' = Tail(efiKeyQueueForNotify)
          /\ todo' = Matching(Head(efiKeyQueueForNotify))
          /\ UNCHANGED callback
    /\ UNCHANGED <<efiKeyQueue, isSupportPartialKey, list, eventQueue, section,
                   reading, promised>>

HandlerMatches == IsKeyRegistered(node[handler.link].KeyData, handler.KeyData)

\* Mutant: the handler returns after one key.
HandlerWalksForOneKey ==
    /\ handler.step = "walk"
    /\ \/ /\ handler.link = ListHead
          /\ handler' = [step |-> "idle", KeyData |-> Free, link |-> ListHead]
          /\ callback' = "none"
          /\ UNCHANGED todo
       \/ /\ handler.link \in Listed /\ HandlerMatches
          /\ handler' = [handler EXCEPT !.step = "call"]
          /\ todo' = todo \ {handler.link}
          /\ UNCHANGED callback
       \/ /\ handler.link \in Listed /\ ~HandlerMatches
          /\ \E l \in NextLinks(handler.link) : handler' = [handler EXCEPT !.link = l]
          /\ UNCHANGED <<callback, todo>>
    /\ UNCHANGED <<queues, list, eventQueue, section, reading, promised>>

HandlerWalks ==
    /\ handler.step = "walk"
    /\ \/ /\ handler.link = ListHead
          /\ handler' = [step |-> "pop", KeyData |-> Free, link |-> ListHead]
          /\ UNCHANGED todo
       \/ /\ handler.link \in Listed /\ HandlerMatches
          /\ handler' = [handler EXCEPT !.step = "call"]
          /\ todo' = todo \ {handler.link}
       \/ /\ handler.link \in Listed /\ ~HandlerMatches
          /\ \E l \in NextLinks(handler.link) : handler' = [handler EXCEPT !.link = l]
          /\ UNCHANGED todo
    /\ UNCHANGED <<queues, list, events, section, reading, promised>>

\* Mutant: the handler leaves the list after the first function it calls.
FnReturnsAndBreaks ==
    /\ MayRun("fn")
    /\ handler' = [handler EXCEPT !.step = "walk", !.link = ListHead]
    /\ UNCHANGED <<queues, list, events, section, reading, todo, promised>>

\* The function returns, and the handler reads the link of the entry it called.
KeyNotificationFnReturns ==
    /\ MayRun("fn")
    /\ \E l \in NextLinks(handler.link) :
          handler' = [handler EXCEPT !.step = "walk", !.link = l]
    /\ UNCHANGED <<queues, list, events, section, reading, todo, promised>>
-----------------------------------------------------------------------------
Next ==
    \/ Tick \/ Dispatch
    \/ \E by \in Callers, op \in {"read", "readEx", "wait"} : Enter(by, op)
    \/ \E k \in Inputs : KeypadReturnApiPushEfikeyBufTail(k)
    \/ KeypadTimerHandlerReturns
    \/ KeypadReadKeyStrokeWorkerReturns
    \/ KeypadWaitForKeyReturns
    \/ \E by \in Callers : KeypadEfiReset(by)
    \/ \E by \in Callers, expose \in BOOLEAN : KeypadSetState(by, expose)
    \/ \E by \in Callers, kd \in Registrable, fn \in Functions :
          KeypadRegisterKeyNotify(by, kd, fn)
    \/ \E by \in Callers, n \in Nodes : KeypadUnregisterKeyNotify(by, n)
    \/ HandlerPops \/ HandlerWalks \/ KeyNotificationFnReturns

Spec == Init /\ [][Next]_vars
-----------------------------------------------------------------------------
TypeOK ==
    /\ efiKeyQueue \in Seq(Inputs) /\ Len(efiKeyQueue) <= Capacity
    /\ efiKeyQueueForNotify \in Seq(Inputs) /\ Len(efiKeyQueueForNotify) <= Capacity
    /\ isSupportPartialKey \in BOOLEAN
    /\ notifyList \in Seq(Nodes)
    /\ node \in [Nodes -> [KeyData : Registrable, fn : Functions] \cup {Free}]
    /\ eventQueue \in Seq({"timer", "notify"})
    /\ callback \in {"none", "timer", "notify"}
    /\ section \in Sections \cup {NoSection}
    /\ reading \subseteq Callers
    /\ handler \in [step : {"idle", "pop", "walk", "call"},
                    KeyData : Inputs \cup {Free}, link : Nodes \cup {ListHead}]
    /\ todo \subseteq Nodes
    /\ promised \in BOOLEAN

\* The list links each allocated entry once, and no freed one
\* (KeypadTextIn.c:534-548,595-608).
ListIsPool ==
    /\ Listed = {n \in Nodes : node[n] # Free}
    /\ \A i, j \in DOMAIN notifyList : notifyList[i] = notifyList[j] => i = j

\* A key that waits for notification has the event signalled or the handler
\* running: whichever way polls, handler passes, resets and the functions'
\* own calls interleave, no key is stranded (Keypad.c:161-176,
\* KeypadTextIn.c:647-669).
NoLostNotify ==
    efiKeyQueueForNotify # <<>> =>
        \/ \E i \in DOMAIN eventQueue : eventQueue[i] = "notify"
        \/ callback = "notify"

\* The handler stands on a live entry or on the list head although it walks
\* the list outside any critical section while functions register and
\* unregister (KeypadTextIn.c:659-668).
CursorIsLive == handler.link \in Listed \cup {ListHead}

\* When the handler has gone through the list, every entry that was
\* registered for the key when the pass began and has stayed registered has
\* been called (KeypadTextIn.c:647-668).
PassIsComplete == handler.step \in {"pop", "idle"} => todo = {}

\* After WaitForKey was signalled there is a whole key to read until one is
\* read, the device is reset or the buffer overflows, even when partial keys
\* are exposed and arrive in between (KeypadTextIn.c:297-317).
SignalledHasKey == promised => WholeKeys # {}

\* A pending notification is taken up or dropped by a reset, never left
\* (KeypadTextIn.c:647-669).
NotifyIsHandled ==
    efiKeyQueueForNotify # <<>> ~> (handler.step = "walk" \/ efiKeyQueueForNotify = <<>>)

\* "Signal KeyNotify process event if this key pressed matches any key
\* registered" (Keypad.c:158-159): one key press is one key to process.
OnePressOneNotification ==
    [][Len(efiKeyQueueForNotify') <= Len(efiKeyQueueForNotify) + 1]_vars
=============================================================================
