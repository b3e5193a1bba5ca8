---------------------------- MODULE KeypadProofs ----------------------------
(***************************************************************************)
(* Proofs about the started keypad driver for every capacity, every set of *)
(* keys, functions and list entries; and about the driver with the handles *)
(* its clients hold, for every number of clients.                          *)
(***************************************************************************)
EXTENDS KeypadClients, SequenceTheorems, FiniteSetTheorems, TLAPS

-----------------------------------------------------------------------------
\* The operators of BoundedFifo on queues over a set.
LEMMA PushedProperties ==
    ASSUME NEW S, NEW q \in Seq(S), Len(q) <= Capacity, NEW k \in S
    PROVE  LET lost == IF Len(q) = Capacity THEN 1 ELSE 0
           IN  /\ Pushed(q, k) \in Seq(S)
               /\ Len(Pushed(q, k)) = Len(q) + 1 - lost
               /\ \A i \in 1 .. Len(q) - lost : Pushed(q, k)[i] = q[i + lost]
               /\ Pushed(q, k)[Len(q) + 1 - lost] = k
<1> USE CapacityAssumption
<1>1. CASE Len(q) = Capacity
    <2>1. q # <<>>
        BY <1>1, EmptySeq
    <2>2. /\ Tail(q) \in Seq(S)
          /\ Len(Tail(q)) = Len(q) - 1
          /\ \A i \in 1 .. Len(Tail(q)) : Tail(q)[i] = q[i + 1]
        BY <2>1, HeadTailProperties
    <2>3. QED
        BY <1>1, <2>2, AppendProperties DEF Pushed
<1>2. CASE Len(q) # Capacity
    BY <1>2, AppendProperties DEF Pushed
<1>3. QED
    BY <1>1, <1>2

LEMMA PushedAllProperties ==
    ASSUME NEW S, NEW q \in Seq(S), Len(q) <= Capacity, NEW ks \in Seq(S)
    PROVE  /\ PushedAll(q, ks) \in Seq(S)
           /\ Len(PushedAll(q, ks)) <= Capacity
           /\ ks = <<>> => Len(PushedAll(q, ks)) = Len(q)
<1> USE CapacityAssumption
<1> DEFINE all == q \o ks
           lost == IF Len(all) > Capacity THEN Len(all) - Capacity ELSE 0
<1>1. all \in Seq(S) /\ Len(all) = Len(q) + Len(ks)
    BY ConcatProperties
<1>2. lost \in Nat /\ Len(all) \in Nat
    BY <1>1
<1>3. \A i \in lost + 1 .. Len(all) : all[i] \in S
    BY <1>1, <1>2, ElementOfSeq
<1>4. /\ SubSeq(all, lost + 1, Len(all)) \in Seq(S)
      /\ Len(SubSeq(all, lost + 1, Len(all))) =
            IF lost + 1 <= Len(all) THEN Len(all) - lost ELSE 0
    <2> HIDE DEF all, lost
    <2>1. lost + 1 \in Int /\ Len(all) \in Int
        BY <1>2
    <2>2. QED
        BY <1>2, <1>3, <2>1, SubSeqProperties
<1>5. ks = <<>> => Len(all) = Len(q)
    BY <1>1
<1>6. QED
    BY <1>1, <1>2, <1>4, <1>5 DEF PushedAll

-----------------------------------------------------------------------------
\* The list of registrations.
LEMMA ListProperties ==
    ASSUME TypeOK
    PROVE  /\ Listed \subseteq Nodes
           /\ DOMAIN notifyList = 1 .. Len(notifyList)
           /\ Len(notifyList) \in Nat
           /\ \A i \in 1 .. Len(notifyList) : notifyList[i] \in Listed
           /\ ListHead \notin Listed
           /\ IsFiniteSet(Listed)
<1>1. /\ DOMAIN notifyList = 1 .. Len(notifyList)
      /\ Len(notifyList) \in Nat
      /\ \A i \in 1 .. Len(notifyList) : notifyList[i] \in Nodes
    BY LenProperties, ElementOfSeq DEF TypeOK
<1>2. /\ Listed \subseteq Nodes
      /\ \A i \in 1 .. Len(notifyList) : notifyList[i] \in Listed
    BY <1>1 DEF Listed
<1>3. notifyList \in Surjection(1 .. Len(notifyList), Listed)
    <2>1. notifyList \in [1 .. Len(notifyList) -> Listed]
        BY <1>1, <1>2, LenProperties DEF TypeOK
    <2>2. QED
        BY <1>1, <2>1 DEF Surjection, Listed
<1>4. IsFiniteSet(Listed)
    <2>1. IsFiniteSet(1 .. Len(notifyList))
        BY <1>1, FS_Interval
    <2>2. QED
        BY <1>3, <2>1, FS_Surjection
<1>5. QED
    BY <1>1, <1>2, <1>4, AddressAssumption

\* As many copies as there are matching registrations, none without one.
LEMMA CopiesProperties ==
    ASSUME TypeOK, NEW k \in Inputs
    PROVE  LET copies == [i \in 1 .. Cardinality(Matching(k)) |-> k]
           IN  /\ copies \in Seq(Inputs)
               /\ Matching(k) = {} => copies = <<>>
<1>1. IsFiniteSet(Matching(k))
    BY ListProperties, FS_Subset DEF Matching
<1>2. Cardinality(Matching(k)) \in Nat
    BY <1>1, FS_CardinalityType
<1>3. Matching(k) = {} => Cardinality(Matching(k)) = 0
    BY FS_EmptySet
<1>4. QED
    BY <1>2, <1>3

LEMMA PlaceProperties ==
    ASSUME TypeOK, NEW n \in Listed
    PROVE  /\ Place(n) \in 1 .. Len(notifyList)
           /\ notifyList[Place(n)] = n
<1>1. \E i \in DOMAIN notifyList : notifyList[i] = n
    BY DEF Listed
<1>2. Place(n) \in DOMAIN notifyList /\ notifyList[Place(n)] = n
    BY <1>1 DEF Place
<1>3. QED
    BY <1>2, ListProperties

\* Unlinking an entry closes the gap it leaves.
LEMMA UnlinkedProperties ==
    ASSUME TypeOK, NEW n \in Listed
    PROVE  /\ Unlinked(n) \in Seq(Nodes)
           /\ Len(Unlinked(n)) = Len(notifyList) - 1
           /\ \A i \in 1 .. Len(notifyList) - 1 :
                 Unlinked(n)[i] = IF i < Place(n) THEN notifyList[i]
                                  ELSE notifyList[i + 1]
<1> DEFINE p == Place(n)
           len == Len(notifyList)
           before == SubSeq(notifyList, 1, p - 1)
           after == SubSeq(notifyList, p + 1, len)
<1>1. p \in 1 .. len /\ len \in Nat /\ \A i \in 1 .. len : notifyList[i] \in Nodes
    BY PlaceProperties, ListProperties
<1> HIDE DEF p, len
<1>2. /\ before \in Seq(Nodes)
      /\ Len(before) = p - 1
      /\ \A i \in 1 .. p - 1 : before[i] = notifyList[i]
    <2>1. 1 \in Int /\ p - 1 \in Int /\ \A i \in 1 .. p - 1 : notifyList[i] \in Nodes
        BY <1>1
    <2>2. QED
        BY <1>1, <2>1, SubSeqProperties
<1>3. /\ after \in Seq(Nodes)
      /\ Len(after) = len - p
      /\ \A i \in 1 .. len - p : after[i] = notifyList[p + i]
    <2>1. p + 1 \in Int /\ len \in Int /\ \A i \in p + 1 .. len : notifyList[i] \in Nodes
        BY <1>1
    <2>2. QED
        BY <1>1, <2>1, SubSeqProperties
<1> HIDE DEF before, after
<1>4. /\ before \o after \in Seq(Nodes)
      /\ Len(before \o after) = len - 1
      /\ \A i \in 1 .. len - 1 :
            (before \o after)[i] = IF i <= p - 1 THEN before[i] ELSE after[i - (p - 1)]
    BY <1>1, <1>2, <1>3, ConcatProperties
<1>5. Unlinked(n) = before \o after
    BY DEF Unlinked, before, after, p, len
<1>6. \A i \in 1 .. len - 1 :
         Unlinked(n)[i] = IF i < p THEN notifyList[i] ELSE notifyList[i + 1]
    <2> SUFFICES ASSUME NEW i \in 1 .. len - 1
                 PROVE  Unlinked(n)[i] = IF i < p THEN notifyList[i]
                                         ELSE notifyList[i + 1]
        OBVIOUS
    <2>1. CASE i < p
        BY <1>1, <1>2, <1>4, <1>5, <2>1
    <2>2. CASE ~ (i < p)
        <3>1. i - (p - 1) \in 1 .. len - p /\ p + (i - (p - 1)) = i + 1
            BY <1>1, <2>2
        <3>2. Unlinked(n)[i] = after[i - (p - 1)]
            BY <1>1, <1>4, <1>5, <2>2
        <3>3. QED
            BY <1>3, <2>2, <3>1, <3>2
    <2>3. QED
        BY <2>1, <2>2
<1>7. Unlinked(n) \in Seq(Nodes) /\ Len(Unlinked(n)) = len - 1
    BY <1>4, <1>5
<1>8. QED
    BY <1>6, <1>7 DEF p, len
-----------------------------------------------------------------------------
\* The handler runs exactly while its notification does, and the poll of the
\* timer only while the timer's does.
Control ==
    /\ callback = "notify" <=> handler.step # "idle"
    /\ section.op = "poll" => callback = "timer"

\* The inductive invariant of the driver as it stands.
IInv == TypeOK /\ Control /\ ListIsPool /\ NoLostNotify /\ SignalledHasKey

\* Between passes the handler's link is the list head, and the function it
\* calls belongs to a listed entry.
CursorPlaced ==
    /\ handler.step \in {"idle", "pop"} => handler.link = ListHead
    /\ handler.step = "call" => handler.link \in Listed
    /\ CursorIsLive

\* What the pass has yet to call is listed, matches, and lies ahead of the link.
TodoAhead ==
    \A n \in todo :
        /\ handler.step \in {"walk", "call"}
        /\ handler.link # ListHead
        /\ n \in Matching(handler.KeyData)
        /\ \A i, j \in DOMAIN notifyList :
              notifyList[i] = handler.link /\ notifyList[j] = n =>
                  IF handler.step = "call" THEN i < j ELSE i <= j

\* The inductive invariant when no function unregisters its own entry.
WInv == IInv /\ CursorPlaced /\ TodoAhead
-----------------------------------------------------------------------------
LEMMA SignalEventProperties ==
    ASSUME TypeOK, NEW e \in {"timer", "notify"}, SignalEvent(e)
    PROVE  /\ eventQueue' \in Seq({"timer", "notify"})
           /\ \E i \in DOMAIN eventQueue' : eventQueue'[i] = e
           /\ \A i \in DOMAIN eventQueue :
                 i \in DOMAIN eventQueue' /\ eventQueue'[i] = eventQueue[i]
<1>1. CASE \E i \in DOMAIN eventQueue : eventQueue[i] = e
    BY <1>1 DEF TypeOK, SignalEvent
<1>2. CASE ~ \E i \in DOMAIN eventQueue : eventQueue[i] = e
    <2>1. eventQueue' = Append(eventQueue, e)
        BY <1>2 DEF SignalEvent
    <2>2. eventQueue \in Seq({"timer", "notify"}) /\ Len(eventQueue) \in Nat
        BY LenProperties DEF TypeOK
    <2>3. /\ eventQueue' \in Seq({"timer", "notify"})
          /\ Len(eventQueue') = Len(eventQueue) + 1
          /\ \A i \in 1 .. Len(eventQueue) : eventQueue'[i] = eventQueue[i]
          /\ eventQueue'[Len(eventQueue) + 1] = e
        BY <2>1, <2>2, AppendProperties
    <2>4. /\ DOMAIN eventQueue = 1 .. Len(eventQueue)
          /\ DOMAIN eventQueue' = 1 .. Len(eventQueue) + 1
        BY <2>2, <2>3, LenProperties
    <2>5. QED
        BY <2>2, <2>3, <2>4
<1>3. QED
    BY <1>1, <1>2

LEMMA FirstWholeProperties ==
    ASSUME TypeOK
    PROVE  IF WholeKeys = {} THEN FirstWhole = 0
           ELSE FirstWhole \in WholeKeys /\ FirstWhole \in 1 .. Len(efiKeyQueue)
<1>1. WholeKeys \subseteq 1 .. Len(efiKeyQueue) /\ Len(efiKeyQueue) \in Nat
    BY LenProperties DEF TypeOK, WholeKeys
<1>2. CASE WholeKeys # {}
    <2>1. WholeKeys \subseteq Nat
        BY <1>1
    <2>2. \E i \in WholeKeys : \A j \in WholeKeys : <<j, i>> \notin OpToRel(<, Nat)
        BY <1>2, <2>1, WFMin, NatLessThanWellFounded
    <2>3. PICK i \in WholeKeys : \A j \in WholeKeys : <<j, i>> \notin OpToRel(<, Nat)
        BY <2>2
    <2>4. \A j \in WholeKeys : ~ (j < i)
        BY <2>1, <2>3 DEF OpToRel
    <2>5. \A j \in WholeKeys : i <= j
        BY <2>1, <2>4
    <2>6. FirstWhole \in WholeKeys
        BY <1>2, <2>5 DEF FirstWhole
    <2>7. QED
        BY <1>1, <1>2, <2>6
<1>3. QED
    BY <1>2 DEF FirstWhole

LEMMA NextLinksType ==
    ASSUME TypeOK, NEW n
    PROVE  NextLinks(n) \subseteq Nodes \cup {ListHead}
<1>1. CASE n \in Listed
    <2>1. Place(n) \in 1 .. Len(notifyList) /\ Len(notifyList) \in Nat
        BY <1>1, PlaceProperties, ListProperties
    <2>2. LinkAfter(n) \in Nodes \cup {ListHead}
        BY <2>1, ListProperties DEF LinkAfter
    <2>3. QED
        BY <1>1, <2>2 DEF NextLinks
<1>2. CASE n \notin Listed
    BY <1>2 DEF NextLinks
<1>3. QED
    BY <1>1, <1>2

LEMMA FirstLinkProperties ==
    ASSUME TypeOK
    PROVE  /\ FirstLink \in Listed \cup {ListHead}
           /\ FirstLink \in Nodes \cup {ListHead}
           /\ notifyList # <<>> =>
                 1 \in DOMAIN notifyList /\ FirstLink = notifyList[1]
<1>1. CASE notifyList = <<>>
    BY <1>1 DEF FirstLink
<1>2. CASE notifyList # <<>>
    <2>1. Len(notifyList) \in Nat \ {0} /\ DOMAIN notifyList = 1 .. Len(notifyList)
        BY <1>2, EmptySeq, LenProperties DEF TypeOK
    <2>2. FirstLink = notifyList[1]
        BY <1>2 DEF FirstLink, TypeOK
    <2>3. QED
        BY <1>2, <2>1, <2>2, ListProperties
<1>3. QED
    BY <1>1, <1>2
-----------------------------------------------------------------------------
LEMMA InitIInv == Init => IInv
<1> SUFFICES ASSUME Init
             PROVE  IInv
    OBVIOUS
<1> USE CapacityAssumption DEF Init
<1>1. TypeOK
    <2>1. <<>> \in Seq(Inputs) /\ <<>> \in Seq(Nodes) /\ <<>> \in Seq({"timer", "notify"})
        BY EmptySeq
    <2>2. Len(<<>>) = 0
        BY EmptySeq
    <2>3. node \in [Nodes -> [KeyData : Registrable, fn : Functions] \cup {Free}]
        OBVIOUS
    <2>4. handler \in [step : {"idle", "pop", "walk", "call"},
                       KeyData : Inputs \cup {Free}, link : Nodes \cup {ListHead}]
        OBVIOUS
    <2>5. section \in Sections \cup {NoSection} /\ todo \subseteq Nodes
        OBVIOUS
    <2>6. /\ efiKeyQueue \in Seq(Inputs) /\ Len(efiKeyQueue) <= Capacity
          /\ efiKeyQueueForNotify \in Seq(Inputs)
          /\ Len(efiKeyQueueForNotify) <= Capacity
          /\ notifyList \in Seq(Nodes)
          /\ eventQueue \in Seq({"timer", "notify"})
        BY <2>1, <2>2
    <2>7. QED
        BY <2>3, <2>4, <2>5, <2>6 DEF TypeOK
<1>2. Control
    BY DEF Control, NoSection
<1>3. ListIsPool
    BY DEF ListIsPool, Listed
<1>4. NoLostNotify /\ SignalledHasKey
    BY DEF NoLostNotify, SignalledHasKey
<1>5. QED
    BY <1>1, <1>2, <1>3, <1>4 DEF IInv

LEMMA StepTypeOK == TypeOK /\ [Next]_vars => TypeOK'
<1> SUFFICES ASSUME TypeOK, [Next]_vars
             PROVE  TypeOK'
    OBVIOUS
<1> USE CapacityAssumption DEF events, list, queues
<1>1. CASE Tick
    BY <1>1, SignalEventProperties DEF Tick, TypeOK
<1>2. CASE Dispatch
    <2>1. /\ Head(eventQueue) \in {"timer", "notify"}
          /\ Tail(eventQueue) \in Seq({"timer", "notify"})
        BY <1>2, HeadTailProperties DEF Dispatch, TypeOK
    <2>2. /\ section' \in Sections \cup {NoSection}
          /\ callback' \in {"none", "timer", "notify"}
        BY <1>2, <2>1 DEF Dispatch, TypeOK, Sections
    <2>3. handler' \in [step : {"idle", "pop", "walk", "call"},
                        KeyData : Inputs \cup {Free}, link : Nodes \cup {ListHead}]
        BY <1>2 DEF Dispatch, TypeOK
    <2>4. QED
        BY <1>2, <2>1, <2>2, <2>3 DEF Dispatch, TypeOK
<1>3. ASSUME NEW by \in Callers, NEW op \in {"read", "readEx", "wait"}, Enter(by, op)
      PROVE  TypeOK'
    BY <1>3 DEF Enter, TypeOK, Sections
<1>4. ASSUME NEW k \in Inputs, KeypadReturnApiPushEfikeyBufTail(k)
      PROVE  TypeOK'
    <2>1. /\ efiKeyQueueForNotify' \in Seq(Inputs)
          /\ Len(efiKeyQueueForNotify') <= Capacity
        BY <1>4, CopiesProperties, PushedAllProperties
           DEF KeypadReturnApiPushEfikeyBufTail, PushToQueues, TypeOK
    <2>2. efiKeyQueue' \in Seq(Inputs) /\ Len(efiKeyQueue') <= Capacity
        <3>1. Len(efiKeyQueue) \in Nat
            BY LenProperties DEF TypeOK
        <3>2. QED
            BY <1>4, <3>1, PushedProperties
               DEF KeypadReturnApiPushEfikeyBufTail, PushToQueues, TypeOK
    <2>3. eventQueue' \in Seq({"timer", "notify"})
        BY <1>4, SignalEventProperties DEF KeypadReturnApiPushEfikeyBufTail, PushToQueues, TypeOK
    <2>4. QED
        BY <1>4, <2>1, <2>2, <2>3 DEF KeypadReturnApiPushEfikeyBufTail, PushToQueues, TypeOK
<1>5. CASE KeypadTimerHandlerReturns
    BY <1>5 DEF KeypadTimerHandlerReturns, Leave, TypeOK
<1>6. CASE KeypadReadKeyStrokeWorkerReturns
    <2>1. efiKeyQueue' \in Seq(Inputs) /\ Len(efiKeyQueue') <= Capacity
        <3>1. CASE efiKeyQueue = <<>>
            BY <1>6, <3>1 DEF KeypadReadKeyStrokeWorkerReturns, TypeOK
        <3>2. CASE efiKeyQueue # <<>>
            <4>1. /\ Tail(efiKeyQueue) \in Seq(Inputs)
                  /\ Len(Tail(efiKeyQueue)) = Len(efiKeyQueue) - 1
                  /\ Len(efiKeyQueue) \in Nat
                BY <3>2, HeadTailProperties, LenProperties DEF TypeOK
            <4>2. efiKeyQueue' = Tail(efiKeyQueue)
                BY <1>6, <3>2 DEF KeypadReadKeyStrokeWorkerReturns
            <4>3. QED
                BY <4>1, <4>2, CapacityAssumption DEF TypeOK
        <3>3. QED
            BY <3>1, <3>2
    <2>2. reading' \subseteq Callers
        <3>1. section.by \in Callers
            BY <1>6 DEF KeypadReadKeyStrokeWorkerReturns, TypeOK, Sections, NoSection
        <3>2. QED
            BY <1>6, <3>1 DEF KeypadReadKeyStrokeWorkerReturns, TypeOK
    <2>3. QED
        BY <1>6, <2>1, <2>2 DEF KeypadReadKeyStrokeWorkerReturns, Leave, TypeOK
<1>7. CASE KeypadWaitForKeyReturns
    <2>1. CASE FirstWhole = 0
        BY <1>7, <2>1, EmptySeq DEF KeypadWaitForKeyReturns, Leave, TypeOK
    <2>2. CASE FirstWhole # 0
        <3>1. FirstWhole \in 1 .. Len(efiKeyQueue) /\ Len(efiKeyQueue) \in Nat
            BY <2>2, FirstWholeProperties, LenProperties DEF TypeOK
        <3>2. \A i \in FirstWhole .. Len(efiKeyQueue) : efiKeyQueue[i] \in Inputs
            BY <3>1, ElementOfSeq DEF TypeOK
        <3>3. /\ SubSeq(efiKeyQueue, FirstWhole, Len(efiKeyQueue)) \in Seq(Inputs)
              /\ Len(SubSeq(efiKeyQueue, FirstWhole, Len(efiKeyQueue)))
                    = Len(efiKeyQueue) - FirstWhole + 1
            BY <3>1, <3>2, SubSeqProperties
        <3>4. efiKeyQueue' \in Seq(Inputs) /\ Len(efiKeyQueue') <= Capacity
            <4>1. efiKeyQueue' = SubSeq(efiKeyQueue, FirstWhole, Len(efiKeyQueue))
                BY <1>7, <2>2 DEF KeypadWaitForKeyReturns
            <4>2. QED
                BY <3>1, <3>3, <4>1 DEF TypeOK
        <3>5. QED
            BY <1>7, <2>2, <3>4 DEF KeypadWaitForKeyReturns, Leave, TypeOK
    <2>3. QED
        BY <2>1, <2>2
<1>8. ASSUME NEW by \in Callers, KeypadEfiReset(by)
      PROVE  TypeOK'
    <2>1. <<>> \in Seq(Inputs) /\ Len(<<>>) <= Capacity
        BY EmptySeq
    <2>2. QED
        BY <1>8, <2>1 DEF KeypadEfiReset, TypeOK
<1>9. ASSUME NEW by \in Callers, NEW expose \in BOOLEAN, KeypadSetState(by, expose)
      PROVE  TypeOK'
    BY <1>9 DEF KeypadSetState, TypeOK
<1>10. ASSUME NEW by \in Callers, NEW kd \in Registrable, NEW fn \in Functions,
              KeypadRegisterKeyNotify(by, kd, fn)
       PROVE  TypeOK'
    BY <1>10, AppendProperties DEF KeypadRegisterKeyNotify, TypeOK
<1>11. ASSUME NEW by \in Callers, NEW n \in Nodes, KeypadUnregisterKeyNotify(by, n)
       PROVE  TypeOK'
    <2>1. notifyList' \in Seq(Nodes)
        BY <1>11, UnlinkedProperties DEF KeypadUnregisterKeyNotify
    <2>2. QED
        BY <1>11, <2>1 DEF KeypadUnregisterKeyNotify, TypeOK
<1>12. CASE HandlerPops
    <2>1. CASE efiKeyQueueForNotify = <<>>
        BY <1>12, <2>1 DEF HandlerPops, TypeOK
    <2>2. CASE efiKeyQueueForNotify # <<>>
        <3>1. /\ Head(efiKeyQueueForNotify) \in Inputs
              /\ Tail(efiKeyQueueForNotify) \in Seq(Inputs)
              /\ Len(Tail(efiKeyQueueForNotify)) <= Capacity
            BY <2>2, HeadTailProperties, LenProperties DEF TypeOK
        <3>2. Matching(Head(efiKeyQueueForNotify)) \subseteq Nodes
            BY ListProperties DEF Matching
        <3>3. handler' \in [step : {"idle", "pop", "walk", "call"},
                            KeyData : Inputs \cup {Free}, link : Nodes \cup {ListHead}]
            BY <1>12, <2>2, <3>1, FirstLinkProperties DEF HandlerPops
        <3>4. todo' \subseteq Nodes
            BY <1>12, <2>2, <3>2 DEF HandlerPops
        <3>5. QED
            BY <1>12, <2>2, <3>1, <3>3, <3>4 DEF HandlerPops, TypeOK
    <2>3. QED
        BY <2>1, <2>2
<1>13. CASE HandlerWalks
    BY <1>13, NextLinksType DEF HandlerWalks, TypeOK
<1>14. CASE KeyNotificationFnReturns
    <2>1. PICK l \in NextLinks(handler.link) :
                  handler' = [handler EXCEPT !.step = "walk", !.link = l]
        BY <1>14 DEF KeyNotificationFnReturns
    <2>2. l \in Nodes \cup {ListHead}
        BY NextLinksType
    <2>3. handler' \in [step : {"idle", "pop", "walk", "call"},
                        KeyData : Inputs \cup {Free}, link : Nodes \cup {ListHead}]
        BY <2>1, <2>2 DEF TypeOK
    <2>4. QED
        BY <1>14, <2>3 DEF KeyNotificationFnReturns, TypeOK
<1>15. CASE UNCHANGED vars
    BY <1>15 DEF vars, TypeOK
<1>16. QED
    BY <1>1, <1>2, <1>3, <1>4, <1>5, <1>6, <1>7, <1>8, <1>9, <1>10, <1>11,
       <1>12, <1>13, <1>14, <1>15 DEF Next
-----------------------------------------------------------------------------
LEMMA StepControl == TypeOK /\ Control /\ [Next]_vars => Control'
<1> SUFFICES ASSUME TypeOK, Control, [Next]_vars
             PROVE  Control'
    OBVIOUS
<1> USE DEF Control, events, list, queues
<1>1. CASE Tick
    BY <1>1 DEF Tick
<1>2. CASE Dispatch
    BY <1>2 DEF Dispatch, TypeOK, NoSection
<1>3. ASSUME NEW by \in Callers, NEW op \in {"read", "readEx", "wait"}, Enter(by, op)
      PROVE  Control'
    BY <1>3 DEF Enter
<1>4. ASSUME NEW k \in Inputs, KeypadReturnApiPushEfikeyBufTail(k)
      PROVE  Control'
    BY <1>4 DEF KeypadReturnApiPushEfikeyBufTail, PushToQueues
<1>5. CASE KeypadTimerHandlerReturns
    BY <1>5 DEF KeypadTimerHandlerReturns, Leave, NoSection
<1>6. CASE KeypadReadKeyStrokeWorkerReturns
    BY <1>6 DEF KeypadReadKeyStrokeWorkerReturns, Leave, NoSection
<1>7. CASE KeypadWaitForKeyReturns
    BY <1>7 DEF KeypadWaitForKeyReturns, Leave, NoSection
<1>8. ASSUME NEW by \in Callers, KeypadEfiReset(by)
      PROVE  Control'
    BY <1>8 DEF KeypadEfiReset
<1>9. ASSUME NEW by \in Callers, NEW expose \in BOOLEAN, KeypadSetState(by, expose)
      PROVE  Control'
    BY <1>9 DEF KeypadSetState
<1>10. ASSUME NEW by \in Callers, NEW kd \in Registrable, NEW fn \in Functions,
              KeypadRegisterKeyNotify(by, kd, fn)
       PROVE  Control'
    BY <1>10 DEF KeypadRegisterKeyNotify
<1>11. ASSUME NEW by \in Callers, NEW n \in Nodes, KeypadUnregisterKeyNotify(by, n)
       PROVE  Control'
    BY <1>11 DEF KeypadUnregisterKeyNotify
<1>12. CASE HandlerPops
    BY <1>12 DEF HandlerPops, TypeOK, NoSection
<1>13. CASE HandlerWalks
    BY <1>13 DEF HandlerWalks, TypeOK
<1>14. CASE KeyNotificationFnReturns
    BY <1>14 DEF KeyNotificationFnReturns, MayRun, MayCall, TypeOK
<1>15. CASE UNCHANGED vars
    BY <1>15 DEF vars
<1>16. QED
    BY <1>1, <1>2, <1>3, <1>4, <1>5, <1>6, <1>7, <1>8, <1>9, <1>10, <1>11,
       <1>12, <1>13, <1>14, <1>15 DEF Next

\* Only registering and unregistering touch the list.
LEMMA ListUnchanged ==
    ASSUME [Next]_vars
    PROVE  \/ UNCHANGED list
           \/ \E by \in Callers, kd \in Registrable, fn \in Functions :
                 KeypadRegisterKeyNotify(by, kd, fn)
           \/ \E by \in Callers, n \in Nodes : KeypadUnregisterKeyNotify(by, n)
BY DEF Next, vars, list, events, queues, Tick, Dispatch, Enter,
       KeypadReturnApiPushEfikeyBufTail, PushToQueues, KeypadTimerHandlerReturns,
       KeypadReadKeyStrokeWorkerReturns, KeypadWaitForKeyReturns, KeypadEfiReset,
       KeypadSetState, HandlerPops, HandlerWalks, KeyNotificationFnReturns

\* A new entry is linked last.
LEMMA RegisterExtends ==
    ASSUME TypeOK, ListIsPool, NEW by \in Callers,
           NEW kd \in Registrable, NEW fn \in Functions,
           KeypadRegisterKeyNotify(by, kd, fn)
    PROVE  \E n \in Nodes \ Listed :
              /\ node' = [node EXCEPT ![n] = [KeyData |-> kd, fn |-> fn]]
              /\ Len(notifyList') = Len(notifyList) + 1
              /\ DOMAIN notifyList' = 1 .. Len(notifyList) + 1
              /\ \A i \in 1 .. Len(notifyList) : notifyList'[i] = notifyList[i]
              /\ notifyList'[Len(notifyList) + 1] = n
              /\ Listed' = Listed \cup {n}
<1>1. PICK n \in Nodes : /\ node[n] = Free
                         /\ node' = [node EXCEPT ![n] = [KeyData |-> kd, fn |-> fn]]
                         /\ notifyList' = Append(notifyList, n)
    BY DEF KeypadRegisterKeyNotify
<1>2. n \notin Listed
    BY <1>1 DEF ListIsPool
<1>3. /\ Len(notifyList) \in Nat
      /\ DOMAIN notifyList = 1 .. Len(notifyList)
    BY ListProperties
<1>4. /\ notifyList' \in Seq(Nodes)
      /\ Len(notifyList') = Len(notifyList) + 1
      /\ \A i \in 1 .. Len(notifyList) : notifyList'[i] = notifyList[i]
      /\ notifyList'[Len(notifyList) + 1] = n
    BY <1>1, AppendProperties DEF TypeOK
<1>5. DOMAIN notifyList' = 1 .. Len(notifyList) + 1
    BY <1>4, LenProperties
<1>6. Listed' = Listed \cup {n}
    BY <1>3, <1>4, <1>5 DEF Listed
<1>7. QED
    BY <1>1, <1>2, <1>4, <1>5, <1>6

\* An entry is unlinked, and those that stay keep their order.
LEMMA UnregisterShrinks ==
    ASSUME TypeOK, ListIsPool, NEW by \in Callers, NEW n \in Nodes,
           KeypadUnregisterKeyNotify(by, n)
    PROVE  /\ n \in Listed
           /\ DOMAIN notifyList' = 1 .. Len(notifyList) - 1
           /\ \A i \in 1 .. Len(notifyList) - 1 :
                 notifyList'[i] = IF i < Place(n) THEN notifyList[i]
                                  ELSE notifyList[i + 1]
           /\ Listed' = Listed \ {n}
<1>1. n \in Listed /\ notifyList' = Unlinked(n)
    BY DEF KeypadUnregisterKeyNotify
<1>2. /\ Place(n) \in 1 .. Len(notifyList) /\ notifyList[Place(n)] = n
      /\ Len(notifyList) \in Nat
      /\ DOMAIN notifyList = 1 .. Len(notifyList)
    BY <1>1, PlaceProperties, ListProperties
<1>3. /\ DOMAIN notifyList' = 1 .. Len(notifyList) - 1
      /\ \A i \in 1 .. Len(notifyList) - 1 :
            notifyList'[i] = IF i < Place(n) THEN notifyList[i] ELSE notifyList[i + 1]
    BY <1>1, UnlinkedProperties, LenProperties
<1>4. Listed' \subseteq Listed \ {n}
    <2> SUFFICES ASSUME NEW i \in 1 .. Len(notifyList) - 1
                 PROVE  notifyList'[i] \in Listed \ {n}
        BY <1>3 DEF Listed
    <2>1. CASE i < Place(n)
        <3>1. i \in 1 .. Len(notifyList) /\ i # Place(n) /\ notifyList'[i] = notifyList[i]
            BY <1>2, <1>3, <2>1
        <3>2. QED
            BY <1>2, <3>1 DEF ListIsPool, Listed
    <2>2. CASE ~ (i < Place(n))
        <3>1. /\ i + 1 \in 1 .. Len(notifyList) /\ i + 1 # Place(n)
              /\ notifyList'[i] = notifyList[i + 1]
            BY <1>2, <1>3, <2>2
        <3>2. QED
            BY <1>2, <3>1 DEF ListIsPool, Listed
    <2>3. QED
        BY <2>1, <2>2
<1>5. Listed \ {n} \subseteq Listed'
    <2> SUFFICES ASSUME NEW i \in 1 .. Len(notifyList), notifyList[i] # n
                 PROVE  notifyList[i] \in Listed'
        BY <1>2 DEF Listed
    <2>1. i # Place(n)
        BY <1>2
    <2>2. CASE i < Place(n)
        <3>1. i \in 1 .. Len(notifyList) - 1 /\ notifyList'[i] = notifyList[i]
            BY <1>2, <1>3, <2>2
        <3>2. QED
            BY <1>3, <3>1 DEF Listed
    <2>3. CASE i > Place(n)
        <3>1. i - 1 \in 1 .. Len(notifyList) - 1 /\ notifyList'[i - 1] = notifyList[i]
            BY <1>2, <1>3, <2>3
        <3>2. QED
            BY <1>3, <3>1 DEF Listed
    <2>4. QED
        BY <1>2, <2>1, <2>2, <2>3
<1>6. QED
    BY <1>1, <1>3, <1>4, <1>5
LEMMA StepListIsPool == TypeOK /\ ListIsPool /\ [Next]_vars => ListIsPool'
<1> SUFFICES ASSUME TypeOK, ListIsPool, [Next]_vars
             PROVE  ListIsPool'
    OBVIOUS
<1>1. CASE UNCHANGED list
    BY <1>1 DEF list, ListIsPool, Listed
<1>2. ASSUME NEW by \in Callers, NEW kd \in Registrable, NEW fn \in Functions,
             KeypadRegisterKeyNotify(by, kd, fn)
      PROVE  ListIsPool'
    <2>1. PICK n \in Nodes \ Listed :
             /\ node' = [node EXCEPT ![n] = [KeyData |-> kd, fn |-> fn]]
             /\ DOMAIN notifyList' = 1 .. Len(notifyList) + 1
             /\ \A i \in 1 .. Len(notifyList) : notifyList'[i] = notifyList[i]
             /\ notifyList'[Len(notifyList) + 1] = n
             /\ Listed' = Listed \cup {n}
        BY <1>2, RegisterExtends
    <2>2. node'[n] # Free /\ \A m \in Nodes \ {n} : node'[m] = node[m]
        BY <2>1, FreeAssumption DEF TypeOK
    <2>3. Listed' = {m \in Nodes : node'[m] # Free}
        BY <2>1, <2>2 DEF ListIsPool
    <2>4. \A i, j \in DOMAIN notifyList' : notifyList'[i] = notifyList'[j] => i = j
        BY <2>1, ListProperties DEF ListIsPool
    <2>5. QED
        BY <2>3, <2>4 DEF ListIsPool
<1>3. ASSUME NEW by \in Callers, NEW n \in Nodes, KeypadUnregisterKeyNotify(by, n)
      PROVE  ListIsPool'
    <2>1. /\ DOMAIN notifyList' = 1 .. Len(notifyList) - 1
          /\ \A i \in 1 .. Len(notifyList) - 1 :
                notifyList'[i] = IF i < Place(n) THEN notifyList[i]
                                 ELSE notifyList[i + 1]
          /\ Listed' = Listed \ {n}
        BY <1>3, UnregisterShrinks
    <2>2. node'[n] = Free /\ \A m \in Nodes \ {n} : node'[m] = node[m]
        BY <1>3 DEF KeypadUnregisterKeyNotify, TypeOK
    <2>3. Listed' = {m \in Nodes : node'[m] # Free}
        BY <2>1, <2>2 DEF ListIsPool
    <2>4. Place(n) \in 1 .. Len(notifyList) /\ Len(notifyList) \in Nat
          /\ DOMAIN notifyList = 1 .. Len(notifyList)
        BY <1>3, UnregisterShrinks, PlaceProperties, ListProperties
    <2>5. ASSUME NEW i \in DOMAIN notifyList', NEW j \in DOMAIN notifyList',
                 notifyList'[i] = notifyList'[j]
          PROVE  i = j
        <3> DEFINE old(l) == IF l < Place(n) THEN l ELSE l + 1
        <3>1. /\ old(i) \in DOMAIN notifyList /\ notifyList'[i] = notifyList[old(i)]
              /\ old(j) \in DOMAIN notifyList /\ notifyList'[j] = notifyList[old(j)]
            BY <2>1, <2>4
        <3>2. old(i) = old(j)
            BY <2>5, <3>1 DEF ListIsPool
        <3>3. QED
            BY <2>1, <2>4, <3>2
    <2>6. QED
        BY <2>3, <2>5 DEF ListIsPool
<1>4. QED
    BY <1>1, <1>2, <1>3, ListUnchanged

LEMMA StepNoLostNotify ==
    TypeOK /\ Control /\ NoLostNotify /\ [Next]_vars => NoLostNotify'
<1> SUFFICES ASSUME TypeOK, Control, NoLostNotify, [Next]_vars
             PROVE  NoLostNotify'
    OBVIOUS
<1> USE DEF NoLostNotify, events, list, queues
<1>1. CASE Tick
    <2>1. \A i \in DOMAIN eventQueue :
             i \in DOMAIN eventQueue' /\ eventQueue'[i] = eventQueue[i]
        BY <1>1, SignalEventProperties DEF Tick
    <2>2. QED
        BY <1>1, <2>1 DEF Tick
<1>2. CASE Dispatch
    <2>1. /\ eventQueue # <<>> /\ eventQueue \in Seq({"timer", "notify"})
          /\ callback = "none" /\ efiKeyQueueForNotify' = efiKeyQueueForNotify
          /\ callback' = Head(eventQueue) /\ eventQueue' = Tail(eventQueue)
        BY <1>2 DEF Dispatch, TypeOK
    <2>2. /\ DOMAIN eventQueue = 1 .. Len(eventQueue) /\ Len(eventQueue) \in Nat
          /\ DOMAIN eventQueue' = 1 .. Len(eventQueue) - 1
          /\ \A i \in 1 .. Len(eventQueue) - 1 : eventQueue'[i] = eventQueue[i + 1]
          /\ callback' = eventQueue[1]
        BY <2>1, HeadTailProperties, LenProperties
    <2> SUFFICES ASSUME NEW i \in DOMAIN eventQueue, eventQueue[i] = "notify",
                        callback' # "notify"
                 PROVE  \E j \in DOMAIN eventQueue' : eventQueue'[j] = "notify"
        BY <2>1
    <2>3. i - 1 \in 1 .. Len(eventQueue) - 1 /\ (i - 1) + 1 = i
        BY <2>2
    <2>4. QED
        BY <2>2, <2>3
<1>3. ASSUME NEW by \in Callers, NEW op \in {"read", "readEx", "wait"}, Enter(by, op)
      PROVE  NoLostNotify'
    BY <1>3 DEF Enter
<1>4. ASSUME NEW k \in Inputs, KeypadReturnApiPushEfikeyBufTail(k)
      PROVE  NoLostNotify'
    <2>1. CASE Matching(k) # {}
        BY <1>4, <2>1, SignalEventProperties DEF KeypadReturnApiPushEfikeyBufTail, PushToQueues
    <2>2. CASE Matching(k) = {}
        <3>1. /\ efiKeyQueueForNotify' \in Seq(Inputs)
              /\ Len(efiKeyQueueForNotify') = Len(efiKeyQueueForNotify)
            BY <1>4, <2>2, CopiesProperties, PushedAllProperties
               DEF KeypadReturnApiPushEfikeyBufTail, PushToQueues, TypeOK
        <3>2. efiKeyQueueForNotify' # <<>> => efiKeyQueueForNotify # <<>>
            BY <3>1, EmptySeq
        <3>3. QED
            BY <1>4, <2>2, <3>2 DEF KeypadReturnApiPushEfikeyBufTail, PushToQueues
    <2>3. QED
        BY <2>1, <2>2
<1>5. CASE KeypadTimerHandlerReturns
    BY <1>5 DEF KeypadTimerHandlerReturns, Control
<1>6. CASE KeypadReadKeyStrokeWorkerReturns
    BY <1>6 DEF KeypadReadKeyStrokeWorkerReturns
<1>7. CASE KeypadWaitForKeyReturns
    BY <1>7 DEF KeypadWaitForKeyReturns
<1>8. ASSUME NEW by \in Callers, KeypadEfiReset(by)
      PROVE  NoLostNotify'
    BY <1>8 DEF KeypadEfiReset
<1>9. ASSUME NEW by \in Callers, NEW expose \in BOOLEAN, KeypadSetState(by, expose)
      PROVE  NoLostNotify'
    BY <1>9 DEF KeypadSetState
<1>10. ASSUME NEW by \in Callers, NEW kd \in Registrable, NEW fn \in Functions,
              KeypadRegisterKeyNotify(by, kd, fn)
       PROVE  NoLostNotify'
    BY <1>10 DEF KeypadRegisterKeyNotify
<1>11. ASSUME NEW by \in Callers, NEW n \in Nodes, KeypadUnregisterKeyNotify(by, n)
       PROVE  NoLostNotify'
    BY <1>11 DEF KeypadUnregisterKeyNotify
<1>12. CASE HandlerPops
    BY <1>12 DEF HandlerPops, Control
<1>13. CASE HandlerWalks
    BY <1>13 DEF HandlerWalks
<1>14. CASE KeyNotificationFnReturns
    BY <1>14 DEF KeyNotificationFnReturns
<1>15. CASE UNCHANGED vars
    BY <1>15 DEF vars
<1>16. QED
    BY <1>1, <1>2, <1>3, <1>4, <1>5, <1>6, <1>7, <1>8, <1>9, <1>10, <1>11,
       <1>12, <1>13, <1>14, <1>15 DEF Next

\* Only four actions touch the console's buffer or the promise.
LEMMA KeysUnchanged ==
    ASSUME [Next]_vars
    PROVE  \/ UNCHANGED <<efiKeyQueue, promised>>
           \/ \E k \in Inputs : KeypadReturnApiPushEfikeyBufTail(k)
           \/ KeypadReadKeyStrokeWorkerReturns
           \/ KeypadWaitForKeyReturns
           \/ \E by \in Callers : KeypadEfiReset(by)
BY DEF Next, vars, list, events, queues, Tick, Dispatch, Enter,
       KeypadTimerHandlerReturns, KeypadSetState, KeypadRegisterKeyNotify,
       KeypadUnregisterKeyNotify, HandlerPops, HandlerWalks,
       KeyNotificationFnReturns

LEMMA StepSignalledHasKey == TypeOK /\ SignalledHasKey /\ [Next]_vars => SignalledHasKey'
<1> SUFFICES ASSUME TypeOK, SignalledHasKey, [Next]_vars
             PROVE  SignalledHasKey'
    OBVIOUS
<1>1. CASE UNCHANGED <<efiKeyQueue, promised>>
    BY <1>1 DEF SignalledHasKey, WholeKeys
<1>2. ASSUME NEW k \in Inputs, KeypadReturnApiPushEfikeyBufTail(k), promised'
      PROVE  WholeKeys' # {}
    <2>1. Len(efiKeyQueue) < Capacity /\ promised
        BY <1>2 DEF KeypadReturnApiPushEfikeyBufTail, PushToQueues
    <2>2. PICK i \in WholeKeys : TRUE
        BY <2>1 DEF SignalledHasKey
    <2>3. i \in 1 .. Len(efiKeyQueue) /\ Len(efiKeyQueue) \in Nat
        BY LenProperties DEF WholeKeys, TypeOK
    <2>4. efiKeyQueue' = Append(efiKeyQueue, k)
        BY <1>2, <2>1, <2>3 DEF KeypadReturnApiPushEfikeyBufTail, PushToQueues, Pushed
    <2>5. /\ efiKeyQueue' \in Seq(Inputs)
          /\ Len(efiKeyQueue') = Len(efiKeyQueue) + 1
          /\ efiKeyQueue'[i] = efiKeyQueue[i]
        BY <2>3, <2>4, AppendProperties DEF TypeOK
    <2>6. i \in DOMAIN efiKeyQueue'
        BY <2>3, <2>5, LenProperties
    <2>7. QED
        BY <2>5, <2>6 DEF WholeKeys
<1>3. ASSUME KeypadReadKeyStrokeWorkerReturns
      PROVE  SignalledHasKey'
    BY <1>3 DEF KeypadReadKeyStrokeWorkerReturns, SignalledHasKey, WholeKeys
<1>4. ASSUME KeypadWaitForKeyReturns
      PROVE  SignalledHasKey'
    <2>1. CASE FirstWhole = 0
        <3>1. WholeKeys = {}
            BY <2>1, FirstWholeProperties
        <3>2. QED
            BY <1>4, <2>1, <3>1 DEF KeypadWaitForKeyReturns, SignalledHasKey
    <2>2. CASE FirstWhole # 0
        <3>1. /\ FirstWhole \in WholeKeys /\ FirstWhole \in 1 .. Len(efiKeyQueue)
              /\ Len(efiKeyQueue) \in Nat
            BY <2>2, FirstWholeProperties, LenProperties DEF TypeOK
        <3>2. efiKeyQueue' = SubSeq(efiKeyQueue, FirstWhole, Len(efiKeyQueue))
            BY <1>4, <2>2 DEF KeypadWaitForKeyReturns
        <3>3. \A i \in FirstWhole .. Len(efiKeyQueue) : efiKeyQueue[i] \in Inputs
            BY <3>1, ElementOfSeq DEF TypeOK
        <3>4. /\ efiKeyQueue' \in Seq(Inputs)
              /\ Len(efiKeyQueue') = Len(efiKeyQueue) - FirstWhole + 1
              /\ \A i \in 1 .. Len(efiKeyQueue) - FirstWhole + 1 :
                    efiKeyQueue'[i] = efiKeyQueue[FirstWhole + i - 1]
            BY <3>1, <3>2, <3>3, SubSeqProperties
        <3>5. 1 \in DOMAIN efiKeyQueue' /\ efiKeyQueue'[1] = efiKeyQueue[FirstWhole]
            BY <3>1, <3>4, LenProperties
        <3>6. QED
            BY <3>1, <3>5 DEF WholeKeys, SignalledHasKey
    <2>3. QED
        BY <2>1, <2>2
<1>5. ASSUME NEW by \in Callers, KeypadEfiReset(by)
      PROVE  SignalledHasKey'
    BY <1>5 DEF KeypadEfiReset, SignalledHasKey
<1>6. QED
    BY <1>1, <1>2, <1>3, <1>4, <1>5, KeysUnchanged DEF SignalledHasKey

LEMMA StepIInv == IInv /\ [Next]_vars => IInv'
BY StepTypeOK, StepControl, StepListIsPool, StepNoLostNotify, StepSignalledHasKey
   DEF IInv

\* The driver's variables keep their types and its buffers their bound, whatever
\* is pressed, registered and called (Keypad.h, KeypadTextIn.c:63-73).
THEOREM TypeCorrect == Spec => []TypeOK
<1>1. IInv => TypeOK
    BY DEF IInv
<1>2. QED
    BY <1>1, InitIInv, StepIInv, PTL DEF Spec

\* The list links each allocated entry once, and no freed one
\* (KeypadTextIn.c:534-548,595-608).
THEOREM ListCorrect == Spec => []ListIsPool
<1>1. IInv => ListIsPool
    BY DEF IInv
<1>2. QED
    BY <1>1, InitIInv, StepIInv, PTL DEF Spec

\* No key that waits for notification is stranded without a signalled event or
\* a running handler (Keypad.c:161-176, KeypadTextIn.c:647-669).
THEOREM NotifyIsNotLost == Spec => []NoLostNotify
<1>1. IInv => NoLostNotify
    BY DEF IInv
<1>2. QED
    BY <1>1, InitIInv, StepIInv, PTL DEF Spec

\* A signalled WaitForKey stands for a whole key that can be read
\* (KeypadTextIn.c:297-317).
THEOREM SignalIsKept == Spec => []SignalledHasKey
<1>1. IInv => SignalledHasKey
    BY DEF IInv
<1>2. QED
    BY <1>1, InitIInv, StepIInv, PTL DEF Spec
-----------------------------------------------------------------------------
\* The handler's pass.  Six actions touch it or the list it walks.
LEMMA PassUnchanged ==
    ASSUME [Next]_vars
    PROVE  \/ UNCHANGED <<list, handler, todo>>
           \/ Dispatch
           \/ \E by \in Callers, kd \in Registrable, fn \in Functions :
                 KeypadRegisterKeyNotify(by, kd, fn)
           \/ \E by \in Callers, n \in Nodes : KeypadUnregisterKeyNotify(by, n)
           \/ HandlerPops \/ HandlerWalks \/ KeyNotificationFnReturns
BY DEF Next, vars, list, events, queues, Tick, Enter,
       KeypadReturnApiPushEfikeyBufTail, PushToQueues, KeypadTimerHandlerReturns,
       KeypadReadKeyStrokeWorkerReturns, KeypadWaitForKeyReturns, KeypadEfiReset,
       KeypadSetState

\* Whoever unregisters an entry either finds the handler at rest or runs in a
\* function that was called for another entry.
LEMMA UnregisterSparesLink ==
    ASSUME SelfRemoval = FALSE, TypeOK, Control, CursorPlaced,
           NEW by \in Callers, NEW n \in Nodes, KeypadUnregisterKeyNotify(by, n)
    PROVE  /\ handler.link # n
           /\ handler.step \in {"idle", "call"}
<1>1. CASE by = "app"
    <2>1. callback = "none"
        BY <1>1 DEF KeypadUnregisterKeyNotify, MayRun, MayCall
    <2>2. handler.step = "idle"
        BY <2>1 DEF Control
    <2>3. QED
        BY <2>2, AddressAssumption DEF CursorPlaced
<1>2. CASE by = "fn"
    BY <1>2 DEF KeypadUnregisterKeyNotify, MayRun, MayCall
<1>3. QED
    BY <1>1, <1>2 DEF Callers

\* After a listed entry comes the entry that is linked next, or the list head.
LEMMA NextOfListed ==
    ASSUME TypeOK, NEW n \in Listed, NEW l \in NextLinks(n)
    PROVE  \/ /\ Place(n) < Len(notifyList)
              /\ l = notifyList[Place(n) + 1]
              /\ l \in Listed
           \/ /\ Place(n) = Len(notifyList)
              /\ l = ListHead
<1>1. /\ Place(n) \in 1 .. Len(notifyList)
      /\ Len(notifyList) \in Nat
      /\ \A i \in 1 .. Len(notifyList) : notifyList[i] \in Listed
    BY PlaceProperties, ListProperties
<1>2. l = LinkAfter(n)
    BY DEF NextLinks
<1>3. QED
    BY <1>1, <1>2 DEF LinkAfter

LEMMA StepCursorPlaced ==
    SelfRemoval = FALSE /\ WInv /\ [Next]_vars => CursorPlaced'
<1> SUFFICES ASSUME SelfRemoval = FALSE, WInv, [Next]_vars
             PROVE  CursorPlaced'
    OBVIOUS
<1> USE DEF WInv, IInv
<1>1. CASE UNCHANGED <<list, handler, todo>>
    BY <1>1 DEF CursorPlaced, CursorIsLive, Listed, list
<1>2. CASE Dispatch
    <2>1. handler.link = ListHead
        BY <1>2 DEF Dispatch, Control, CursorPlaced, TypeOK
    <2>2. handler'.link = ListHead /\ handler'.step \in {"idle", "pop"}
        BY <1>2, <2>1 DEF Dispatch, Control, TypeOK
    <2>3. QED
        BY <2>2 DEF CursorPlaced, CursorIsLive
<1>3. ASSUME NEW by \in Callers, NEW kd \in Registrable, NEW fn \in Functions,
             KeypadRegisterKeyNotify(by, kd, fn)
      PROVE  CursorPlaced'
    <2>1. handler' = handler /\ Listed \subseteq Listed'
        BY <1>3, RegisterExtends DEF KeypadRegisterKeyNotify
    <2>2. QED
        BY <2>1 DEF CursorPlaced, CursorIsLive
<1>4. ASSUME NEW by \in Callers, NEW n \in Nodes, KeypadUnregisterKeyNotify(by, n)
      PROVE  CursorPlaced'
    <2>1. handler' = handler /\ handler.link # n /\ Listed' = Listed \ {n}
        BY <1>4, UnregisterShrinks, UnregisterSparesLink DEF KeypadUnregisterKeyNotify
    <2>2. QED
        BY <2>1 DEF CursorPlaced, CursorIsLive
<1>5. CASE HandlerPops
    <2>1. Listed' = Listed
        BY <1>5 DEF HandlerPops, list, Listed
    <2>2. \/ handler'.step = "idle" /\ handler'.link = ListHead
          \/ handler'.step = "walk" /\ handler'.link = FirstLink
        BY <1>5 DEF HandlerPops, CursorPlaced, TypeOK
    <2>3. QED
        BY <2>1, <2>2, FirstLinkProperties DEF CursorPlaced, CursorIsLive
<1>6. CASE HandlerWalks
    <2>1. Listed' = Listed
        BY <1>6 DEF HandlerWalks, list, Listed
    <2>2. CASE handler.link = ListHead
        <3>1. handler'.step = "pop" /\ handler'.link = ListHead
            BY <1>6, <2>2, ListProperties DEF HandlerWalks
        <3>2. QED
            BY <3>1 DEF CursorPlaced, CursorIsLive
    <2>3. CASE handler.link \in Listed /\ HandlerMatches
        <3>1. handler' = [handler EXCEPT !.step = "call"]
            BY <1>6, <2>3, ListProperties DEF HandlerWalks
        <3>2. QED
            BY <2>1, <2>3, <3>1 DEF CursorPlaced, CursorIsLive, TypeOK
    <2>4. CASE handler.link \in Listed /\ ~ HandlerMatches
        <3>1. PICK l \in NextLinks(handler.link) : handler' = [handler EXCEPT !.link = l]
            BY <1>6, <2>4, ListProperties DEF HandlerWalks
        <3>2. l \in Listed \cup {ListHead}
            BY <2>4, NextOfListed
        <3>3. handler'.step = "walk" /\ handler'.link = l
            BY <1>6, <3>1 DEF HandlerWalks, TypeOK
        <3>4. QED
            BY <2>1, <3>2, <3>3 DEF CursorPlaced, CursorIsLive
    <2>5. QED
        BY <1>6, <2>2, <2>3, <2>4 DEF HandlerWalks
<1>7. CASE KeyNotificationFnReturns
    <2>1. Listed' = Listed /\ handler.link \in Listed
        BY <1>7 DEF KeyNotificationFnReturns, list, Listed, MayRun, MayCall, CursorPlaced
    <2>2. PICK l \in NextLinks(handler.link) :
                  handler' = [handler EXCEPT !.step = "walk", !.link = l]
        BY <1>7 DEF KeyNotificationFnReturns
    <2>3. l \in Listed \cup {ListHead}
        BY <2>1, NextOfListed
    <2>4. handler'.step = "walk" /\ handler'.link = l
        BY <2>2 DEF TypeOK
    <2>5. QED
        BY <2>1, <2>3, <2>4 DEF CursorPlaced, CursorIsLive
<1>8. QED
    BY <1>1, <1>2, <1>3, <1>4, <1>5, <1>6, <1>7, PassUnchanged
LEMMA StepTodoAhead ==
    SelfRemoval = FALSE /\ WInv /\ [Next]_vars => TodoAhead'
<1> SUFFICES ASSUME SelfRemoval = FALSE, WInv, [Next]_vars
             PROVE  TodoAhead'
    OBVIOUS
<1> USE DEF WInv, IInv
<1> DEFINE len == Len(notifyList)
<1>1. /\ len \in Nat /\ DOMAIN notifyList = 1 .. len
      /\ \A i \in 1 .. len : notifyList[i] \in Listed
      /\ Listed \subseteq Nodes /\ ListHead \notin Nodes
      /\ \A i, j \in 1 .. len : notifyList[i] = notifyList[j] => i = j
    BY ListProperties, AddressAssumption DEF ListIsPool
<1>2. CASE UNCHANGED <<list, handler, todo>>
    BY <1>2 DEF TodoAhead, Matching, Listed, list
<1>3. CASE Dispatch
    <2>1. todo = {} /\ todo' = todo
        BY <1>3 DEF Dispatch, Control, TodoAhead, TypeOK
    <2>2. QED
        BY <2>1 DEF TodoAhead
<1>4. ASSUME NEW by \in Callers, NEW kd \in Registrable, NEW fn \in Functions,
             KeypadRegisterKeyNotify(by, kd, fn)
      PROVE  TodoAhead'
    <2>1. handler' = handler /\ todo' = todo
        BY <1>4 DEF KeypadRegisterKeyNotify
    <2>2. PICK n \in Nodes \ Listed :
             /\ node' = [node EXCEPT ![n] = [KeyData |-> kd, fn |-> fn]]
             /\ DOMAIN notifyList' = 1 .. len + 1
             /\ \A i \in 1 .. len : notifyList'[i] = notifyList[i]
             /\ notifyList'[len + 1] = n
             /\ Listed' = Listed \cup {n}
        BY <1>4, RegisterExtends
    <2> SUFFICES ASSUME NEW m \in todo
                 PROVE  /\ m \in Matching(handler.KeyData)'
                        /\ \A i, j \in DOMAIN notifyList' :
                              notifyList'[i] = handler.link /\ notifyList'[j] = m =>
                                  IF handler.step = "call" THEN i < j ELSE i <= j
        BY <2>1 DEF TodoAhead
    <2>3. m \in Matching(handler.KeyData) /\ m \in Listed /\ handler.link \in Listed
        BY DEF TodoAhead, Matching, CursorPlaced, CursorIsLive
    <2>4. node'[m] = node[m]
        BY <2>2, <2>3 DEF TypeOK
    <2>5. m \in Matching(handler.KeyData)'
        BY <2>1, <2>2, <2>3, <2>4 DEF Matching
    <2>6. \A i \in DOMAIN notifyList' :
             notifyList'[i] \in Listed => i \in 1 .. len /\ notifyList'[i] = notifyList[i]
        BY <1>1, <2>2
    <2>7. QED
        BY <1>1, <2>3, <2>5, <2>6 DEF TodoAhead
<1>5. ASSUME NEW by \in Callers, NEW n \in Nodes, KeypadUnregisterKeyNotify(by, n)
      PROVE  TodoAhead'
    <2>1. handler' = handler /\ todo' = todo \ {n} /\ node' = [node EXCEPT ![n] = Free]
        BY <1>5 DEF KeypadUnregisterKeyNotify
    <2>2. /\ handler.link # n
          /\ handler.step \in {"idle", "call"}
          /\ n \in Listed
          /\ DOMAIN notifyList' = 1 .. len - 1
          /\ \A i \in 1 .. len - 1 :
                notifyList'[i] = IF i < Place(n) THEN notifyList[i] ELSE notifyList[i + 1]
          /\ Listed' = Listed \ {n}
        BY <1>5, UnregisterSparesLink, UnregisterShrinks
    <2>3. Place(n) \in 1 .. len
        BY <2>2, PlaceProperties
    <2> SUFFICES ASSUME NEW m \in todo, m # n
                 PROVE  /\ m \in Matching(handler.KeyData)'
                        /\ \A i, j \in DOMAIN notifyList' :
                              notifyList'[i] = handler.link /\ notifyList'[j] = m =>
                                  IF handler.step = "call" THEN i < j ELSE i <= j
        BY <2>1 DEF TodoAhead
    <2>4. m \in Matching(handler.KeyData) /\ m \in Listed /\ node'[m] = node[m]
        BY <2>1 DEF TodoAhead, Matching, TypeOK
    <2>5. m \in Matching(handler.KeyData)'
        BY <2>1, <2>2, <2>4 DEF Matching
    <2>6. ASSUME NEW i \in DOMAIN notifyList', NEW j \in DOMAIN notifyList',
                 notifyList'[i] = handler.link, notifyList'[j] = m
          PROVE  i < j
        <3> DEFINE old(l) == IF l < Place(n) THEN l ELSE l + 1
        <3>1. /\ old(i) \in DOMAIN notifyList /\ notifyList'[i] = notifyList[old(i)]
              /\ old(j) \in DOMAIN notifyList /\ notifyList'[j] = notifyList[old(j)]
            BY <1>1, <2>2, <2>3
        <3>2. old(i) < old(j)
            BY <2>2, <2>6, <3>1 DEF TodoAhead
        <3>3. QED
            BY <1>1, <2>2, <2>3, <3>2
    <2>7. handler.step = "call"
        BY <2>2 DEF TodoAhead
    <2>8. QED
        BY <2>5, <2>6, <2>7
<1>6. CASE HandlerPops
    <2>1. UNCHANGED list
        BY <1>6 DEF HandlerPops
    <2>2. CASE efiKeyQueueForNotify = <<>>
        <3>1. todo = {} /\ todo' = todo
            BY <1>6, <2>2 DEF HandlerPops, TodoAhead
        <3>2. QED
            BY <3>1 DEF TodoAhead
    <2>3. CASE efiKeyQueueForNotify # <<>>
        <3> DEFINE k == Head(efiKeyQueueForNotify)
        <3>1. /\ handler' = [step |-> "walk", KeyData |-> k, link |-> FirstLink]
              /\ todo' = Matching(k)
            BY <1>6, <2>3 DEF HandlerPops
        <3> SUFFICES ASSUME NEW m \in Matching(k)
                     PROVE  /\ FirstLink # ListHead
                            /\ \A i, j \in DOMAIN notifyList :
                                  notifyList[i] = FirstLink /\ notifyList[j] = m => i <= j
            BY <2>1, <3>1 DEF TodoAhead, Matching, Listed, list
        <3>2. notifyList # <<>>
            BY <1>1, EmptySeq DEF Matching, Listed
        <3>3. 1 \in DOMAIN notifyList /\ FirstLink = notifyList[1]
            BY <3>2, FirstLinkProperties
        <3>4. QED
            BY <1>1, <3>3
    <2>4. QED
        BY <2>2, <2>3
<1>7. CASE HandlerWalks
    <2>1. UNCHANGED list /\ handler.step = "walk"
        BY <1>7 DEF HandlerWalks
    <2>2. CASE handler.link = ListHead
        <3>1. todo = {} /\ todo' = todo
            BY <1>1, <1>7, <2>2 DEF HandlerWalks, TodoAhead
        <3>2. QED
            BY <3>1 DEF TodoAhead
    <2>3. CASE handler.link \in Listed /\ HandlerMatches
        <3>1. /\ handler' = [handler EXCEPT !.step = "call"]
              /\ todo' = todo \ {handler.link}
            BY <1>1, <1>7, <2>3 DEF HandlerWalks
        <3>2. /\ handler'.step = "call" /\ handler'.link = handler.link
              /\ handler'.KeyData = handler.KeyData
            BY <3>1 DEF TypeOK
        <3> SUFFICES ASSUME NEW m \in todo, m # handler.link,
                            NEW i \in DOMAIN notifyList, NEW j \in DOMAIN notifyList,
                            notifyList[i] = handler.link, notifyList[j] = m
                     PROVE  i < j
            BY <2>1, <3>1, <3>2 DEF TodoAhead, Matching, Listed, list
        <3>3. i <= j /\ i # j
            BY <2>1 DEF TodoAhead
        <3>4. QED
            BY <1>1, <3>3
    <2>4. CASE handler.link \in Listed /\ ~ HandlerMatches
        <3>1. PICK l \in NextLinks(handler.link) :
                 handler' = [handler EXCEPT !.link = l] /\ todo' = todo
            BY <1>1, <1>7, <2>4 DEF HandlerWalks
        <3>2. /\ handler'.step = "walk" /\ handler'.link = l
              /\ handler'.KeyData = handler.KeyData
            BY <2>1, <3>1 DEF TypeOK
        <3>3. \A m \in todo : m # handler.link
            BY <2>4 DEF TodoAhead, Matching, HandlerMatches
        <3> SUFFICES ASSUME NEW m \in todo
                     PROVE  /\ l # ListHead
                            /\ \A i, j \in DOMAIN notifyList :
                                  notifyList[i] = l /\ notifyList[j] = m => i <= j
            BY <2>1, <3>1, <3>2 DEF TodoAhead, Matching, Listed, list
        <3>4. Place(handler.link) \in 1 .. len /\ notifyList[Place(handler.link)] = handler.link
            BY <2>4, PlaceProperties
        <3>5. \A j \in 1 .. len : notifyList[j] = m => Place(handler.link) < j
            BY <1>1, <2>1, <3>3, <3>4 DEF TodoAhead
        <3>6. PICK j \in 1 .. len : notifyList[j] = m
            BY <1>1 DEF TodoAhead, Matching, Listed
        <3>7. /\ Place(handler.link) < len
              /\ l = notifyList[Place(handler.link) + 1] /\ l \in Listed
            BY <1>1, <2>4, <3>4, <3>5, <3>6, NextOfListed
        <3>8. QED
            BY <1>1, <3>4, <3>5, <3>7
    <2>5. QED
        BY <1>7, <2>2, <2>3, <2>4 DEF HandlerWalks
<1>8. CASE KeyNotificationFnReturns
    <2>1. UNCHANGED list /\ todo' = todo /\ handler.step = "call" /\ handler.link \in Listed
        BY <1>8 DEF KeyNotificationFnReturns, MayRun, MayCall, CursorPlaced
    <2>2. PICK l \in NextLinks(handler.link) :
                  handler' = [handler EXCEPT !.step = "walk", !.link = l]
        BY <1>8 DEF KeyNotificationFnReturns
    <2>3. /\ handler'.step = "walk" /\ handler'.link = l
          /\ handler'.KeyData = handler.KeyData
        BY <2>2 DEF TypeOK
    <2> SUFFICES ASSUME NEW m \in todo
                 PROVE  /\ l # ListHead
                        /\ \A i, j \in DOMAIN notifyList :
                              notifyList[i] = l /\ notifyList[j] = m => i <= j
        BY <2>1, <2>3 DEF TodoAhead, Matching, Listed, list
    <2>4. Place(handler.link) \in 1 .. len /\ notifyList[Place(handler.link)] = handler.link
        BY <2>1, PlaceProperties
    <2>5. \A j \in 1 .. len : notifyList[j] = m => Place(handler.link) < j
        BY <1>1, <2>1, <2>4 DEF TodoAhead
    <2>6. PICK j \in 1 .. len : notifyList[j] = m
        BY <1>1 DEF TodoAhead, Matching, Listed
    <2>7. /\ Place(handler.link) < len
          /\ l = notifyList[Place(handler.link) + 1] /\ l \in Listed
        BY <1>1, <2>1, <2>4, <2>5, <2>6, NextOfListed
    <2>8. QED
        BY <1>1, <2>4, <2>5, <2>7
<1>9. QED
    BY <1>2, <1>3, <1>4, <1>5, <1>6, <1>7, <1>8, PassUnchanged

LEMMA InitWInv == Init => WInv
BY InitIInv DEF Init, WInv, CursorPlaced, CursorIsLive, TodoAhead

LEMMA StepWInv == SelfRemoval = FALSE /\ WInv /\ [Next]_vars => WInv'
BY StepIInv, StepCursorPlaced, StepTodoAhead DEF WInv

\* When no function unregisters the entry it is called for, the handler never
\* stands on a freed entry (KeypadTextIn.c:659-668).
THEOREM CursorStaysLive ==
    ASSUME SelfRemoval = FALSE
    PROVE  Spec => []CursorIsLive
<1>1. WInv /\ [Next]_vars => WInv'
    BY StepWInv
<1>2. WInv => CursorIsLive
    BY DEF WInv, CursorPlaced
<1>3. QED
    BY <1>1, <1>2, InitWInv, PTL DEF Spec

\* When no function unregisters the entry it is called for, each pass calls every
\* entry that was registered for its key throughout (KeypadTextIn.c:647-668).
THEOREM PassesComplete ==
    ASSUME SelfRemoval = FALSE
    PROVE  Spec => []PassIsComplete
<1>1. WInv /\ [Next]_vars => WInv'
    BY StepWInv
<1>2. WInv => PassIsComplete
    BY DEF WInv, TodoAhead, PassIsComplete
<1>3. QED
    BY <1>1, <1>2, InitWInv, PTL DEF Spec
-----------------------------------------------------------------------------
(* The driver with its clients.                                              *)

\* No registration stands for another one, with the same key and fewer
\* conditions on its shift and toggle state.
Distinct == \A kd1, kd2 \in Registrable : IsKeyRegistered(kd1, kd2) => kd1 = kd2

HeldType == clients \subseteq [KeyData : Registrable, fn : Functions, handle : Nodes]

\* The inductive invariant of the driver with its clients.
CInv == IInv /\ HeldType /\ RegistrationHolds

\* A step of driver and clients is a step of the driver or none.
LEMMA StepIsStep == TypeOK /\ [ClientNext]_clientVars => [Next]_vars
<1> SUFFICES ASSUME TypeOK, [ClientNext]_clientVars
             PROVE  [Next]_vars
    OBVIOUS
<1>1. CASE DriverStep
    BY <1>1 DEF DriverStep, Next
<1>2. ASSUME NEW by \in Callers, NEW kd \in Registrable, NEW fn \in Functions,
             ClientRegisters(by, kd, fn)
      PROVE  [Next]_vars
    BY <1>2 DEF ClientRegisters, Next
<1>3. ASSUME NEW by \in Callers, NEW c \in clients, ClientUnregisters(by, c)
      PROVE  [Next]_vars
    BY <1>3, ListProperties DEF ClientUnregisters, Next
<1>4. CASE UNCHANGED clientVars
    BY <1>4 DEF clientVars
<1>5. QED
    BY <1>1, <1>2, <1>3, <1>4 DEF ClientNext

LEMMA InitCInv == ClientInit => CInv
BY InitIInv DEF ClientInit, CInv, HeldType, RegistrationHolds

\* A handle that is returned is that of an entry with the caller's key and function.
LEMMA RegisterGivesHandle ==
    ASSUME Distinct, CInv, NEW by \in Callers,
           NEW kd \in Registrable, NEW fn \in Functions, ClientRegisters(by, kd, fn)
    PROVE  HeldType' /\ RegistrationHolds'
<1> USE DEF CInv, IInv, Holds
<1>1. CASE KeypadRegisterKeyNotify(by, kd, fn)
    <2>1. PICK n \in Nodes \ Listed :
             /\ node' = [node EXCEPT ![n] = [KeyData |-> kd, fn |-> fn]]
             /\ Len(notifyList') = Len(notifyList) + 1
             /\ notifyList'[Len(notifyList) + 1] = n
             /\ Listed' = Listed \cup {n}
        BY <1>1, RegisterExtends
    <2>2. clients' = clients \cup {[KeyData |-> kd, fn |-> fn, handle |-> n]}
        <3>1. Existing(kd, fn) = {}
            BY <1>1 DEF KeypadRegisterKeyNotify
        <3>2. clients' = clients \cup {Holds(kd, fn, notifyList'[Len(notifyList')])}
            BY <3>1 DEF ClientRegisters
        <3>3. QED
            BY <2>1, <3>2
    <2>3. /\ node'[n] = [KeyData |-> kd, fn |-> fn]
          /\ \A m \in Listed : node'[m] = node[m]
        BY <2>1, ListProperties DEF TypeOK
    <2>4. HeldType'
        BY <2>2 DEF HeldType
    <2>5. ASSUME NEW c \in clients'
          PROVE  c.handle \in Listed' /\ node'[c.handle] = [KeyData |-> c.KeyData, fn |-> c.fn]
        <3>1. CASE c \in clients
            BY <2>1, <2>3, <3>1 DEF RegistrationHolds
        <3>2. CASE c = [KeyData |-> kd, fn |-> fn, handle |-> n]
            BY <2>1, <2>3, <3>2
        <3>3. QED
            BY <2>2, <2>5, <3>1, <3>2
    <2>6. QED
        BY <2>4, <2>5 DEF RegistrationHolds
<1>2. CASE ~ KeypadRegisterKeyNotify(by, kd, fn)
    <2>1. PICK i \in Existing(kd, fn) :
             clients' = clients \cup {Holds(kd, fn, notifyList[i])} /\ UNCHANGED vars
        BY <1>2 DEF ClientRegisters
    <2>2. /\ i \in 1 .. Len(notifyList) /\ notifyList[i] \in Listed
          /\ IsKeyRegistered(node[notifyList[i]].KeyData, kd)
          /\ node[notifyList[i]].fn = fn
        BY ListProperties DEF Existing
    <2>3. node[notifyList[i]] \in [KeyData : Registrable, fn : Functions]
        BY <2>2 DEF ListIsPool, TypeOK
    <2>4. node[notifyList[i]] = [KeyData |-> kd, fn |-> fn]
        BY <2>2, <2>3 DEF Distinct
    <2>5. HeldType'
        BY <2>1, <2>2, ListProperties DEF HeldType
    <2>6. ASSUME NEW c \in clients'
          PROVE  c.handle \in Listed /\ node[c.handle] = [KeyData |-> c.KeyData, fn |-> c.fn]
        <3>1. CASE c \in clients
            BY <3>1 DEF RegistrationHolds
        <3>2. CASE c = [KeyData |-> kd, fn |-> fn, handle |-> notifyList[i]]
            BY <2>2, <2>4, <3>2
        <3>3. QED
            BY <2>1, <2>6, <3>1, <3>2
    <2>7. QED
        BY <2>1, <2>5, <2>6 DEF RegistrationHolds, Listed, vars, list
<1>3. QED
    BY <1>1, <1>2

\* No two holders share an entry, so giving one up leaves the others alone.
LEMMA UnregisterSparesOthers ==
    ASSUME CInv, NEW by \in Callers, NEW c \in clients, ClientUnregisters(by, c)
    PROVE  HeldType' /\ RegistrationHolds'
<1> USE DEF CInv, IInv
<1>1. c.handle \in Listed /\ c.handle \in Nodes
    BY DEF RegistrationHolds, HeldType
<1>2. KeypadUnregisterKeyNotify(by, c.handle) /\ clients' = clients \ {c}
    BY <1>1 DEF ClientUnregisters
<1>3. Listed' = Listed \ {c.handle} /\ node' = [node EXCEPT ![c.handle] = Free]
    BY <1>1, <1>2, UnregisterShrinks DEF KeypadUnregisterKeyNotify
<1>4. ASSUME NEW d \in clients, d # c
      PROVE  d.handle # c.handle
    <2> SUFFICES ASSUME d.handle = c.handle
                 PROVE  FALSE
        OBVIOUS
    <2>1. [KeyData |-> d.KeyData, fn |-> d.fn] = [KeyData |-> c.KeyData, fn |-> c.fn]
        BY DEF RegistrationHolds
    <2>2. d.KeyData = c.KeyData /\ d.fn = c.fn
        BY <2>1
    <2>3. d = c
        BY <2>2 DEF HeldType
    <2>4. QED
        BY <1>4, <2>3
<1>5. ASSUME NEW d \in clients'
      PROVE  d.handle \in Listed' /\ node'[d.handle] = [KeyData |-> d.KeyData, fn |-> d.fn]
    <2>1. d \in clients /\ d.handle # c.handle
        BY <1>2, <1>4
    <2>2. d.handle \in Listed /\ node[d.handle] = [KeyData |-> d.KeyData, fn |-> d.fn]
        BY <2>1 DEF RegistrationHolds
    <2>3. QED
        BY <1>3, <2>1, <2>2, ListProperties DEF TypeOK
<1>6. QED
    BY <1>2, <1>5 DEF HeldType, RegistrationHolds

LEMMA StepCInv == Distinct /\ CInv /\ [ClientNext]_clientVars => CInv'
<1> SUFFICES ASSUME Distinct, CInv, [ClientNext]_clientVars
             PROVE  CInv'
    OBVIOUS
<1>1. IInv'
    BY StepIsStep, StepIInv DEF CInv, IInv
<1>2. HeldType' /\ RegistrationHolds'
    <2>1. CASE DriverStep
        <3>1. UNCHANGED <<list, clients>>
            BY <2>1 DEF DriverStep, vars, list, events, queues, Tick, Dispatch, Enter,
               KeypadReturnApiPushEfikeyBufTail, PushToQueues, KeypadTimerHandlerReturns,
               KeypadReadKeyStrokeWorkerReturns, KeypadWaitForKeyReturns,
               KeypadEfiReset, KeypadSetState, HandlerPops, HandlerWalks,
               KeyNotificationFnReturns
        <3>2. QED
            BY <3>1 DEF CInv, HeldType, RegistrationHolds, Listed, list
    <2>2. ASSUME NEW by \in Callers, NEW kd \in Registrable, NEW fn \in Functions,
                 ClientRegisters(by, kd, fn)
          PROVE  HeldType' /\ RegistrationHolds'
        BY <2>2, RegisterGivesHandle
    <2>3. ASSUME NEW by \in Callers, NEW c \in clients, ClientUnregisters(by, c)
          PROVE  HeldType' /\ RegistrationHolds'
        BY <2>3, UnregisterSparesOthers
    <2>4. CASE UNCHANGED clientVars
        BY <2>4 DEF CInv, HeldType, RegistrationHolds, Listed, clientVars, vars, list
    <2>5. QED
        BY <2>1, <2>2, <2>3, <2>4 DEF ClientNext
<1>3. QED
    BY <1>1, <1>2 DEF CInv

\* The driver with its clients is the driver: what clients keep changes none of
\* its steps, so that what holds of it holds with clients too.
THEOREM ClientsImplement == ClientSpec => Spec
<1>1. ClientInit => Init
    BY DEF ClientInit
<1>2. Init => TypeOK
    BY InitIInv DEF IInv
<1>3. QED
    BY <1>1, <1>2, StepIsStep, StepTypeOK, PTL DEF ClientSpec, Spec

\* Where no registration stands for another one, what a client registered stays
\* registered until it gives it up (KeypadTextIn.c:518-552,595-608).
THEOREM RegistrationsHold ==
    ASSUME Distinct
    PROVE  ClientSpec => []RegistrationHolds
<1>1. CInv /\ [ClientNext]_clientVars => CInv'
    BY StepCInv
<1>2. CInv => RegistrationHolds
    BY DEF CInv
<1>3. QED
    BY <1>1, <1>2, InitCInv, PTL DEF ClientSpec

\* A client's handle is a list entry, whether its registration made the entry or
\* took over another's.
LEMMA HeldTypeStep == IInv /\ HeldType /\ [ClientNext]_clientVars => HeldType'
<1> SUFFICES ASSUME IInv, HeldType, [ClientNext]_clientVars
             PROVE  HeldType'
    OBVIOUS
<1>1. notifyList \in Seq(Nodes)
    BY DEF IInv, TypeOK
<1>2. ASSUME NEW by \in Callers, NEW kd \in Registrable, NEW fn \in Functions,
             ClientRegisters(by, kd, fn)
      PROVE  HeldType'
    <2>1. CASE KeypadRegisterKeyNotify(by, kd, fn)
        <3>1. PICK n \in Nodes \ Listed :
                 /\ Len(notifyList') = Len(notifyList) + 1
                 /\ notifyList'[Len(notifyList) + 1] = n
            BY <2>1, RegisterExtends DEF IInv
        <3>2. Existing(kd, fn) = {}
            BY <2>1 DEF KeypadRegisterKeyNotify
        <3>3. clients' = clients \cup {Holds(kd, fn, n)}
            BY <1>2, <3>1, <3>2 DEF ClientRegisters
        <3> QED BY <3>3 DEF HeldType, Holds
    <2>2. CASE ~KeypadRegisterKeyNotify(by, kd, fn)
        <3>1. PICK i \in Existing(kd, fn) :
                 clients' = clients \cup {Holds(kd, fn, notifyList[i])}
            BY <1>2, <2>2 DEF ClientRegisters
        <3>2. notifyList[i] \in Nodes
            BY <1>1, <3>1 DEF Existing
        <3> QED BY <3>1, <3>2 DEF HeldType, Holds
    <2> QED BY <2>1, <2>2
<1>3. CASE UNCHANGED clients
    BY <1>3 DEF HeldType
<1>4. ASSUME NEW by \in Callers, NEW c \in clients, ClientUnregisters(by, c)
      PROVE  HeldType'
    BY <1>4 DEF HeldType, ClientUnregisters
<1> QED BY <1>2, <1>3, <1>4 DEF ClientNext, DriverStep, clientVars

\* The driver's variables and the clients' handles keep their types, also where
\* registrations stand for one another.
THEOREM ClientTypesHold == ClientSpec => []ClientTypeOK
<1>1. IInv /\ HeldType /\ [ClientNext]_clientVars => IInv' /\ HeldType'
    <2>1. IInv => TypeOK
        BY DEF IInv
    <2> QED BY <2>1, StepIsStep, StepIInv, HeldTypeStep
<1>2. ClientInit => IInv /\ HeldType
    BY InitCInv DEF CInv
<1>3. IInv /\ HeldType => ClientTypeOK
    BY DEF IInv, HeldType, ClientTypeOK
<1> QED BY <1>1, <1>2, <1>3, PTL DEF ClientSpec
=============================================================================
