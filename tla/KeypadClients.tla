--------------------------- MODULE KeypadClients ---------------------------
(***************************************************************************)
(* The keypad driver together with what its clients hold: a client keeps   *)
(* the handle each registration returned and unregisters with it, once.    *)
(***************************************************************************)
EXTENDS Keypad

VARIABLE clients  \* the registrations that clients hold and have not given up

clientVars == <<vars, clients>>

Holds(kd, fn, n) == [KeyData |-> kd, fn |-> fn, handle |-> n]

ClientInit == Init /\ clients = {}

\* The handle is that of the new entry, or of the first one in list order
\* that passes for it.
ClientRegisters(by, kd, fn) ==
    \/ /\ KeypadRegisterKeyNotify(by, kd, fn)
       /\ clients' = clients \cup {Holds(kd, fn, notifyList'[Len(notifyList')])}
    \/ /\ MayRun(by)
       /\ \E i \in Existing(kd, fn) :
             /\ \A j \in Existing(kd, fn) : i <= j
             /\ clients' = clients \cup {Holds(kd, fn, notifyList[i])}
       /\ UNCHANGED vars

ClientUnregisters(by, c) ==
    /\ c \in clients
    /\ IF c.handle \in Listed
         THEN KeypadUnregisterKeyNotify(by, c.handle)
         ELSE MayRun(by) /\ UNCHANGED vars
    /\ clients' = clients \ {c}

\* Everything that leaves the list of registrations alone.
DriverStep ==
    /\ \/ Tick \/ Dispatch
       \/ \E by \in Callers, op \in {"read", "readEx", "wait"} : Enter(by, op)
       \/ \E k \in Inputs : KeypadReturnApiPushEfikeyBufTail(k)
       \/ KeypadTimerHandlerReturns
       \/ KeypadReadKeyStrokeWorkerReturns
       \/ KeypadWaitForKeyReturns
       \/ \E by \in Callers : KeypadEfiReset(by)
       \/ \E by \in Callers, expose \in BOOLEAN : KeypadSetState(by, expose)
       \/ HandlerPops \/ HandlerWalks \/ KeyNotificationFnReturns
    /\ UNCHANGED clients

ClientNext ==
    \/ DriverStep
    \/ \E by \in Callers, kd \in Registrable, fn \in Functions :
          ClientRegisters(by, kd, fn)
    \/ \E by \in Callers : \E c \in clients : ClientUnregisters(by, c)

ClientSpec == ClientInit /\ [][ClientNext]_clientVars
-----------------------------------------------------------------------------
ClientTypeOK ==
    TypeOK /\ clients \subseteq [KeyData : Registrable, fn : Functions, handle : Nodes]

\* A registration a client holds stays in force: its handle is an entry of the
\* list with the client's own key and function, through reuse of freed entries
\* and calls from inside notifications (KeypadTextIn.c:518-552,595-608).
RegistrationHolds ==
    \A c \in clients : /\ c.handle \in Listed
                       /\ node[c.handle] = [KeyData |-> c.KeyData, fn |-> c.fn]
=============================================================================
