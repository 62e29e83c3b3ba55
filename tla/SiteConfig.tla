----------------------------- MODULE SiteConfig -----------------------------
(***************************************************************************)
(* The configuration of a site: be/tasks/configuration.go stores it and    *)
(* wakes the requests that wait for it, WatchBackendConfiguration sends it *)
(* to the front end, and fe/handlers/configuration.go does there what      *)
(* configuration.go does in the backend.                                   *)
(*                                                                         *)
(* A channel that is closed to wake everyone may be closed once: closing   *)
(* it again panics.  Both are counters here.  A Store of an atomic.Value   *)
(* and the close that follows are two steps.                               *)
(***************************************************************************)
EXTENDS Naturals

CONSTANTS Loader,     \* LoadConfigurationTasks that run at once
          Request,    \* requests to the backend
          FeRequest,  \* requests to the front end
          Field,
          Override,   \* what operators set in BackendConfiguration
          Default,    \* defaultConfiguration
          Unset,      \* a field without a value
          MaxStarts,  \* how often the backend is started
          None

ASSUME StartsAssumption == MaxStarts \in Nat \ {0}
ASSUME DefaultAssumption == \A f \in Field : Default[f] # Unset
ASSUME OverrideAssumption == Override \subseteq [Field -> {Unset} \cup {c[f] : c \in Override, f \in Field}]

VARIABLES starts,
          store,     \* _siteConfiguration
          closed,    \* closes of _configLoading
          loader,    \* the tasks
          request,   \* GetConfiguration
          stream,    \* the watch: "open", "sent", or "broken"
          feStore,   \* globalConfig.val
          feClosed,  \* closes of globalConfig.done
          feRequest  \* globalConfig.Get

be == <<starts, store, closed, loader, request>>
fe == <<feStore, feClosed, feRequest>>
vars == <<be, stream, fe>>

Conf == [Field -> {Default[f] : f \in Field} \cup UNION {{c[f] : f \in Field} : c \in Override}]
ASSUME NoneAssumption == None \notin Conf
Waiting == [pc |-> "get", conf |-> None]
NotLoaded == [pc |-> "load", old |-> None]

Init == /\ starts = 1
        /\ store = None /\ closed = 0
        /\ loader = [l \in Loader |-> NotLoaded]
        /\ request = [q \in Request |-> Waiting]
        /\ stream = "open"
        /\ feStore = None /\ feClosed = 0
        /\ feRequest = [w \in FeRequest |-> Waiting]

-----------------------------------------------------------------------------
\* LoadConfigurationTask.Run.

\* MergeConfiguration into GetDefaultConfiguration, top level fields only.
Merged(c) == [f \in Field |-> IF c[f] = Unset THEN Default[f] ELSE c[f]]

\* Broken: every load closes the channel, or none does.
MayCloseAlways(old) == TRUE
MayCloseNever(old) == FALSE
\* Only the load that replaces nothing wakes the requests.
MayClose(old) == old = None

\* The lines under _configLoadLock.
Load(l, c) ==
  /\ loader[l].pc = "load"
  /\ store' = Merged(c)
  /\ loader' = [loader EXCEPT ![l] =
       [pc |-> IF MayClose(store) THEN "close" ELSE "done", old |-> store]]
  /\ UNCHANGED <<starts, closed, request, stream, fe>>

\* After it is released.
Close(l) ==
  /\ loader[l].pc = "close"
  /\ closed' = closed + 1
  /\ loader' = [loader EXCEPT ![l].pc = "done"]
  /\ UNCHANGED <<starts, store, request, stream, fe>>

-----------------------------------------------------------------------------
\* GetConfiguration: a loop around a look and a wait.

Look(conf) == IF conf # None THEN [pc |-> "done", conf |-> conf]
              ELSE [pc |-> "wait", conf |-> None]

GetConfiguration(q) ==
  /\ request[q].pc = "get"
  /\ request' = [request EXCEPT ![q] = Look(store)]
  /\ UNCHANGED <<starts, store, closed, loader, stream, fe>>

WakeUp(q) ==
  /\ request[q].pc = "wait" /\ closed > 0
  /\ request' = [request EXCEPT ![q].pc = "get"]
  /\ UNCHANGED <<starts, store, closed, loader, stream, fe>>

\* The context of the request is done.
GiveUp(q) ==
  /\ request[q].pc = "wait"
  /\ request' = [request EXCEPT ![q].pc = "cancelled"]
  /\ UNCHANGED <<starts, store, closed, loader, stream, fe>>

\* The backend stops and starts again; its streams break.
Restart ==
  /\ starts < MaxStarts /\ starts' = starts + 1
  /\ store' = None /\ closed' = 0
  /\ loader' = [l \in Loader |-> NotLoaded]
  /\ request' = [q \in Request |-> Waiting]
  /\ stream' = "broken"
  /\ UNCHANGED fe

-----------------------------------------------------------------------------
\* The front end.

\* Broken: the channel is closed before there is a value.
FeStoredLate(conf) == feStore
FeStored(conf) == conf

\* handleWatchBackendConfiguration waits for a configuration and sends it,
\* once; the front end stores it and wakes its requests.
Receive ==
  /\ stream = "open" /\ store # None
  /\ stream' = "sent"
  /\ feStore' = FeStored(store) /\ feClosed' = feClosed + 1
  /\ UNCHANGED <<be, feRequest>>

\* Recv fails: the goroutine ends, and nothing starts it again.
Break ==
  /\ stream \in {"open", "sent"}
  /\ stream' = "broken"
  /\ UNCHANGED <<be, fe>>

FeGet(w) ==
  /\ feRequest[w].pc = "get"
  /\ feRequest' = [feRequest EXCEPT ![w] = Look(feStore)]
  /\ UNCHANGED <<be, stream, feStore, feClosed>>

FeWakeUp(w) ==
  /\ feRequest[w].pc = "wait" /\ feClosed > 0
  /\ feRequest' = [feRequest EXCEPT ![w].pc = "get"]
  /\ UNCHANGED <<be, stream, feStore, feClosed>>

FeGiveUp(w) ==
  /\ feRequest[w].pc = "wait"
  /\ feRequest' = [feRequest EXCEPT ![w].pc = "cancelled"]
  /\ UNCHANGED <<be, stream, feStore, feClosed>>

-----------------------------------------------------------------------------
Next == \/ \E l \in Loader : Close(l) \/ \E c \in Override : Load(l, c)
        \/ \E q \in Request : GetConfiguration(q) \/ WakeUp(q) \/ GiveUp(q)
        \/ Restart \/ Receive \/ Break
        \/ \E w \in FeRequest : FeGet(w) \/ FeWakeUp(w) \/ FeGiveUp(w)

Spec == Init /\ [][Next]_vars

\* A goroutine that can go on does.  Nobody must restart, break or cancel.
Fairness ==
  /\ \A l \in Loader : WF_vars(\E c \in Override : Load(l, c)) /\ WF_vars(Close(l))
  /\ \A q \in Request : WF_vars(GetConfiguration(q)) /\ WF_vars(WakeUp(q))
  /\ \A w \in FeRequest : WF_vars(FeGet(w)) /\ WF_vars(FeWakeUp(w))
  /\ WF_vars(Receive)
FairSpec == Spec /\ Fairness

-----------------------------------------------------------------------------
\* Properties.

Client == [pc : {"get", "wait", "cancelled"}, conf : {None}] \cup [pc : {"done"}, conf : Conf]

TypeOK ==
  /\ starts \in 1..MaxStarts
  /\ store \in Conf \cup {None} /\ feStore \in Conf \cup {None}
  /\ closed \in Nat /\ feClosed \in Nat
  /\ stream \in {"open", "sent", "broken"}
  /\ loader \in [Loader -> [pc : {"load", "close", "done"}, old : Conf \cup {None}]]
  /\ request \in [Request -> Client] /\ feRequest \in [FeRequest -> Client]

\* No channel is closed twice, which would panic, whatever loads run at once
\* (LoadConfigurationTask.Run, the goroutine of fe/handlers/configuration.go).
ClosedOnce == closed <= 1 /\ feClosed <= 1

\* GetDefaultConfiguration: "All fields are set", and so they are in every
\* configuration that a request gets, on either side.
FieldsSet ==
  /\ \A q \in Request : request[q].pc = "done" =>
       \A f \in Field : request[q].conf[f] # Unset
  /\ \A w \in FeRequest : feRequest[w].pc = "done" =>
       \A f \in Field : feRequest[w].conf[f] # Unset

\* A request that is woken finds a configuration: GetConfiguration and Get
\* never go round in a circle around a closed channel.
WakesToValue == /\ closed > 0 => store # None
                /\ feClosed > 0 => feStore # None

\* Every request to the backend ends, and every request to a front end that
\* once gets a configuration.
RequestsEnd ==
  /\ \A q \in Request : request[q].pc \in {"get", "wait"} ~> request[q].pc \in {"done", "cancelled"}
  /\ <>(feStore # None) =>
       \A w \in FeRequest : <>(feRequest[w].pc \in {"done", "cancelled"})
==============================================================================
