--------------------------- MODULE SiteConfigProofs ---------------------------
(***************************************************************************)
(* Proofs about SiteConfig, for any number of loads, requests, fields and  *)
(* restarts; and about the start and end of the processes (Servers, as     *)
(* Process), for any number of HTTP requests.                              *)
(***************************************************************************)
EXTENDS SiteConfig, TLAPS

\* A configuration without a gap.
Whole(c) == \A f \in Field : c[f] # Unset

\* The first load is the one that closes, and nobody has before it does.
LoadInv ==
  /\ closed <= 1
  /\ store = None => closed = 0 /\ \A l \in Loader : loader[l].pc = "load"
  /\ \A l \in Loader : loader[l].pc = "close" =>
       /\ closed = 0
       /\ \A m \in Loader : loader[m].pc = "close" => m = l

\* The front end closes only on the stream's one message.
FeInv == /\ feClosed <= 1
         /\ stream = "open" => feClosed = 0
         /\ feClosed > 0 => feStore # None

\* Every configuration that is stored or handed out is whole.
WholeInv ==
  /\ store # None => Whole(store)
  /\ feStore # None => Whole(feStore)
  /\ \A q \in Request : request[q].pc = "done" => Whole(request[q].conf)
  /\ \A w \in FeRequest : feRequest[w].pc = "done" => Whole(feRequest[w].conf)

IInv == TypeOK /\ LoadInv /\ FeInv /\ WholeInv

-----------------------------------------------------------------------------
\* MergeConfiguration fills every gap from the defaults.
LEMMA MergedIsWhole ==
  ASSUME NEW c \in Override
  PROVE  Merged(c) \in Conf /\ Whole(Merged(c)) /\ Merged(c) # None
<1>1. Merged(c) \in Conf
  <2>1. \A f \in Field : Merged(c)[f] \in {Default[g] : g \in Field} \cup UNION {{d[g] : g \in Field} : d \in Override}
    BY DEF Merged
  <2> QED BY <2>1 DEF Merged, Conf
<1>2. Whole(Merged(c))
  BY DefaultAssumption DEF Merged, Whole
<1> QED BY <1>1, <1>2, NoneAssumption

\* A look at a stored configuration, or at none, is what a Client may hold.
LEMMA LookType ==
  ASSUME NEW s \in Conf \cup {None}
  PROVE  Look(s) \in Client /\ (Look(s).pc = "done" => s # None /\ Look(s).conf = s)
BY DEF Look, Client

LEMMA InitEstablishes == Init => IInv
<1> SUFFICES ASSUME Init PROVE IInv
  OBVIOUS
<1>0. 1 \in 1..MaxStarts
  BY StartsAssumption
<1>1. TypeOK
  BY <1>0 DEF Init, TypeOK, Waiting, NotLoaded, Client
<1>2. LoadInv /\ FeInv /\ WholeInv
  BY DEF Init, LoadInv, FeInv, WholeInv, Waiting, NotLoaded
<1> QED BY <1>1, <1>2 DEF IInv

LEMMA StepKeeps ==
  ASSUME IInv, [Next]_vars
  PROVE  IInv'
<1> USE DEF IInv
<1>1. CASE UNCHANGED vars
  BY <1>1 DEF vars, be, fe, TypeOK, LoadInv, FeInv, WholeInv
<1>2. ASSUME NEW l \in Loader, NEW c \in Override, Load(l, c)
      PROVE  IInv'
  <2>1. store' \in Conf /\ Whole(store') /\ store' # None
    BY <1>2, MergedIsWhole DEF Load
  <2>2. TypeOK'
    BY <1>2, <2>1 DEF Load, TypeOK, fe
  <2>3. LoadInv'
    <3>1. CASE store = None
      BY <1>2, <2>1, <3>1 DEF Load, MayClose, TypeOK, LoadInv
    <3>2. CASE store # None
      BY <1>2, <2>1, <3>2 DEF Load, MayClose, TypeOK, LoadInv
    <3> QED BY <3>1, <3>2
  <2>4. FeInv' /\ WholeInv'
    BY <1>2, <2>1 DEF Load, FeInv, WholeInv, fe
  <2> QED BY <2>2, <2>3, <2>4
<1>3. ASSUME NEW l \in Loader, Close(l)
      PROVE  IInv'
  <2>1. closed = 0 /\ store # None
    BY <1>3 DEF Close, LoadInv
  <2>2. TypeOK'
    BY <1>3, <2>1 DEF Close, TypeOK, fe
  <2>3. LoadInv'
    BY <1>3, <2>1 DEF Close, TypeOK, LoadInv
  <2>4. FeInv' /\ WholeInv'
    BY <1>3 DEF Close, FeInv, WholeInv, fe
  <2> QED BY <2>2, <2>3, <2>4
<1>4. ASSUME NEW q \in Request, GetConfiguration(q)
      PROVE  IInv'
  <2>1. Look(store) \in Client /\ (Look(store).pc = "done" => store # None /\ Look(store).conf = store)
    BY LookType DEF TypeOK
  <2>2. TypeOK'
    BY <1>4, <2>1 DEF GetConfiguration, TypeOK, fe
  <2>3. WholeInv'
    BY <1>4, <2>1 DEF GetConfiguration, TypeOK, WholeInv, fe
  <2>4. LoadInv' /\ FeInv'
    BY <1>4 DEF GetConfiguration, LoadInv, FeInv, fe
  <2> QED BY <2>2, <2>3, <2>4
<1>5. ASSUME NEW q \in Request, WakeUp(q) \/ GiveUp(q)
      PROVE  IInv'
  <2>1. request[q] \in Client /\ request[q].pc = "wait"
    BY <1>5 DEF WakeUp, GiveUp, TypeOK
  <2>2. \E l \in {"get", "cancelled"} : request' = [request EXCEPT ![q].pc = l]
    BY <1>5 DEF WakeUp, GiveUp
  <2>3. [request[q] EXCEPT !.pc = "get"] \in Client /\ [request[q] EXCEPT !.pc = "cancelled"] \in Client
    BY <2>1 DEF Client
  <2>4. UNCHANGED <<starts, store, closed, loader, stream, fe>>
    BY <1>5 DEF WakeUp, GiveUp
  <2>5. TypeOK'
    BY <2>2, <2>3, <2>4 DEF TypeOK, fe
  <2>6. LoadInv' /\ FeInv' /\ WholeInv'
    BY <2>2, <2>4 DEF TypeOK, LoadInv, FeInv, WholeInv, fe
  <2> QED BY <2>5, <2>6
<1>6. CASE Restart
  <2>1. TypeOK'
    BY <1>6, StartsAssumption DEF Restart, TypeOK, Waiting, NotLoaded, Client, fe
  <2>2. LoadInv' /\ FeInv' /\ WholeInv'
    BY <1>6 DEF Restart, LoadInv, FeInv, WholeInv, Waiting, NotLoaded, fe
  <2> QED BY <2>1, <2>2
<1>7. CASE Receive
  <2>1. TypeOK'
    BY <1>7 DEF Receive, FeStored, TypeOK, be
  <2>2. LoadInv' /\ FeInv' /\ WholeInv'
    BY <1>7 DEF Receive, FeStored, TypeOK, LoadInv, FeInv, WholeInv, be
  <2> QED BY <2>1, <2>2
<1>8. CASE Break
  BY <1>8 DEF Break, TypeOK, LoadInv, FeInv, WholeInv, be, fe
<1>9. ASSUME NEW w \in FeRequest, FeGet(w)
      PROVE  IInv'
  <2>1. Look(feStore) \in Client /\ (Look(feStore).pc = "done" => feStore # None /\ Look(feStore).conf = feStore)
    BY LookType DEF TypeOK
  <2>2. TypeOK'
    BY <1>9, <2>1 DEF FeGet, TypeOK, be
  <2>3. WholeInv'
    BY <1>9, <2>1 DEF FeGet, TypeOK, WholeInv, be
  <2>4. LoadInv' /\ FeInv'
    BY <1>9 DEF FeGet, LoadInv, FeInv, be
  <2> QED BY <2>2, <2>3, <2>4
<1>10. ASSUME NEW w \in FeRequest, FeWakeUp(w) \/ FeGiveUp(w)
       PROVE  IInv'
  <2>1. feRequest[w] \in Client /\ feRequest[w].pc = "wait"
    BY <1>10 DEF FeWakeUp, FeGiveUp, TypeOK
  <2>2. \E l \in {"get", "cancelled"} : feRequest' = [feRequest EXCEPT ![w].pc = l]
    BY <1>10 DEF FeWakeUp, FeGiveUp
  <2>3. [feRequest[w] EXCEPT !.pc = "get"] \in Client /\ [feRequest[w] EXCEPT !.pc = "cancelled"] \in Client
    BY <2>1 DEF Client
  <2>4. UNCHANGED <<be, stream, feStore, feClosed>>
    BY <1>10 DEF FeWakeUp, FeGiveUp
  <2>5. TypeOK'
    BY <2>2, <2>3, <2>4 DEF TypeOK, be
  <2>6. LoadInv' /\ FeInv' /\ WholeInv'
    BY <2>2, <2>4 DEF TypeOK, LoadInv, FeInv, WholeInv, be
  <2> QED BY <2>5, <2>6
<1> QED
  BY <1>1, <1>2, <1>3, <1>4, <1>5, <1>6, <1>7, <1>8, <1>9, <1>10 DEF Next

LEMMA Inductive == Spec => []IInv
BY InitEstablishes, StepKeeps, PTL DEF Spec

\* The configurations, channels and requests of both servers stay well formed.
THEOREM TypeCorrect == Spec => []TypeOK
<1>1. IInv => TypeOK
  BY DEF IInv
<1> QED BY <1>1, Inductive, PTL

\* However many loads run at once, and whatever restarts or breaks, neither
\* _configLoading nor globalConfig.done is closed twice: no close panics.
THEOREM NeverClosedTwice == Spec => []ClosedOnce
<1>1. IInv => ClosedOnce
  BY DEF IInv, LoadInv, FeInv, ClosedOnce
<1> QED BY <1>1, Inductive, PTL

\* A request that is woken by a closed channel finds a configuration.
THEOREM WokenFindIt == Spec => []WakesToValue
<1>1. IInv => WakesToValue
  BY DEF IInv, LoadInv, FeInv, WakesToValue
<1> QED BY <1>1, Inductive, PTL

\* No request is given a configuration with a field that is not set.
THEOREM NoGaps == Spec => []FieldsSet
<1>1. IInv => FieldsSet
  BY DEF IInv, WholeInv, Whole, FieldsSet
<1> QED BY <1>1, Inductive, PTL
-----------------------------------------------------------------------------
(***************************************************************************)
(* The start and the end of the processes (Servers).                       *)
(*                                                                         *)
(* The front end starts when the backend listens, and serves over a        *)
(* channel that is open as long as the process is; the database is open    *)
(* exactly from OpenDb to the end of the backend.                          *)
(***************************************************************************)
CONSTANTS HttpRequest, Program, SiteName
VARIABLES errs, back, db, beready, front, channel, siteName, globalSiteName, watcher, ctx,
          httpRequest

Process == INSTANCE Servers WITH Request <- HttpRequest, request <- httpRequest

\* The database is open while the backend needs it, and no longer.
DbInv == /\ back = "open" => db = "none"
         /\ back \in {"setup", "listen", "serve"} => db = "open"
         /\ back = "send" => db # "open"

\* The front end comes after the backend, and its steps in their order.
StartInv == /\ beready => back \in {"serve", "send"}
            /\ front # "start" => beready
            /\ front \in {"start", "init", "listen"} => watcher = "none"
            /\ front = "serve" => watcher # "none"

\* There is a channel for whoever may use it.
ChannelInv ==
  /\ Process!Running /\ front \in {"listen", "serve"} => channel = "open"
  /\ front = "send" /\ watcher = "none" => channel # "open"
  /\ \A r \in HttpRequest : httpRequest[r] # "new" =>
       beready /\ (Process!Running => channel = "open")
  /\ front \in {"start", "init"} => \A r \in HttpRequest : httpRequest[r] = "new"

ProcessInv == /\ Process!TypeOK /\ DbInv /\ StartInv /\ ChannelInv
              /\ Process!CallsFindBackend

LEMMA ProcessInit == Process!ProgramAssumption /\ Process!Init => ProcessInv
<1> SUFFICES ASSUME Process!ProgramAssumption, Process!Init PROVE ProcessInv OBVIOUS
<1> USE DEF Process!ProgramAssumption, Process!Init
<1>1. Process!TypeOK BY DEF Process!TypeOK
<1>2. DbInv /\ StartInv BY DEF DbInv, StartInv
<1>3. ChannelInv /\ Process!CallsFindBackend BY DEF ChannelInv, Process!CallsFindBackend
<1> QED BY <1>1, <1>2, <1>3 DEF ProcessInv

LEMMA ProcessStep == ProcessInv /\ [Process!Next]_(Process!vars) => ProcessInv'
<1> SUFFICES ASSUME ProcessInv, [Process!Next]_(Process!vars) PROVE ProcessInv' OBVIOUS
<1> USE DEF ProcessInv, Process!TypeOK, DbInv, StartInv, ChannelInv, Process!CallsFindBackend,
            Process!Running
<1>1. CASE UNCHANGED Process!vars
  <2>1. /\ errs' = errs /\ back' = back /\ db' = db /\ beready' = beready /\ front' = front
        /\ channel' = channel /\ siteName' = siteName /\ globalSiteName' = globalSiteName
        /\ watcher' = watcher /\ ctx' = ctx /\ httpRequest' = httpRequest
    BY <1>1 DEF Process!vars, Process!beVars, Process!feVars
  <2>2. Process!TypeOK' BY <2>1
  <2>3. DbInv' /\ StartInv' BY <2>1
  <2>4. ChannelInv' /\ Process!CallsFindBackend' BY <2>1
  <2> QED BY <2>2, <2>3, <2>4 DEF ProcessInv
<1>2. ASSUME NEW ok \in BOOLEAN, Process!OpenDb(ok) PROVE ProcessInv'
  BY <1>2 DEF Process!OpenDb, Process!feVars, Process!AfterSetupFailure
<1>3. ASSUME NEW ok \in BOOLEAN, Process!Setup(ok) PROVE ProcessInv'
  BY <1>3 DEF Process!Setup, Process!feVars, Process!AfterSetupFailure, Process!DbAfterFailure
<1>4. ASSUME NEW ok \in BOOLEAN, Process!ListenBack(ok) PROVE ProcessInv'
  BY <1>4 DEF Process!ListenBack, Process!feVars, Process!DbAfterFailure
<1>5. CASE Process!ServeBackFails
  BY <1>5 DEF Process!ServeBackFails, Process!feVars, Process!DbAfterFailure
<1>6. CASE Process!RegisterAll
  BY <1>6 DEF Process!RegisterAll, Process!MayStart, Process!beVars
<1>7. ASSUME NEW ok \in BOOLEAN, Process!InitFront(ok) PROVE ProcessInv'
  BY <1>7 DEF Process!InitFront, Process!ChannelAfterFailure, Process!beVars
<1>8. ASSUME NEW ok \in BOOLEAN, Process!ListenFront(ok) PROVE ProcessInv'
  BY <1>8 DEF Process!ListenFront, Process!Watch, Process!beVars
<1>9. CASE Process!ServeFrontReturns
  BY <1>9 DEF Process!ServeFrontReturns, Process!beVars
<1>10. ASSUME NEW ok \in BOOLEAN, Process!Shutdown(ok) PROVE ProcessInv'
  BY <1>10 DEF Process!Shutdown, Process!beVars
<1>11. CASE Process!Cancel
  BY <1>11 DEF Process!Cancel, Process!beVars, Process!feVars
<1>12. CASE Process!Send
  <2> USE <1>12 DEF Process!Send, Process!beVars
  <2>1. Process!TypeOK' OBVIOUS
  <2>2. DbInv' /\ StartInv' OBVIOUS
  <2>3. ChannelInv' OBVIOUS
  <2>4. Process!CallsFindBackend' OBVIOUS
  <2> QED BY <2>1, <2>2, <2>3, <2>4 DEF ProcessInv
<1>13. ASSUME NEW r \in HttpRequest,
             Process!Accept(r) \/ Process!Call(r) \/ Process!Handle(r)
       PROVE ProcessInv'
  BY <1>13 DEF Process!Accept, Process!Call, Process!Handle, Process!beVars, Process!feVars
<1> QED
  BY <1>1, <1>2, <1>3, <1>4, <1>5, <1>6, <1>7, <1>8, <1>9, <1>10, <1>11, <1>12, <1>13
     DEF Process!Next

\* The process keeps the types of its parts, in both programs.
THEOREM ProcessTypes == Process!ProgramAssumption /\ Process!Spec => []Process!TypeOK
<1>1. ProcessInv => Process!TypeOK BY DEF ProcessInv
<1> QED BY <1>1, ProcessInit, ProcessStep, PTL DEF Process!Spec

\* Whichever step of the start fails, and in whatever order the goroutines run: no
\* request to a page meets a backend that does not listen yet; who fails has closed
\* the database, and the channel, if it has opened it (pixur.go, setup and
\* listenAndServe of be/server, Server.Init of fe/server).
THEOREM StartsInOrder ==
  Process!ProgramAssumption /\ Process!Spec =>
    [](Process!CallsFindBackend /\ Process!FailuresClose)
<1>1. ProcessInv => Process!CallsFindBackend /\ Process!FailuresClose
  BY DEF ProcessInv, DbInv, ChannelInv, Process!FailuresClose
<1> QED BY <1>1, ProcessInit, ProcessStep, PTL DEF Process!Spec
==============================================================================
