------------------------------ MODULE Servers ------------------------------
(***************************************************************************)
(* The start and the end of the servers.  Program "pixur" is pixur.go: one *)
(* process with a goroutine for the backend (be/server/pixur.go) and one   *)
(* for the front end (fe/server/server.go), which ends with the first      *)
(* error that either sends on errs.  Program "fe" is a front end of its    *)
(* own, whose context the one who embeds it may cancel, as TestWorkFlow    *)
(* does; its backend is always there.                                      *)
(*                                                                         *)
(* Any step that can fail may: opening the database, the checks of the     *)
(* directory and the keys, dialing, a registrant, listening, serving.      *)
(***************************************************************************)
EXTENDS Naturals

CONSTANTS Request,   \* HTTP requests to the front end
          Program,   \* "pixur" or "fe"
          SiteName   \* Config.site_name; "" when it is not set

ProgramAssumption == Program \in {"pixur", "fe"}

VARIABLES errs,            \* what main does: "wait", or whose error ended it
          back,            \* the backend's goroutine
          db,              \* the database connection
          beready,         \* a closed channel?
          front,           \* the front end's goroutine
          channel,         \* its connection to the backend
          siteName,        \* Server.SiteName
          globalSiteName,  \* what the pages show
          watcher,         \* the goroutine that waits for ctx
          ctx,             \* "live", or "done"
          request

beVars == <<back, db, beready>>
feVars == <<front, channel, siteName, globalSiteName, watcher>>
vars == <<errs, beVars, feVars, ctx, request>>

Init == /\ errs = "wait"
        /\ back = IF Program = "pixur" THEN "open" ELSE "serve"
        /\ db = IF Program = "pixur" THEN "none" ELSE "open"
        /\ beready = (Program = "fe")
        /\ front = "start" /\ channel = "none"
        /\ siteName = "" /\ globalSiteName = ""
        /\ watcher = "none" /\ ctx = "live"
        /\ request = [r \in Request |-> "new"]

\* log.Fatal ends every goroutine at once.
Running == errs = "wait"

-----------------------------------------------------------------------------
\* The backend.

AfterSetupFailure == "send"

DbAfterFailure(d) == IF d = "open" THEN "closed" ELSE d

\* setup: open the database, then the checks, with db.Close deferred.
OpenDb(ok) ==
  /\ Running /\ back = "open"
  /\ IF ok THEN back' = "setup" /\ db' = "open"
           ELSE back' = AfterSetupFailure /\ db' = db
  /\ UNCHANGED <<errs, beready, feVars, ctx, request>>

Setup(ok) ==
  /\ Running /\ back = "setup"
  /\ IF ok THEN back' = "listen" /\ db' = db
           ELSE back' = AfterSetupFailure /\ db' = DbAfterFailure(db)
  /\ UNCHANGED <<errs, beready, feVars, ctx, request>>

\* listenAndServe; its defers close the listener and the database.
ListenBack(ok) ==
  /\ Running /\ back = "listen"
  /\ IF ok THEN back' = "serve" /\ beready' = TRUE /\ db' = db
           ELSE back' = "send" /\ beready' = beready /\ db' = DbAfterFailure(db)
  /\ UNCHANGED <<errs, feVars, ctx, request>>

ServeBackFails ==
  /\ Running /\ Program = "pixur" /\ back = "serve"
  /\ back' = "send" /\ db' = DbAfterFailure(db)
  /\ UNCHANGED <<errs, beready, feVars, ctx, request>>

-----------------------------------------------------------------------------
\* The front end.

\* Broken: the front end does not wait for the backend.
MayStartAtOnce == TRUE
MayStart == beready

\* RegisterAll; Init comes after it, so s.SiteName is still "".
RegisterAll ==
  /\ Running /\ front = "start" /\ MayStart
  /\ globalSiteName' = IF siteName = "" THEN "Pixur" ELSE siteName
  /\ front' = "init"
  /\ UNCHANGED <<errs, beVars, channel, siteName, watcher, ctx, request>>

ChannelAfterFailure == "closed"

\* Server.Init: a bad spec dials nothing, a bad root or a failing registrant
\* closes what was dialed.
InitFront(ok) ==
  /\ Running /\ front = "init"
  /\ siteName' = SiteName
  /\ \/ ok /\ channel' = "open" /\ front' = "listen"
     \/ ~ok /\ channel' \in {"none", ChannelAfterFailure} /\ front' = "send"
  /\ UNCHANGED <<errs, beVars, globalSiteName, watcher, ctx, request>>

\* Broken: the goroutine that watches the context is started by nobody.
WatchNothing == "none"
Watch == "wait"

\* ListenAndServe.
ListenFront(ok) ==
  /\ Running /\ front = "listen"
  /\ watcher' = Watch
  /\ front' = IF ok THEN "serve" ELSE "send"
  /\ UNCHANGED <<errs, beVars, channel, siteName, globalSiteName, ctx, request>>

\* hs.Serve never returns nil: <-watcher is not reached.
ServeFrontReturns ==
  /\ Running /\ front = "serve"
  /\ front' = "send"
  /\ UNCHANGED <<errs, beVars, channel, siteName, globalSiteName, watcher, ctx, request>>

\* The watcher: hs.Shutdown closes the listener, also one that is opened
\* later.  An error in that is sent to a channel that nobody reads.
Shutdown(ok) ==
  /\ Running /\ watcher = "wait" /\ ctx = "done"
  /\ watcher' = IF ok THEN "done" ELSE "stuck"
  /\ UNCHANGED <<errs, beVars, front, channel, siteName, globalSiteName, ctx, request>>

\* What Serve does once the listener is closed.
ShutDownReturns ==
  /\ watcher \in {"done", "stuck"}
  /\ ServeFrontReturns

Cancel ==
  /\ Running /\ Program = "fe" /\ ctx = "live"
  /\ ctx' = "done"
  /\ UNCHANGED <<errs, beVars, feVars, request>>

\* main takes one error and ends; the embedder's call returns, and its
\* deferred Server.Shutdown closes the channel.
Send ==
  /\ Running
  /\ \/ back = "send" /\ errs' = "back" /\ channel' = channel
     \/ /\ front = "send" /\ errs' = "front"
        /\ channel' = IF Program = "fe" /\ channel = "open" THEN "closed" ELSE channel
  /\ UNCHANGED <<beVars, front, siteName, globalSiteName, watcher, ctx, request>>

-----------------------------------------------------------------------------
\* A page: the front end calls the backend, which uses its database.

Accept(r) ==
  /\ Running /\ request[r] = "new" /\ front = "serve" /\ watcher \notin {"done", "stuck"}
  /\ request' = [request EXCEPT ![r] = "call"]
  /\ UNCHANGED <<errs, beVars, feVars, ctx>>

Call(r) ==
  /\ Running /\ request[r] = "call"
  /\ request' = [request EXCEPT ![r] =
       IF back = "serve" /\ channel = "open" THEN "handle" ELSE "unavailable"]
  /\ UNCHANGED <<errs, beVars, feVars, ctx>>

Handle(r) ==
  /\ Running /\ request[r] = "handle"
  /\ request' = [request EXCEPT ![r] =
       IF db = "open" /\ back = "serve" THEN "answered" ELSE "unavailable"]
  /\ UNCHANGED <<errs, beVars, feVars, ctx>>

-----------------------------------------------------------------------------
Next == \/ \E ok \in BOOLEAN : \/ OpenDb(ok) \/ Setup(ok) \/ ListenBack(ok)
                               \/ InitFront(ok) \/ ListenFront(ok) \/ Shutdown(ok)
        \/ ServeBackFails \/ RegisterAll \/ ServeFrontReturns \/ Cancel \/ Send
        \/ \E r \in Request : Accept(r) \/ Call(r) \/ Handle(r)

Spec == Init /\ [][Next]_vars

\* Goroutines go on.  Serving need not fail, but it ends after a shutdown.
BackGoesOn == \E ok \in BOOLEAN : OpenDb(ok) \/ Setup(ok) \/ ListenBack(ok)
FrontGoesOn == RegisterAll \/ \E ok \in BOOLEAN : InitFront(ok) \/ ListenFront(ok)
WatcherGoesOn == \E ok \in BOOLEAN : Shutdown(ok)
RequestGoesOn(r) == Call(r) \/ Handle(r)
Fairness ==
  /\ WF_vars(BackGoesOn) /\ WF_vars(FrontGoesOn)
  /\ WF_vars(WatcherGoesOn) /\ WF_vars(ShutDownReturns) /\ WF_vars(Send)
  /\ \A r \in Request : WF_vars(RequestGoesOn(r))
FairSpec == Spec /\ Fairness

-----------------------------------------------------------------------------
\* Properties.

TypeOK ==
  /\ errs \in {"wait", "back", "front"}
  /\ back \in {"open", "setup", "listen", "serve", "send"}
  /\ db \in {"none", "open", "closed"} /\ channel \in {"none", "open", "closed"}
  /\ beready \in BOOLEAN
  /\ front \in {"start", "init", "listen", "serve", "send"}
  /\ siteName \in {"", SiteName} /\ globalSiteName \in {"", "Pixur", SiteName}
  /\ watcher \in {"none", "wait", "done", "stuck"} /\ ctx \in {"live", "done"}
  /\ request \in [Request -> {"new", "call", "handle", "answered", "unavailable"}]

\* pixur.go starts the front end when the backend listens: no request meets
\* an unavailable backend before the backend has failed.
CallsFindBackend == \A r \in Request : request[r] = "unavailable" => back = "send"

\* Whichever of setup and listenAndServe fails, the database was closed if it
\* was opened, and a front end that failed to start has closed its channel.
FailuresClose == /\ back = "send" => db # "open"
                 /\ front = "send" /\ watcher = "none" => channel # "open"

\* pixur.go: a server that fails, before or after the front end has begun to
\* wait for the backend, ends the process.
FailureEndsProcess == /\ back \notin {"open", "setup", "listen", "serve"} ~> errs # "wait"
                      /\ front = "send" ~> errs # "wait"

\* Starting ends: the pages are served, or the process is over.
StartsOrEnds == <>(front = "serve" \/ errs # "wait")

\* ListenAndServe of the front end returns once its context is done, even if
\* that was before it listened.
ServeReturns == ctx = "done" ~> errs # "wait"

=============================================================================
