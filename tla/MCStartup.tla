----------------------------- MODULE MCStartup -----------------------------
(***************************************************************************)
(* Instances for TLC of what happens when servers start, of one part of it *)
(* at a time: SiteConfig with two fields, of which the operator may set    *)
(* the first, the process of pixur.go, or a front end of its own.          *)
(***************************************************************************)
EXTENDS SiteConfig

CONSTANTS f1, f2, HttpRequest

Defaults == [f \in Field |-> "default"]
Overrides == {[f \in Field |-> Unset],
              [f \in Field |-> IF f = f1 THEN "set" ELSE Unset]}

VARIABLES part, errs, back, db, beready, front, channel, siteName,
          globalSiteName, watcher, ctx, httpRequest

Pixur == INSTANCE Servers WITH Request <- HttpRequest, request <- httpRequest,
                               Program <- "pixur", SiteName <- "Gallery"
Fe    == INSTANCE Servers WITH Request <- HttpRequest, request <- httpRequest,
                               Program <- "fe", SiteName <- ""
ASSUME Pixur!ProgramAssumption /\ Fe!ProgramAssumption

servers == <<errs, back, db, beready, front, channel, siteName, globalSiteName,
             watcher, ctx, httpRequest>>

MCInit == /\ part \in {"config", "pixur", "fe"}
          /\ Init
          /\ IF part = "fe" THEN Fe!Init ELSE Pixur!Init

Config(action) == part = "config" /\ action /\ UNCHANGED servers
Server(ofPixur, ofFe) == /\ \/ part = "pixur" /\ ofPixur
                            \/ part = "fe" /\ ofFe
                         /\ UNCHANGED vars

MCNext == (Config(Next) \/ Server(Pixur!Next, Fe!Next)) /\ UNCHANGED part

\* The fairness of SiteConfig and of Servers, for the part that runs.
MCSpec ==
  /\ MCInit /\ [][MCNext]_<<part, vars, servers>>
  /\ \A l \in Loader : /\ WF_vars(Config(\E c \in Override : Load(l, c)))
                       /\ WF_vars(Config(Close(l)))
  /\ \A q \in Request : WF_vars(Config(GetConfiguration(q) \/ WakeUp(q)))
  /\ \A w \in FeRequest : WF_vars(Config(FeGet(w) \/ FeWakeUp(w)))
  /\ WF_vars(Config(Receive))
  /\ WF_servers(Server(Pixur!BackGoesOn, Fe!BackGoesOn))
  /\ WF_servers(Server(Pixur!FrontGoesOn, Fe!FrontGoesOn))
  /\ WF_servers(Server(Pixur!WatcherGoesOn, Fe!WatcherGoesOn))
  /\ WF_servers(Server(Pixur!ShutDownReturns, Fe!ShutDownReturns))
  /\ WF_servers(Server(Pixur!Send, Fe!Send))
  /\ \A r \in HttpRequest : WF_servers(Server(Pixur!RequestGoesOn(r), Fe!RequestGoesOn(r)))

\* Every request to the backend for its configuration ends, and every request
\* to a front end that once gets one.
ConfigRequestsEnd == part = "config" => RequestsEnd

\* Starting ends, whichever step of it fails: the pages are served, or the
\* process is over.  A front end whose context is done returns, even if that
\* was before it listened.
ServersStartAndEnd == /\ part # "config" => Pixur!StartsOrEnds
                      /\ part = "fe" => Fe!ServeReturns

\* A server that fails ends the process, and neither the requests before it
\* meet a backend that does not listen yet nor is the database left open.
FailuresEndTheProcess ==
  part = "pixur" => /\ [](Pixur!CallsFindBackend /\ Pixur!FailuresClose)
                    /\ Pixur!FailureEndsProcess
=============================================================================
