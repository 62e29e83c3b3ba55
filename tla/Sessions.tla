------------------------------ MODULE Sessions ------------------------------
(***************************************************************************)
(* Users and their tokens: authedJob, which every task begins with,        *)
(* AuthUserTask, UnauthUserTask, UpdateUserTask, CreateUserTask and        *)
(* LookupUserTask.                                                         *)
(*                                                                         *)
(* Transactions are serializable, so what a task reads and writes in one   *)
(* job is one step.  authedJob is several: a request of a user who was     *)
(* last seen long ago first writes the time in a job of its own, and a     *)
(* read-only one gives up its job and opens another to do so.  In between  *)
(* other requests change the user.                                         *)
(*                                                                         *)
(* The clocks of servers differ.  A request reads the clock once; no two   *)
(* requests read the same nanosecond (ClockAssumption).                    *)
(***************************************************************************)
EXTENDS Integers, FiniteSets

CONSTANTS User,        \* user ids
          Ident,       \* idents, as UserUniqueIdent makes them
          Request,     \* requests in flight
          Server,
          Lag,         \* Lag[s]: how far the clock of s is behind
          Tick,        \* time between two requests
          Threshold,   \* lastSeenUpdateThreshold, 24 hours
          maxUserTokens,
          CapOf,       \* Configuration: NewUserCapability
          AnonCap,     \* Configuration: AnonymousCapability
          Changes,     \* capability changes clients ask for: [set, clear]
          MaxClock,    \* bound on the time
          NoUser, None

Cap == {"USER_CREATE", "USER_UPDATE_CAPABILITY", "USER_READ_ALL",
        "USER_READ_SELF", "PIC_READ"}

CapAssumption ==
         /\ CapOf \subseteq Cap /\ AnonCap \subseteq Cap
         /\ Changes \subseteq [set : SUBSET Cap, clear : SUBSET Cap]
ClockAssumption ==
         /\ Tick \in Nat \ {0} /\ Lag \in [Server -> Nat] /\ MaxClock \in Nat
         /\ \A s1, s2 \in Server : s1 # s2 => (Lag[s1] - Lag[s2]) % Tick # 0
TokenAssumption == maxUserTokens \in Nat \ {0} /\ Threshold \in Nat
NoneAssumption == None \notin User /\ None \notin Ident

VARIABLES users,  \* the Users table
          clock,  \* the time of the day
          tokens, \* auth tokens handed out: [user, id]
          req,    \* what each request is doing
          view    \* view[r]: the user the client of r looked up, or None

vars == <<users, clock, tokens, req, view>>

Never == -1000000
Time == {Never} \cup Int
Token == [user : User, id : Nat]
\* A row of Users; ver is its modification time, in versions.
UserRow == [ident : Ident, tokens : SUBSET [id : Nat, seen : Int], next : Nat,
            seen : Time, ver : Int, caps : SUBSET Cap]
NoUserAssumption == NoUser \notin UserRow
NoToken == [user |-> None, id |-> 0]

Kind == {"lookup", "update", "unauth", "create"}
Outcome == {"none", "served", "refused", "rejected", "conflict",
            "unexpected"}
Readonly(k) == k = "lookup"

Known(u) == u \in User /\ users[u] # NoUser
Users == {u \in User : Known(u)}
Ids(u) == {t.id : t \in users[u].tokens}
Idle == [pc |-> "idle", kind |-> "lookup", tok |-> NoToken, now |-> 0,
         obj |-> None, ident |-> None, change |-> None, out |-> "none"]

Init == /\ users = [u \in User |-> NoUser]
        /\ clock = 0
        /\ tokens = {}
        /\ req = [r \in Request |-> Idle]
        /\ view = [r \in Request |-> None]

Now(s) == clock - Lag[s]
Ticks == clock + Tick <= MaxClock /\ clock' = clock + Tick

End(r, o) == req' = [req EXCEPT ![r].pc = "idle", ![r].out = o]
Goto(r, l) == req' = [req EXCEPT ![r].pc = l]

-----------------------------------------------------------------------------
\* A request comes with a token it was given, or with none.  An update is
\* about the user the client looked up before.
Begin(r, s, k, t) ==
  /\ req[r].pc = "idle"
  /\ Ticks
  /\ t \in tokens \cup {NoToken}
  /\ k = "unauth" => t # NoToken
  /\ \E o \in Users \cup {None}, i \in Ident, c \in Changes :
       /\ k = "update" => view[r] # None /\ o = view[r].user
       /\ k = "lookup" => o # None \/ t # NoToken
       /\ k \in {"unauth", "create"} => o = None
       /\ req' = [req EXCEPT ![r] =
                   [pc |-> "auth", kind |-> k, tok |-> t, now |-> Now(s), out |-> "none",
                    obj |-> IF o = None THEN t.user ELSE o,
                    ident |-> IF k = "create" THEN i ELSE None,
                    change |-> IF k = "update" THEN c ELSE None]]
  /\ UNCHANGED <<users, tokens, view>>

\* validateAndUpdateUserAndToken.
Live(r) == LET t == req[r].tok IN Known(t.user) /\ t.id \in Ids(t.user)
Old(r, t) == t # Never /\ t < req[r].now - Threshold
Stale(r) == LET u == users[req[r].tok.user] IN
              \/ Old(r, u.seen)
              \/ \E t \in u.tokens : t.id = req[r].tok.id /\ Old(r, t.seen)

Seen(r, u) ==
  [u EXCEPT !.ver = req[r].now,
            !.seen = IF Old(r, u.seen) THEN req[r].now ELSE u.seen,
            !.tokens = {IF t.id = req[r].tok.id /\ Old(r, t.seen)
                        THEN [t EXCEPT !.seen = req[r].now] ELSE t : t \in u.tokens}]

\* The token is gone, or its user.
Refuse(r) ==
  /\ req[r].pc \in {"auth", "upgrade"} /\ req[r].tok # NoToken /\ ~Live(r)
  /\ End(r, "refused")
  /\ UNCHANGED <<users, clock, tokens, view>>

WriteSeen(r) ==
  LET u == req[r].tok.user IN
    /\ req[r].tok # NoToken /\ Live(r) /\ Stale(r)
    /\ users' = [users EXCEPT ![u] = Seen(r, users[u])]
    /\ Goto(r, "auth")
    /\ UNCHANGED <<clock, tokens, view>>

\* A job that may write reads the user again with a lock and updates it; then
\* authedJob starts again with a new job.
UpdateSeen(r) == req[r].pc = "auth" /\ ~Readonly(req[r].kind) /\ WriteSeen(r)

\* A read-only job is rolled back ...
GiveUpReadonly(r) ==
  /\ req[r].pc = "auth" /\ Readonly(req[r].kind)
  /\ req[r].tok # NoToken /\ Live(r) /\ Stale(r)
  /\ Goto(r, "upgrade")
  /\ UNCHANGED <<users, clock, tokens, view>>

\* ... and another one opened for the update,
Upgrade(r) == req[r].pc = "upgrade" /\ WriteSeen(r)

\* unless another request has updated the user meanwhile.
UpgradeUnexpected(r) ==
  /\ req[r].pc = "upgrade" /\ Live(r) /\ ~Stale(r)
  /\ End(r, "unexpected")
  /\ UNCHANGED <<users, clock, tokens, view>>

\* The user's job is opened: what the task does next is in the same job.
MayServe(r, k) ==
  /\ req[r].pc = "auth" /\ req[r].kind = k
  /\ req[r].tok = NoToken \/ (Live(r) /\ ~Stale(r))

Caps(r) == IF req[r].tok = NoToken THEN AnonCap ELSE users[req[r].tok.user].caps

-----------------------------------------------------------------------------
\* LookupUserTask.  The client keeps the version and the capabilities.

MayLookup(r) == \/ "USER_READ_ALL" \in Caps(r)
                \/ req[r].obj = req[r].tok.user /\ "USER_READ_SELF" \in Caps(r)

LookupUser(r) ==
  /\ MayServe(r, "lookup")
  /\ IF MayLookup(r)
     THEN /\ view' = [view EXCEPT ![r] = [user |-> req[r].obj,
                                          ver  |-> users[req[r].obj].ver,
                                          caps |-> users[req[r].obj].caps]]
          /\ End(r, "served")
     ELSE End(r, "rejected") /\ UNCHANGED view
  /\ UNCHANGED <<users, clock, tokens>>

-----------------------------------------------------------------------------
\* UpdateUserTask.  The version is the one the client saw.

\* Broken: the version of the user is not compared with the client's.
VersionUnchecked(r) == TRUE
VersionMatches(r) == users[req[r].obj].ver = view[r].ver

MayChange(r) ==
  /\ VersionMatches(r)
  /\ "USER_UPDATE_CAPABILITY" \in Caps(r)
  /\ req[r].change.set \cap req[r].change.clear = {}

Changed(r) == (users[req[r].obj].caps \cup req[r].change.set) \ req[r].change.clear

UpdateUser(r) ==
  LET o == req[r].obj IN
    /\ MayServe(r, "update")
    /\ IF MayChange(r)
       THEN /\ End(r, "served")
            /\ users' = IF Changed(r) = users[o].caps THEN users
                        ELSE [users EXCEPT ![o].caps = Changed(r), ![o].ver = req[r].now]
       ELSE End(r, "rejected") /\ UNCHANGED users
    /\ UNCHANGED <<clock, tokens, view>>

-----------------------------------------------------------------------------
\* UnauthUserTask: handleDeleteToken gives it the token of the request.

UnauthUser(r) ==
  LET t == req[r].tok IN
    /\ MayServe(r, "unauth")
    /\ users' = [users EXCEPT ![t.user].tokens = {x \in @ : x.id # t.id},
                              ![t.user].seen = req[r].now, ![t.user].ver = req[r].now]
    /\ End(r, "served")
    /\ UNCHANGED <<clock, tokens, view>>

-----------------------------------------------------------------------------
\* AuthUserTask.  handleGetRefreshToken sends no user in the context, so the
\* task authenticates nobody but the one who logs in.

NextTokenId(u) == u.next + 1

\* The tokens are sorted by the time they were last seen, and the oldest go;
\* sort.Sort leaves open which of two equally old ones does.
Evicted(S) == {K \in SUBSET S : /\ Cardinality(K) = maxUserTokens
                                /\ \A a \in K, b \in S \ K : a.seen >= b.seen}
Kept(S) == IF Cardinality(S) <= maxUserTokens THEN {S} ELSE Evicted(S)

\* Broken: a new token is handed out though it did not survive the cut.
StillValidAlways(K, id) == TRUE
StillValid(K, id) == \E t \in K : t.id = id

\* User u keeps the tokens K and gets the one with this id.
Issue(u, K, id, next, now) ==
  /\ StillValid(K, id)
  /\ users' = [users EXCEPT ![u].tokens = K, ![u].next = next,
                            ![u].seen = now, ![u].ver = now]
  /\ tokens' = tokens \cup {[user |-> u, id |-> id]}
  /\ Ticks
  /\ UNCHANGED <<req, view>>

\* With ident and secret.
Login(s, u) ==
  /\ Known(u)
  /\ LET id == NextTokenId(users[u])
         new == [id |-> id, seen |-> Now(s)]
     IN \E K \in Kept(users[u].tokens \cup {new}) : Issue(u, K, id, id, Now(s))

\* With an earlier token, which is the one the user gets back.
Refresh(s, t) ==
  /\ t \in tokens /\ Known(t.user) /\ t.id \in Ids(t.user)
  /\ LET old == {x \in users[t.user].tokens : x.id = t.id}
         S == (users[t.user].tokens \ old) \cup {[id |-> t.id, seen |-> Now(s)]}
     IN \E K \in Kept(S) : Issue(t.user, K, t.id, users[t.user].next, Now(s))

-----------------------------------------------------------------------------
\* CreateUserTask looks for the ident without a lock; the unique key of Users
\* on the ident has the last word.

IdentTaken(i) == \E u \in Users : users[u].ident = i

CreateFind(r) ==
  /\ MayServe(r, "create")
  /\ IF "USER_CREATE" \in Caps(r) /\ ~IdentTaken(req[r].ident)
     THEN Goto(r, "insert") ELSE End(r, "rejected")
  /\ UNCHANGED <<users, clock, tokens, view>>

\* Broken: Users has no unique key on the ident.
InsertableAlways(i) == TRUE
Insertable(i) == ~IdentTaken(i)

CreateInsert(r) ==
  /\ req[r].pc = "insert"
  /\ IF Insertable(req[r].ident)
     THEN /\ \E u \in User \ Users :
               users' = [users EXCEPT ![u] =
                          [ident |-> req[r].ident, tokens |-> {}, next |-> 0,
                           seen |-> Never, ver |-> req[r].now, caps |-> CapOf]]
          /\ End(r, "served")
     ELSE End(r, "conflict") /\ UNCHANGED users
  /\ UNCHANGED <<clock, tokens, view>>

-----------------------------------------------------------------------------
Step(r) == \/ Refuse(r) \/ UpdateSeen(r) \/ GiveUpReadonly(r) \/ Upgrade(r)
           \/ UpgradeUnexpected(r) \/ LookupUser(r) \/ UpdateUser(r)
           \/ UnauthUser(r) \/ CreateFind(r) \/ CreateInsert(r)

Next == \/ \E r \in Request : Step(r)
        \/ \E r \in Request, s \in Server, k \in Kind, t \in tokens \cup {NoToken} :
             Begin(r, s, k, t)
        \/ \E s \in Server : \/ \E u \in User : Login(s, u)
                             \/ \E t \in tokens : Refresh(s, t)

Spec == Init /\ [][Next]_vars

\* A task that runs goes on: every call it makes returns.
Fairness == \A r \in Request : WF_vars(Step(r))
FairSpec == Spec /\ Fairness

-----------------------------------------------------------------------------
\* Properties.

TypeOK ==
  /\ users \in [User -> {NoUser} \cup UserRow]
  /\ \A u \in Users : Cardinality(users[u].tokens) <= maxUserTokens
  /\ clock \in 0..MaxClock
  /\ tokens \subseteq Token
  /\ req \in [Request ->
        [pc : {"idle", "auth", "upgrade", "insert"}, kind : Kind,
         tok : Token \cup {NoToken}, now : Int, out : Outcome,
         obj : User \cup {None}, ident : Ident \cup {None}, change : Changes \cup {None}]]
  /\ view \in [Request -> {None} \cup [user : User, ver : Int, caps : SUBSET Cap]]

\* The tokens of a user have different ids, all of them given out to somebody
\* and none above NextTokenId: whatever logins, refreshes, logouts and looks
\* at the time come in between.
TokenIdsDiffer ==
  \A u \in Users :
    /\ Cardinality(Ids(u)) = Cardinality(users[u].tokens)
    /\ Ids(u) \subseteq 1..users[u].next
    /\ \A id \in Ids(u) : [user |-> u, id |-> id] \in tokens

\* A token that was evicted or deleted never works again: no later login gets
\* its id (NextTokenId is kept with the user, not computed from the tokens).
StayDead == \A t \in tokens : t.id \notin Ids(t.user) => t.id \notin Ids(t.user)'

Serves(r) == req[r].pc = "auth" /\ req'[r].out = "served" /\ req'[r].pc = "idle"

\* No request is served for a token that is gone when the job it is served in
\* begins, however long ago the request was let in.
ServedAreLive == \A r \in Request : Serves(r) /\ req[r].tok # NoToken => Live(r)

\* A token that is handed out is one of the user's, even where the clock of
\* another server made all the older tokens look newer.
IssuedAreKept == \A t \in tokens' \ tokens : Known(t.user)' /\ t.id \in Ids(t.user)'

\* What becomes of a token, in one.
TokensLiveOnce == StayDead /\ IssuedAreKept /\ ServedAreLive

\* Nobody's capabilities are changed on the strength of a stale look at them:
\* the version that UpdateUserTask compares moves with every change.  So it is
\* with one clock, where users have one token each and change only themselves.
\* In general it is not, for a request has one time for all that it writes: one
\* that writes the time it was seen, and later takes its token away, gives the
\* row the same version twice, and a client that looked in between, and changed
\* the user in between as well, passes the check once more.
UpdatesWhatWasSeen ==
  \A r \in Request : Serves(r) /\ req[r].kind = "update" =>
    users[req[r].obj].caps = view[r].caps

\* Two users never have the same ident, though CreateUserTask looks for it
\* without a lock.
IdentsDiffer ==
  \A u, v \in Users : u # v => users[u].ident # users[v].ident

\* Both kinds of names differ.
IdsDiffer == IdentsDiffer /\ TokenIdsDiffer

\* The comment in authedJobInternal: an upgraded job never finds that the
\* time needs no update ("I don't think this is technically possible").
UpgradeFindsItStale == \A r \in Request : req[r].out # "unexpected"

\* authedJob's loop ends: the time that was written makes the next look pass.
RequestsEnd == \A r \in Request : req[r].pc # "idle" ~> req[r].pc = "idle"
==============================================================================
