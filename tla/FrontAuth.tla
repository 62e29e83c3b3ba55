----------------------------- MODULE FrontAuth -----------------------------
(***************************************************************************)
(* One browser, with several tabs, at the front end: the cookies that      *)
(* readHandler, actionHandler and loginActionHandler read and set, and the *)
(* calls they make to the back end (GetRefreshToken, DeleteToken).         *)
(*                                                                         *)
(* A request carries the cookies the browser has when it sends it; the     *)
(* cookies it sets arrive with the answer.  In between other tabs send     *)
(* requests and get answers, an answer may be lost, and time passes.       *)
(*                                                                         *)
(* External: the browser, which keeps a cookie until its Expires time.     *)
(***************************************************************************)
EXTENDS Integers, FiniteSets

CONSTANTS Tab, User,
          Reader,    \* users who have PIC_READ
          Kinds,     \* the requests that tabs send
          Lossy,     \* whether answers get lost
          HourStep,  \* how far the clock goes at once, in hours
          MaxClock, MaxXsrf, MaxTokenId, \* bounds
          None

Kind == {"page", "login", "refresh", "logout", "create"}
KindAssumption == Kinds \subseteq Kind /\ Reader \subseteq User
BoundAssumption ==
  {HourStep, MaxClock, MaxXsrf, MaxTokenId} \subseteq Nat /\ Lossy \in BOOLEAN

\* Hours.
authPwtDuration == 365 * 15
authPwtSoftDuration == 24

CookieName == {"at", "st", "pt", "xsrf"}

VARIABLES clock,
          jar,    \* the browser's cookies: jar[n] = [value, exp], or None
          page,   \* page[t]: the xsrf field of the forms that t shows, or None
          req,    \* the request of each tab
          live,   \* live[u]: ids of u's tokens in the Users table
          nextId, \* nextId[u]: User.next_token_id
          made,   \* xsrf tokens made so far
          gone,   \* xsrf tokens that an answer has destroyed (history)
          stale   \* tabs with a request or page from before the last xsrf cookie (history)

vars == <<clock, jar, page, req, live, nextId, made, gone, stale>>

AuthToken == [user : User, id : 1..MaxTokenId, exp : Nat]
Xsrf == 1..MaxXsrf
Cookie(n) == [value : CASE n = "at" -> AuthToken [] n = "st" -> {"st"}
                        [] n = "pt" -> User [] OTHER -> Xsrf,
              exp : Nat]
NoneAssumption == \A n \in CookieName : None \notin Cookie(n)

Empty == [n \in CookieName |-> None]
Idle == [pc |-> "idle", kind |-> "page", user |-> None, sent |-> Empty,
         field |-> None, sets |-> <<>>, shows |-> None, ok |-> FALSE]

Init ==
  /\ clock = 0 /\ made = 0 /\ gone = {} /\ stale = {}
  /\ jar = Empty
  /\ page = [t \in Tab |-> None]
  /\ req = [t \in Tab |-> Idle]
  /\ live = [u \in User |-> {}]
  /\ nextId = [u \in User |-> 0]

\* pwtCoder.decode, of a token that this server signed: it is not expired.
\* (now is never before NotBefore, a minute before the token was made.)
Decodes(tok) == clock <= tok.exp

\* checkXsrfTokens(cookie, field), after incomingXsrfTokensFromReq.
XsrfMatch(r) == r.sent["xsrf"] # None /\ r.field = r.sent["xsrf"].value

---------------------------------------------------------------------------
\* The browser sends a request for a page, or posts a form of the tab's page.
\* Login and create name a user, refresh is a login without an ident.

Send(t, k, u) ==
  /\ req[t].pc = "idle"
  /\ k # "page" => page[t] # None
  /\ (u # None) <=> (k \in {"login", "create"})
  /\ req' = [req EXCEPT ![t] =
       [Idle EXCEPT !.pc = "sent", !.kind = k, !.user = u, !.sent = jar,
                    !.field = IF k = "page" THEN None ELSE page[t]]]
  /\ stale' = stale \ {t}
  /\ UNCHANGED <<clock, jar, page, live, nextId, made, gone>>

---------------------------------------------------------------------------
\* The front end.

Answer(t, sets, shows, ok) ==
  req' = [req EXCEPT ![t].pc = "answered", ![t].sets = sets,
                     ![t].shows = shows, ![t].ok = ok]

\* newXsrfToken and newXsrfCookie.
xsrfTokenLifetime == 24 * 365 * 10

newXsrfCookie(x) == [value |-> x, exp |-> clock + xsrfTokenLifetime]

\* readHandler: the forms of the page have the token of the xsrf cookie; a
\* browser without one gets a new one.
Read(t) ==
  LET c == req[t].sent["xsrf"] IN
  /\ req[t].pc = "sent" /\ req[t].kind = "page"
  /\ \/ /\ c # None
        /\ Answer(t, <<>>, c.value, TRUE)
        /\ UNCHANGED made
     \/ /\ c = None /\ made < MaxXsrf
        /\ made' = made + 1
        /\ Answer(t, [n \in {"xsrf"} |-> newXsrfCookie(made')], made', TRUE)
  /\ UNCHANGED <<clock, jar, page, live, nextId, gone, stale>>

\* actionHandler refuses a form whose token is not the cookie's; it shows no
\* form (httpError).
Refuse(t) ==
  /\ req[t].pc = "sent" /\ req[t].kind # "page"
  /\ ~XsrfMatch(req[t])
  /\ Answer(t, <<>>, None, FALSE)
  /\ UNCHANGED <<clock, jar, page, live, nextId, made, gone, stale>>

Accepted(t, ks) ==
  req[t].pc = "sent" /\ req[t].kind \in ks /\ XsrfMatch(req[t])

\* The cookie for the picture token of handleGetRefreshToken.
PixToken(u) == IF u \in Reader THEN {"pt"} ELSE {}

\* handleGetRefreshToken and AuthUserTask on success, and refresh0: cookies
\* for the token, and for pictures if the user may read them.
refresh0(tok) ==
  [n \in {"at", "st", "xsrf"} \cup PixToken(tok.user) |->
     CASE n = "at" -> [value |-> tok, exp |-> tok.exp]
       [] n = "st" -> [value |-> "st", exp |-> clock + authPwtSoftDuration]
       [] n = "pt" -> [value |-> tok.user, exp |-> tok.exp]
       [] n = "xsrf" -> None]

\* A previous token that cannot be decoded fails the request, even one with
\* an ident and a secret.
PreviousOK(r) == r.sent["at"] # None => Decodes(r.sent["at"].value)

\* login with an ident: a new token.  createUserHandler has made the user.
Login(t) ==
  LET u == req[t].user IN
  /\ Accepted(t, {"login", "create"})
  /\ PreviousOK(req[t]) /\ nextId[u] < MaxTokenId
  /\ nextId' = [nextId EXCEPT ![u] = @ + 1]
  /\ live' = [live EXCEPT ![u] = @ \cup {nextId'[u]}]
  /\ Answer(t, refresh0([user |-> u, id |-> nextId'[u],
                         exp |-> clock + authPwtDuration]), None, TRUE)
  /\ UNCHANGED <<clock, jar, page, made, gone, stale>>

\* login without one: the previous token, with a new expiry.
Refresh(t) ==
  /\ Accepted(t, {"refresh"})
  /\ req[t].sent["at"] # None /\ PreviousOK(req[t])
  /\ LET tok == req[t].sent["at"].value IN
     /\ tok.id \in live[tok.user]
     /\ Answer(t, refresh0([tok EXCEPT !.exp = clock + authPwtDuration]),
               None, TRUE)
  /\ UNCHANGED <<clock, jar, page, live, nextId, made, gone, stale>>

\* login, or CreateUser, fails: the login page, with the token that came in.
LoginFails(t) ==
  /\ Accepted(t, {"login", "create", "refresh"})
  /\ Answer(t, <<>>, req[t].field, FALSE)
  /\ UNCHANGED <<clock, jar, page, live, nextId, made, gone, stale>>

\* Broken: a logout leaves the soft cookie.
DestroyedButSoft == [n \in CookieName \ {"st"} |-> None]

\* logout: destroys every cookie, then deletes the token; when that fails,
\* the answer is the login page with the token that came in.
Destroyed == [n \in CookieName |-> None]

\* What the back end takes as the token of a call.
decodeAuthToken(c) == c # None /\ Decodes(c.value)

Logout(t) ==
  LET c == req[t].sent["at"] IN
  /\ Accepted(t, {"logout"})
  /\ \/ /\ decodeAuthToken(c)
        /\ c.value.id \in live[c.value.user]
        /\ live' = [live EXCEPT ![c.value.user] = @ \ {c.value.id}]
        /\ Answer(t, Destroyed, None, TRUE)
     \/ /\ UNCHANGED live
        /\ Answer(t, Destroyed, req[t].field, FALSE)
  /\ UNCHANGED <<clock, jar, page, nextId, made, gone, stale>>

---------------------------------------------------------------------------
\* The answer arrives: the browser does what its Set-Cookie headers say.
\* Tabs that sent their requests before it set the xsrf cookie are stale.

Unexpired(c, now) == IF c # None /\ c.exp < now THEN None ELSE c

Receive(t) ==
  LET r == req[t] IN
  /\ r.pc = "answered"
  /\ jar' = [n \in CookieName |->
               IF n \in DOMAIN r.sets THEN Unexpired(r.sets[n], clock) ELSE jar[n]]
  /\ page' = [page EXCEPT ![t] = r.shows]
  /\ gone' = IF "xsrf" \in DOMAIN r.sets /\ r.sets["xsrf"] = None
             THEN gone \cup (IF jar["xsrf"] = None THEN {}
                             ELSE {jar["xsrf"].value}) ELSE gone
  /\ stale' = IF "xsrf" \notin DOMAIN r.sets THEN stale
              ELSE IF r.kind = "logout" THEN Tab ELSE stale \cup (Tab \ {t})
  /\ req' = [req EXCEPT ![t] = Idle]
  /\ UNCHANGED <<clock, live, nextId, made>>

\* Or it does not: the tab shows nothing.
Lose(t) ==
  /\ Lossy /\ req[t].pc # "idle"
  /\ req' = [req EXCEPT ![t] = Idle]
  /\ page' = [page EXCEPT ![t] = None]
  /\ UNCHANGED <<clock, jar, live, nextId, made, gone, stale>>

\* Time passes; expired cookies go.
Tick ==
  /\ clock + HourStep <= MaxClock
  /\ clock' = clock + HourStep
  /\ jar' = [n \in CookieName |-> Unexpired(jar[n], clock')]
  /\ UNCHANGED <<page, req, live, nextId, made, gone, stale>>

Serve(t) == \/ Read(t) \/ Refuse(t) \/ Login(t) \/ Refresh(t)
            \/ LoginFails(t) \/ Logout(t)

Next == \/ \E t \in Tab : \/ \E k \in Kinds, u \in User \cup {None} : Send(t, k, u)
                          \/ Serve(t) \/ Receive(t) \/ Lose(t)
        \/ Tick

Spec == Init /\ [][Next]_vars

---------------------------------------------------------------------------
\* The types of the variables.
TypeOK ==
  /\ clock \in 0..MaxClock /\ made \in 0..MaxXsrf
  /\ \A n \in CookieName : jar[n] = None \/ jar[n] \in Cookie(n)
  /\ page \in [Tab -> Xsrf \cup {None}]
  /\ \A t \in Tab :
       /\ req[t].pc \in {"idle", "sent", "answered"} /\ req[t].kind \in Kind
       /\ req[t].field \in Xsrf \cup {None}
       /\ req[t].shows \in Xsrf \cup {None} /\ req[t].ok \in BOOLEAN
  /\ live \in [User -> SUBSET (1..MaxTokenId)]
  /\ nextId \in [User -> 0..MaxTokenId]
  /\ gone \subseteq Xsrf /\ stale \subseteq Tab

\* A soft-expiry cookie never outlives the auth cookie it belongs to, however
\* the answers of two tabs are ordered (authTokenFromReq looks for the soft
\* cookie to tell whether the auth cookie is to be refreshed).
SoftMeansAuth == jar["st"] # None => jar["at"] # None

\* A browser logged in as a user who may read pictures has that user's
\* picture cookie for as long as the auth cookie lasts: not another user's, and
\* not one that expires before (refresh0).
ReadersSeePictures ==
  jar["at"] # None /\ jar["at"].value.user \in Reader =>
    /\ jar["pt"] # None
    /\ jar["pt"] = [value |-> jar["at"].value.user, exp |-> jar["at"].exp]

\* The xsrf token that a login or a logout destroys never comes back, with
\* the answer of a request that was sent before, so the forms of pages that
\* were loaded with it stay refused (loginActionHandler, readHandler).
FormsDieWithLogin == jar["xsrf"] = None \/ jar["xsrf"].value \notin gone

\* The forms of a page work until an answer to a later request changes the
\* token: the page that a tab shows has the token of the xsrf cookie.  Not so
\* the login page after a logout that failed, whose cookie is destroyed.
FreshPageWorks ==
  \A t \in Tab \ stale : req[t].pc = "idle" /\ page[t] # None =>
    jar["xsrf"] # None /\ jar["xsrf"].value = page[t]

\* When no answers are lost and no logout is under way, the auth cookie's
\* token is one that the back end still has, or the browser has none: tabs that
\* log in and out at once leave no dead token behind.
AuthCookieIsLive ==
  (\A t \in Tab : req[t].pc = "idle" \/ req[t].kind # "logout") =>
    (jar["at"] # None => jar["at"].value.id \in live[jar["at"].value.user])

\* All that the cookies of a browser promise; a refresh may bring a dead token back.
CookiesAgree ==
  /\ SoftMeansAuth /\ ReadersSeePictures /\ FormsDieWithLogin /\ FreshPageWorks
  /\ ~Lossy /\ "refresh" \notin Kinds => AuthCookieIsLive

=============================================================================
