----------------------------- MODULE UserProofs -----------------------------
(***************************************************************************)
(* Proofs about users: the page that edits one (UserEdit), the cookies of  *)
(* a browser (FrontAuth, as Front), and the users and tokens of the back   *)
(* end (Sessions, as Back), each for any number of users, tabs, tokens and *)
(* requests.                                                               *)
(*                                                                         *)
(* UserEdit: SubjectInv and FormInv say that what a form shows was so at   *)
(* the form's version.                                                     *)
(***************************************************************************)
EXTENDS UserEdit, FiniteSetTheorems, TLAPS

FormType == form \in [Tab -> Form \cup {NoForm}]

\* What the request of a page was given of its subject may be old, but it is
\* what the subject was at that version.
SubjectInv == \A t \in Tab : subject[t] # Nobody =>
  /\ subject[t].version <= users[UserOf[t]].version
  /\ subject[t].version = users[UserOf[t]].version =>
       subject[t].caps = users[UserOf[t]].caps

\* A form has inputs for all capabilities, or for none, and its hidden ones are
\* what its user had at that version.
FormInv == \A t \in Tab : form[t] # NoForm =>
  /\ DOMAIN form[t].oldcap = DOMAIN form[t].newcap
  /\ DOMAIN form[t].newcap = CapName \/ DOMAIN form[t].newcap = {}
  /\ form[t].version <= users[form[t].user].version
  /\ form[t].version = users[form[t].user].version /\ DOMAIN form[t].newcap = CapName =>
       Shown(form[t]) = users[form[t].user].caps

IInv == TypeOK /\ FormType /\ SubjectInv /\ FormInv /\ FormsAreWhole

-----------------------------------------------------------------------------
\* The parts of a form.
LEMMA FormParts ==
  ASSUME NEW f \in Form
  PROVE  /\ f.user \in User /\ f.version \in 0..MaxVersion
         /\ f.oldcap \in [DOMAIN f.oldcap -> BOOLEAN] /\ DOMAIN f.oldcap \subseteq CapName
         /\ f.newcap \in [DOMAIN f.newcap -> BOOLEAN] /\ DOMAIN f.newcap \subseteq CapName
BY DEF Form, Inputs

\* A form is told from none by its user.
LEMMA NoFormIsNone == NoForm \notin Form
BY UserAssumption DEF NoForm, Form

\* What a post does to the user of its form: nothing, or one version more and
\* the capabilities that are checked.
LEMMA PostChanges ==
  ASSUME IInv, NEW t \in Tab, Post(t)
  PROVE  \/ users' = users
         \/ LET u == form[t].user IN
            /\ u \in User
            /\ users[u].version < MaxVersion
            /\ users' = [users EXCEPT ![u] = [caps |-> Checked(form[t]),
                                              version |-> users[u].version + 1]]
            /\ Checked(form[t]) \subseteq CapName
            /\ Shown(form[t]) = users[u].caps
            /\ UPDATE \in users[UserOf[t]].caps
<1> DEFINE f == form[t]
           u == f.user
           caps == (users[u].caps \cup Added(f)) \ Removed(f)
<1> SUFFICES ASSUME users' # users
             PROVE  /\ u \in User
                    /\ users[u].version < MaxVersion
                    /\ users' = [users EXCEPT ![u] = [caps |-> Checked(f),
                                                      version |-> users[u].version + 1]]
                    /\ Checked(f) \subseteq CapName
                    /\ Shown(f) = users[u].caps
                    /\ UPDATE \in users[UserOf[t]].caps
  OBVIOUS
<1>1. f \in Form /\ users[u].version < MaxVersion
  BY DEF Post, IInv, FormType
<1>2. /\ u \in User
      /\ f.oldcap \in [DOMAIN f.oldcap -> BOOLEAN]
      /\ f.newcap \in [DOMAIN f.newcap -> BOOLEAN]
      /\ DOMAIN f.newcap \subseteq CapName
  BY <1>1, FormParts
<1>3. /\ Whole(f)
      /\ Current(f)
      /\ Added(f) \cup Removed(f) # {} => MayChange(t)
      /\ caps # users[u].caps
      /\ users' = [users EXCEPT ![u] = [caps |-> caps, version |-> @.version + 1]]
  BY DEF Post, handleUpdateUser, UpdateUserTask
<1>4. Added(f) \cup Removed(f) # {}
  <2> HIDE DEF f, u
  <2>1. Added(f) = {} /\ Removed(f) = {} => caps = users[u].caps
    OBVIOUS
  <2> QED BY <2>1, <1>3
<1>5. DOMAIN f.newcap = CapName
  <2>1. DOMAIN f.newcap # {}
    BY <1>4 DEF Added, Removed
  <2>2. DOMAIN f.newcap = CapName \/ DOMAIN f.newcap = {}
    BY DEF Post, IInv, FormInv
  <2> QED BY <2>1, <2>2
<1>6. Shown(f) = users[u].caps
  BY <1>3, <1>5 DEF Post, IInv, FormInv, Current
<1>7. caps = Checked(f)
  <2>1. DOMAIN f.oldcap = DOMAIN f.newcap
    BY <1>3 DEF Whole
  <2>2. \A c : c \in caps <=> c \in (Shown(f) \cup Added(f)) /\ c \notin Removed(f)
    BY <1>6
  <2>3. \A c : c \in Checked(f) <=> c \in DOMAIN f.newcap /\ f.newcap[c]
    BY DEF Checked
  <2>4. \A c : c \in (Shown(f) \cup Added(f)) /\ c \notin Removed(f)
                 <=> c \in DOMAIN f.newcap /\ f.newcap[c]
    <3> HIDE DEF f
    <3> QED BY <2>1, <1>2 DEF Shown, Added, Removed
  <2>5. \A c : c \in caps <=> c \in Checked(f)
    BY <2>2, <2>3, <2>4
  <2> QED BY <2>5
<1>8. Checked(f) \subseteq CapName
  BY <1>2 DEF Checked
<1>9. UPDATE \in users[UserOf[t]].caps
  BY <1>3, <1>4 DEF MayChange
<1> QED BY <1>1, <1>2, <1>3, <1>6, <1>7, <1>8, <1>9

-----------------------------------------------------------------------------
LEMMA InitEstablishes == Init => IInv
<1> SUFFICES ASSUME Init PROVE IInv
  OBVIOUS
<1>1. TypeOK
  <2>1. 0 \in 0..MaxVersion
    BY BoundAssumption
  <2>2. [caps : StartCaps, version : {0}] \subseteq Row
    BY <2>1, CapAssumption DEF Row
  <2>3. users \in [User -> Row]
    BY <2>2 DEF Init
  <2>4. subject \in [Tab -> Row \cup {Nobody}] /\ form \in [Tab -> Form \cup {NoForm}]
        /\ answer \in [Tab -> Answer]
    BY DEF Init, Answer
  <2> QED BY <2>3, <2>4 DEF TypeOK
<1>2. FormType /\ SubjectInv /\ FormInv /\ FormsAreWhole
  BY DEF Init, FormType, SubjectInv, FormInv, FormsAreWhole
<1> QED BY <1>1, <1>2 DEF IInv

LEMMA AskKeeps ==
  ASSUME IInv, NEW t \in Tab, Ask(t)
  PROVE  IInv'
<1>1. users[UserOf[t]] \in Row
  BY UserAssumption DEF IInv, TypeOK
<1>2. TypeOK' /\ FormType' /\ FormInv' /\ FormsAreWhole'
  BY <1>1 DEF Ask, IInv, TypeOK, FormType, FormInv, FormsAreWhole
<1>3. SubjectInv'
  BY <1>1 DEF Ask, IInv, TypeOK, SubjectInv, Row
<1> QED BY <1>2, <1>3 DEF IInv

LEMMA StaticKeeps ==
  ASSUME IInv, NEW t \in Tab, NEW u \in User, Static(t, u)
  PROVE  IInv'
<1> DEFINE row == IF u = UserOf[t] THEN subject[t] ELSE users[u]
           edit == UPDATE \in subject[t].caps
           shown == IF edit THEN CapName ELSE {}
           has == [c \in shown |-> c \in row.caps]
           f == [user |-> u, version |-> row.version, oldcap |-> has, newcap |-> has]
<1>1. row \in Row /\ users[u] \in Row
  BY DEF Static, IInv, TypeOK
<1>2. /\ row.caps \subseteq CapName /\ row.version \in 0..MaxVersion
      /\ row.version <= users[u].version
      /\ row.version = users[u].version => row.caps = users[u].caps
  BY <1>1 DEF Static, IInv, SubjectInv, Row
<1>3. form' = [form EXCEPT ![t] = f]
  BY DEF Static, Page
<1>4. f \in Form
  <2>1. has \in [shown -> BOOLEAN] /\ shown \in SUBSET CapName
    OBVIOUS
  <2>2. has \in Inputs
    BY <2>1 DEF Inputs
  <2> QED BY <1>2, <2>2 DEF Form
<1>5. UNCHANGED users /\ subject' = [subject EXCEPT ![t] = Nobody]
      /\ answer' = [answer EXCEPT ![t] = "none"]
  BY DEF Static
<1>6. FormType'
  BY <1>3, <1>4 DEF IInv, FormType
<1>7. TypeOK'
  BY <1>3, <1>4, <1>5 DEF IInv, TypeOK, Answer, FormType
<1>8. SubjectInv'
  BY <1>5 DEF IInv, SubjectInv, TypeOK
<1>9. FormInv'
  <2>1. /\ DOMAIN f.oldcap = DOMAIN f.newcap
        /\ DOMAIN f.newcap = CapName \/ DOMAIN f.newcap = {}
        /\ f.user = u /\ f.version = row.version
    OBVIOUS
  <2>2. DOMAIN f.newcap = CapName => Shown(f) = row.caps
    <3> SUFFICES ASSUME DOMAIN f.newcap = CapName PROVE Shown(f) = row.caps
      OBVIOUS
    <3>1. shown = CapName
      OBVIOUS
    <3>2. Shown(f) = {c \in CapName : c \in row.caps}
      BY <3>1 DEF Shown
    <3> QED BY <3>2, <1>2
  <2>3. form'[t] = f /\ \A s \in Tab \ {t} : form'[s] = form[s]
    BY <1>3 DEF IInv, FormType
  <2> HIDE DEF f, row
  <2> QED BY <2>1, <2>2, <2>3, <1>2, <1>5 DEF IInv, FormInv
<1>10. FormsAreWhole'
  <2>1. answer'[t] = "none" /\ \A s \in Tab \ {t} : answer'[s] = answer[s] /\ form'[s] = form[s]
    BY <1>3, <1>5 DEF IInv, TypeOK, FormType
  <2> QED BY <2>1 DEF IInv, FormsAreWhole
<1> QED BY <1>6, <1>7, <1>8, <1>9, <1>10 DEF IInv

LEMMA PressKeeps ==
  ASSUME IInv, NEW t \in Tab, NEW c \in CapName, Press(t, c)
  PROVE  IInv'
<1> DEFINE f == form[t]
           new == [f.newcap EXCEPT ![c] = ~f.newcap[c]]
           g == [f EXCEPT !.newcap = new]
<1>1. f \in Form /\ c \in DOMAIN f.newcap
  BY DEF Press, IInv, FormType
<1>2. form' = [form EXCEPT ![t] = g]
  BY <1>1 DEF Press, IInv, FormType
<1>3. new \in Inputs /\ DOMAIN new = DOMAIN f.newcap
  BY <1>1, FormParts DEF Inputs
<1>4. g \in Form /\ g.user = f.user /\ g.version = f.version /\ g.oldcap = f.oldcap
      /\ g.newcap = new
  BY <1>1, <1>3 DEF Form
<1>5. form'[t] = g /\ \A s \in Tab \ {t} : form'[s] = form[s]
  BY <1>2 DEF IInv, FormType
<1>6. FormType'
  BY <1>2, <1>4 DEF IInv, FormType
<1>7. TypeOK'
  BY <1>6 DEF Press, IInv, TypeOK, FormType
<1>8. SubjectInv'
  BY DEF Press, IInv, SubjectInv
<1>9. FormInv'
  <2>1. f # NoForm /\ Shown(g) = Shown(f) /\ UNCHANGED users
    BY <1>1, <1>4, NoFormIsNone DEF Press, Shown
  <2> HIDE DEF f, g, new
  <2>2. /\ DOMAIN g.oldcap = DOMAIN g.newcap
        /\ DOMAIN g.newcap = CapName \/ DOMAIN g.newcap = {}
        /\ g.version <= users[g.user].version
        /\ g.version = users[g.user].version /\ DOMAIN g.newcap = CapName =>
             Shown(g) = users[g.user].caps
    BY <2>1, <1>3, <1>4 DEF IInv, FormInv, f
  <2> QED BY <2>1, <2>2, <1>5 DEF IInv, FormInv
<1>10. FormsAreWhole'
  <2>1. f # NoForm /\ UNCHANGED answer
    BY <1>1, NoFormIsNone DEF Press
  <2> HIDE DEF g, new
  <2> QED BY <2>1, <1>3, <1>4, <1>5 DEF IInv, FormsAreWhole
<1> QED BY <1>6, <1>7, <1>8, <1>9, <1>10 DEF IInv

LEMMA PostKeeps ==
  ASSUME IInv, NEW t \in Tab, Post(t)
  PROVE  IInv'
<1>1. \A v \in User : /\ users[v] \in Row /\ users'[v] \in Row
                      /\ users'[v] = users[v] \/ users'[v].version = users[v].version + 1
  <2>1. users \in [User -> Row]
    BY DEF IInv, TypeOK
  <2>2. CASE users' = users
    BY <2>1, <2>2
  <2>3. CASE users' # users
    <3> DEFINE u == form[t].user
               row == [caps |-> Checked(form[t]), version |-> users[u].version + 1]
    <3>1. /\ u \in User /\ users[u].version < MaxVersion
          /\ users' = [users EXCEPT ![u] = row]
          /\ Checked(form[t]) \subseteq CapName
      BY <2>3, PostChanges
    <3>2. users[u].version \in 0..MaxVersion
      BY <2>1, <3>1 DEF Row
    <3>3. users[u].version + 1 \in 0..MaxVersion
      BY <3>1, <3>2, BoundAssumption
    <3>4. row \in Row /\ row.version = users[u].version + 1
      BY <3>1, <3>3 DEF Row
    <3> HIDE DEF u, row
    <3> QED BY <2>1, <3>1, <3>4
  <2> QED BY <2>2, <2>3
<1>2. users' \in [User -> Row] /\ UNCHANGED <<subject, form>>
  BY <1>1, PostChanges DEF Post, IInv, TypeOK
<1>3. answer' \in [Tab -> Answer]
  BY DEF Post, handleUpdateUser, UpdateUserTask, IInv, TypeOK, Answer
<1>4. TypeOK' /\ FormType'
  BY <1>2, <1>3 DEF IInv, TypeOK, FormType
<1>5. SubjectInv'
  <2> SUFFICES ASSUME NEW s \in Tab, subject[s] # Nobody
               PROVE  /\ subject[s].version <= users'[UserOf[s]].version
                      /\ subject[s].version = users'[UserOf[s]].version =>
                           subject[s].caps = users'[UserOf[s]].caps
    BY <1>2 DEF SubjectInv
  <2>1. UserOf[s] \in User /\ subject[s] \in Row
    BY UserAssumption DEF IInv, TypeOK
  <2> QED BY <1>1, <2>1 DEF IInv, SubjectInv, Row
<1>6. FormInv'
  <2> SUFFICES ASSUME NEW s \in Tab, form[s] # NoForm
               PROVE  /\ form[s].version <= users'[form[s].user].version
                      /\ form[s].version = users'[form[s].user].version
                           /\ DOMAIN form[s].newcap = CapName =>
                              Shown(form[s]) = users'[form[s].user].caps
    BY <1>2 DEF IInv, FormInv
  <2>1. form[s].user \in User /\ form[s].version \in 0..MaxVersion
    BY FormParts DEF IInv, FormType
  <2>2. /\ form[s].version <= users[form[s].user].version
        /\ form[s].version = users[form[s].user].version
             /\ DOMAIN form[s].newcap = CapName =>
                Shown(form[s]) = users[form[s].user].caps
    BY DEF IInv, FormInv
  <2> QED BY <1>1, <2>1, <2>2 DEF Row
<1>7. FormsAreWhole'
  <2>1. Whole(form[t])
    BY DEF Post, IInv, FormInv, Whole
  <2>2. answer'[t] # "bad request" /\ (answer'[t] = "denied" => DOMAIN form[t].newcap # {})
    BY <2>1 DEF Post, handleUpdateUser, UpdateUserTask, Added, Removed, IInv, TypeOK
  <2>3. \A s \in Tab \ {t} : answer'[s] = answer[s]
    BY <2>1 DEF Post, handleUpdateUser, UpdateUserTask, IInv, TypeOK
  <2> QED BY <1>2, <2>2, <2>3 DEF IInv, FormsAreWhole
<1> QED BY <1>4, <1>5, <1>6, <1>7 DEF IInv

LEMMA StepKeeps ==
  ASSUME IInv, [Next]_vars
  PROVE  IInv'
<1>1. CASE UNCHANGED vars
  BY <1>1 DEF vars, IInv, TypeOK, FormType, SubjectInv, FormInv, FormsAreWhole
<1>2. CASE Next
  BY <1>2, AskKeeps, StaticKeeps, PressKeeps, PostKeeps DEF Next
<1> QED BY <1>1, <1>2

LEMMA Inductive == Spec => []IInv
BY InitEstablishes, StepKeeps, PTL DEF Spec

-----------------------------------------------------------------------------
\* Users, forms and answers stay well formed.
THEOREM TypeCorrect == Spec => []TypeOK
<1>1. IInv => TypeOK
  BY DEF IInv
<1> QED BY <1>1, Inductive, PTL

\* diffcaps never refuses a form that the page made, and the page has no
\* buttons for those whom UpdateUserTask would deny.
THEOREM WholeForms == Spec => []FormsAreWhole
<1>1. IInv => FormsAreWhole
  BY DEF IInv
<1> QED BY <1>1, Inductive, PTL

\* Only Post writes a user, and only as PostChanges says.
LEMMA OnlyPosts ==
  ASSUME IInv, [Next]_vars, NEW u \in User, users'[u] # users[u]
  PROVE  \E t \in Tab : /\ form[t] # NoForm /\ form[t].user = u
                        /\ Shown(form[t]) = users[u].caps
                        /\ Checked(form[t]) = users'[u].caps
                        /\ UPDATE \in users[UserOf[t]].caps
<1>1. PICK t \in Tab : Post(t)
  BY DEF Next, Ask, Static, Press, vars
<1>2. form[t] # NoForm
  BY <1>1 DEF Post
<1>3. /\ form[t].user \in User
      /\ users' = [users EXCEPT ![form[t].user] = [caps |-> Checked(form[t]),
                                     version |-> users[form[t].user].version + 1]]
      /\ Shown(form[t]) = users[form[t].user].caps
      /\ UPDATE \in users[UserOf[t]].caps
  BY <1>1, PostChanges
<1>4. form[t].user = u /\ users'[u].caps = Checked(form[t])
  BY <1>3 DEF IInv, TypeOK
<1> QED BY <1>2, <1>3, <1>4

\* The version that a form carries makes sure that its editor had seen the
\* capabilities that it changes.
THEOREM SavesSeen == Spec => SavesWhatWasSeen
<1>1. IInv /\ [Next]_vars =>
      [\A u \in User : users'[u] # users[u] =>
         \E t \in Tab : /\ form[t] # NoForm /\ form[t].user = u
                        /\ Shown(form[t]) = users[u].caps
                        /\ Checked(form[t]) = users'[u].caps]_vars
  BY OnlyPosts
<1> QED BY <1>1, Inductive, PTL DEF Spec, SavesWhatWasSeen

\* The right to edit is looked at when the edit is made, not when its form was.
THEOREM EditorsChange == Spec => ChangedByEditors
<1>1. IInv /\ [Next]_vars =>
      [\A u \in User : users'[u] # users[u] =>
         \E t \in Tab : form[t] # NoForm /\ form[t].user = u
                        /\ UPDATE \in users[UserOf[t]].caps]_vars
  BY OnlyPosts
<1> QED BY <1>1, Inductive, PTL DEF Spec, ChangedByEditors

-----------------------------------------------------------------------------
(***************************************************************************)
(* The cookies and forms of a browser (FrontAuth), for any number of tabs, *)
(* users and tokens, any answers lost and any time.                        *)
(*                                                                         *)
(* A request carries the cookies of the time it was sent, an answer brings *)
(* some at any later time.  CookieInv says what the answers under way may  *)
(* bring, next to what the browser has: cookies of one login together, an  *)
(* xsrf token that is nowhere else yet, a token that nobody can have       *)
(* ended.                                                                  *)
(***************************************************************************)
CONSTANTS Reader, Kinds, Lossy, HourStep, MaxClock, MaxXsrf, MaxTokenId, None
VARIABLES clock, jar, page, req, live, nextId, made, gone, stale

Front == INSTANCE FrontAuth

CookieAssumptions == Front!KindAssumption /\ Front!BoundAssumption /\ Front!NoneAssumption

\* A cookie called n, or none.
Held(n) == {None} \cup Front!Cookie(n)

\* The cookies an answer sets: none; a new xsrf cookie, with a page that has its
\* forms; those of a login; or no more of any.
SetsForm(q) ==
  \E x \in 1..made, e \in Nat :
    /\ e >= Front!xsrfTokenLifetime /\ q.shows = x
    /\ q.sets = [n \in {"xsrf"} |-> [value |-> x, exp |-> e]]
Given(tok, soft) ==
  [n \in {"at", "st", "xsrf"} \cup Front!PixToken(tok.user) |->
     CASE n = "at" -> [value |-> tok, exp |-> tok.exp]
       [] n = "st" -> [value |-> "st", exp |-> soft]
       [] n = "pt" -> [value |-> tok.user, exp |-> tok.exp]
       [] n = "xsrf" -> None]
LogsIn(q) ==
  \E tok \in Front!AuthToken, soft \in Nat :
    q.sets = Given(tok, soft) /\ soft <= tok.exp /\ q.shows = None
LogsOut(q) == q.sets = Front!Destroyed /\ q.kind = "logout"

RequestOK(q) ==
  /\ DOMAIN q = DOMAIN Front!Idle
  /\ q.pc \in {"idle", "sent", "answered"} /\ q.kind \in Kinds \cup {"page"}
  /\ q.user \in User \cup {None} /\ (q.kind \in {"login", "create"} => q.user # None)
  /\ \A n \in Front!CookieName : q.sent[n] \in Held(n)
  /\ {q.field, q.shows} \subseteq Front!Xsrf \cup {None} /\ q.ok \in BOOLEAN
  /\ q.pc = "idle" => q = Front!Idle
  /\ q.pc = "sent" => q.sets = <<>> /\ q.shows = None
  /\ q.pc = "answered" => q.sets = <<>> \/ SetsForm(q) \/ LogsIn(q) \/ LogsOut(q)

JarTypes ==
  /\ clock \in 0..MaxClock /\ made \in 0..MaxXsrf
  /\ \A n \in Front!CookieName : jar[n] \in Held(n)
  /\ page \in [Tab -> Front!Xsrf \cup {None}]
  /\ live \in [User -> SUBSET (1..MaxTokenId)]
  /\ nextId \in [User -> 0..MaxTokenId]
  /\ gone \subseteq 1..made /\ stale \subseteq Tab
  /\ req = [t \in Tab |-> req[t]] /\ \A t \in Tab : RequestOK(req[t])

\* The cookies of a login come, go and expire together.
JarInv ==
  /\ jar["st"] # None => jar["at"] # None /\ jar["st"].exp <= jar["at"].exp
  /\ Front!ReadersSeePictures

\* A new xsrf token is nowhere but in the answer that brings it.
Brings(q) == q.pc = "answered" /\ "xsrf" \in DOMAIN q.sets /\ q.sets["xsrf"] # None
CookieFormInv ==
  /\ jar["xsrf"] # None => jar["xsrf"].value \in (1..made) \ gone
  /\ \A t \in Tab : Brings(req[t]) =>
       /\ req[t].sets["xsrf"].value \in (1..made) \ gone
       /\ jar["xsrf"] # None => jar["xsrf"].value # req[t].sets["xsrf"].value
       /\ \A s \in Tab : Brings(req[s]) /\ req[s].sets["xsrf"].value = req[t].sets["xsrf"].value
            => s = t

\* A tab that is not stale: its page, the cookie its request has, the page that comes.
SameForm(x) == x # None => jar["xsrf"] # None /\ jar["xsrf"].value = x
PageInv ==
  /\ jar["xsrf"] # None => jar["xsrf"].exp >= Front!xsrfTokenLifetime
  /\ \A t \in Tab \ stale :
       /\ req[t].pc = "idle" => SameForm(page[t])
       /\ req[t].pc = "sent" => req[t].sent["xsrf"] = jar["xsrf"]
       /\ req[t].pc = "answered" /\ req[t].sets = <<>> => SameForm(req[t].shows)

\* Tokens: known, and of the same id of a user.
Issued(tok, next) == tok.id \in 1..next[tok.user]
Same(a, b) == a.user = b.user /\ a.id = b.id
Gives(q) == q.pc = "answered" /\ "at" \in DOMAIN q.sets /\ q.sets["at"] # None
TokenOf(q) == q.sets["at"].value
TokenInv ==
  /\ jar["at"] # None => Issued(jar["at"].value, nextId)
  /\ \A t \in Tab : req[t].sent["at"] # None => Issued(req[t].sent["at"].value, nextId)
  /\ \A t \in Tab : Gives(req[t]) =>
       LET tok == TokenOf(req[t]) IN
       /\ Issued(tok, nextId) /\ tok.id \in live[tok.user]
       /\ jar["at"] # None => ~Same(jar["at"].value, tok)
       /\ \A s \in Tab : req[s].sent["at"] # None => ~Same(req[s].sent["at"].value, tok)
       /\ \A s \in Tab : Gives(req[s]) /\ Same(TokenOf(req[s]), tok) => s = t
  /\ \/ jar["at"] # None => jar["at"].value.id \in live[jar["at"].value.user]
     \/ \E t \in Tab : req[t].pc = "answered" /\ LogsOut(req[t])

CookieInv == /\ CookieAssumptions /\ JarTypes /\ JarInv /\ CookieFormInv
             /\ MaxClock <= Front!xsrfTokenLifetime => PageInv
             /\ ~Lossy /\ "refresh" \notin Kinds => TokenInv

-----------------------------------------------------------------------------
\* Each cookie and its values.
LEMMA Sorts ==
  /\ Front!Cookie("at") = [value : Front!AuthToken, exp : Nat]
  /\ Front!Cookie("st") = [value : {"st"}, exp : Nat]
  /\ Front!Cookie("pt") = [value : User, exp : Nat]
  /\ Front!Cookie("xsrf") = [value : Front!Xsrf, exp : Nat]
BY DEF Front!Cookie

\* What the browser keeps of a cookie that it gets or has.
LEMMA Keeps ==
  ASSUME NEW n \in Front!CookieName, NEW c \in Held(n), NEW now \in Nat
  PROVE  /\ Front!Unexpired(c, now) \in {None, c} \cap Held(n)
         /\ c # None => c.exp \in Nat /\ (Front!Unexpired(c, now) = None <=> c.exp < now)
<1>1. c # None => c.exp \in Nat BY DEF Held, Front!Cookie
<1> QED BY <1>1 DEF Held, Front!Unexpired

\* What is in an auth cookie.
LEMMA Auths ==
  ASSUME NEW c \in Held("at"), c # None
  PROVE  c.value \in Front!AuthToken /\ c.exp \in Nat
<1>1. c \in Front!Cookie("at") BY DEF Held
<1>2. c \in [value : Front!AuthToken, exp : Nat] BY <1>1, Sorts
<1> QED BY <1>2

\* What an answer with a new xsrf cookie brings.
LEMMA FormSets == ASSUME NEW q, SetsForm(q)
  PROVE  /\ DOMAIN q.sets = {"xsrf"} /\ q.sets["xsrf"].value \in 1..made
         /\ q.sets["xsrf"].exp \in Nat /\ q.sets["xsrf"].exp >= Front!xsrfTokenLifetime
         /\ q.shows = q.sets["xsrf"].value /\ ~Gives(q)
<1>1. PICK x \in 1..made, e \in Nat :
        /\ e >= Front!xsrfTokenLifetime /\ q.shows = x
        /\ q.sets = [n \in {"xsrf"} |-> [value |-> x, exp |-> e]]
  BY DEF SetsForm
<1>2. DOMAIN q.sets = {"xsrf"} BY <1>1
<1>3. q.sets["xsrf"].value = x /\ q.sets["xsrf"].exp = e BY <1>1
<1> QED BY <1>1, <1>2, <1>3 DEF Gives

\* An answer without cookies sets none.
LEMMA EmptySets == DOMAIN <<>> = {}
OBVIOUS

\* What the cookies of a login are.
GivenOK(g, tok, soft) ==
  /\ DOMAIN g = {"at", "st", "xsrf"} \cup Front!PixToken(tok.user)
  /\ "pt" \in DOMAIN g <=> tok.user \in Reader
  /\ g["at"].value = tok /\ g["at"].exp = tok.exp /\ g["at"] \in Front!Cookie("at")
  /\ g["st"].exp = soft /\ g["st"] \in Front!Cookie("st")
  /\ tok.user \in Reader => /\ g["pt"].value = tok.user /\ g["pt"].exp = tok.exp
                            /\ g["pt"] \in Front!Cookie("pt")
  /\ g["xsrf"] = None
  /\ g["at"] # None /\ g["st"] # None

LEMMA GivenFacts ==
  ASSUME CookieAssumptions, NEW tok \in Front!AuthToken, NEW soft \in Nat, NEW g, g = Given(tok, soft)
  PROVE  GivenOK(g, tok, soft)
<1>1. DOMAIN g = {"at", "st", "xsrf"} \cup Front!PixToken(tok.user) BY DEF Given
<1>2. "pt" \in Front!PixToken(tok.user) <=> tok.user \in Reader BY DEF Front!PixToken
<1>3. tok.user \in User /\ tok.exp \in Nat BY DEF Front!AuthToken
<1>4. g["at"] = [value |-> tok, exp |-> tok.exp] /\ g["st"] = [value |-> "st", exp |-> soft]
      /\ g["xsrf"] = None
  BY DEF Given
<1>5. tok.user \in Reader => g["pt"] = [value |-> tok.user, exp |-> tok.exp]
  BY <1>2 DEF Given
<1>6. g["at"] \in Front!Cookie("at") /\ g["st"] \in Front!Cookie("st") BY <1>3, <1>4, Sorts
<1>7. tok.user \in Reader => g["pt"] \in Front!Cookie("pt") BY <1>3, <1>5, Sorts
<1>8. g["at"] # None /\ g["st"] # None
  BY <1>6 DEF CookieAssumptions, Front!NoneAssumption, Front!CookieName
<1> QED BY <1>1, <1>2, <1>4, <1>5, <1>6, <1>7, <1>8 DEF GivenOK

\* A refresh, or a login, gives them.
LEMMA Refreshes ==
  ASSUME NEW tok
  PROVE  Front!refresh0(tok) = Given(tok, clock + Front!authPwtSoftDuration)
BY DEF Front!refresh0, Given

Answered(q, sets, shows, ok) ==
  [q EXCEPT !.pc = "answered", !.sets = sets, !.shows = shows, !.ok = ok]

\* A request, answered.
LEMMA AnswerFacts ==
  ASSUME NEW q, DOMAIN q = DOMAIN Front!Idle, NEW sets, NEW shows, NEW ok, NEW a,
         a = Answered(q, sets, shows, ok)
  PROVE  /\ DOMAIN a = DOMAIN Front!Idle
         /\ a.pc = "answered" /\ a.sets = sets /\ a.shows = shows /\ a.ok = ok
         /\ a.kind = q.kind /\ a.user = q.user /\ a.sent = q.sent /\ a.field = q.field
BY DEF Answered, Front!Idle

\* Answer, as one change of the tab's request.
LEMMA AnswerStep ==
  ASSUME JarTypes, NEW t \in Tab, NEW sets, NEW shows, NEW ok, Front!Answer(t, sets, shows, ok)
  PROVE  req' = [req EXCEPT ![t] = Answered(req[t], sets, shows, ok)]
BY DEF Front!Answer, Answered, JarTypes

-----------------------------------------------------------------------------
\* The front end serves the request of t, which becomes q.

NoToken(q) == ~Gives(q) /\ UNCHANGED <<live, nextId>>
NewToken(q, tok) ==
  /\ Gives(q) /\ TokenOf(q) = tok /\ tok.user \in User /\ tok.id = nextId[tok.user] + 1
  /\ tok.id <= MaxTokenId
  /\ nextId' = [nextId EXCEPT ![tok.user] = tok.id]
  /\ live' = [live EXCEPT ![tok.user] = @ \cup {tok.id}]
EndToken(q) ==
  /\ LogsOut(q) /\ ~Gives(q) /\ UNCHANGED nextId /\ q.sent["at"] # None
  /\ LET tok == q.sent["at"].value IN live' = [live EXCEPT ![tok.user] = @ \ {tok.id}]

Serves(t, q) ==
  /\ req[t].pc = "sent" /\ req' = [req EXCEPT ![t] = q]
  /\ UNCHANGED <<clock, jar, page, gone, stale>>
  /\ RequestOK(q)' /\ q.pc = "answered" /\ q.sent = req[t].sent
  /\ \/ made' = made /\ ~Brings(q)
     \/ made < MaxXsrf /\ made' = made + 1 /\ q.sets["xsrf"].value = made'
  /\ q.sets = <<>> /\ q.shows # None =>
       q.sent["xsrf"] # None /\ q.sent["xsrf"].value = q.shows
  /\ live' \in [User -> SUBSET (1..MaxTokenId)] /\ nextId' \in [User -> 0..MaxTokenId]
  /\ ~Lossy /\ "refresh" \notin Kinds =>
       NoToken(q) \/ EndToken(q) \/ \E tok \in Front!AuthToken : NewToken(q, tok)

\* A request stays what it is while the front end makes tokens.
LEMMA RequestStays ==
  ASSUME NEW q, RequestOK(q), made \in Nat, made' \in Nat, made <= made'
  PROVE  RequestOK(q)'
<1>1. SetsForm(q) => SetsForm(q)' BY DEF SetsForm
<1> QED BY <1>1 DEF RequestOK, LogsIn, LogsOut

\* After a step of one tab.
LEMMA OneTab ==
  ASSUME NEW t \in Tab, NEW q, req = [s \in Tab |-> req[s]], req' = [req EXCEPT ![t] = q]
  PROVE  /\ req' = [s \in Tab |-> req'[s]] /\ req'[t] = q
         /\ \A s \in Tab : s # t => req'[s] = req[s]
OBVIOUS

\* Serves keeps the types.
LEMMA ServeTypes ==
  ASSUME CookieInv, NEW t \in Tab, NEW q, Serves(t, q) PROVE JarTypes'
<1>1. /\ made \in Nat /\ made' \in 0..MaxXsrf /\ made <= made'
  BY DEF Serves, CookieInv, JarTypes, CookieAssumptions, Front!BoundAssumption
<1>2. /\ req' = [s \in Tab |-> req'[s]] /\ req'[t] = q
      /\ \A s \in Tab : s # t => req'[s] = req[s]
  BY OneTab DEF Serves, CookieInv, JarTypes
<1>3. ASSUME NEW s \in Tab PROVE RequestOK(req[s])'
  <2>1. PICK o : o = req[s] OBVIOUS
  <2>2. RequestOK(o) BY <2>1 DEF CookieInv, JarTypes
  <2>3. RequestOK(o)' BY <1>1, <2>2, RequestStays
  <2>4. PICK n : n = req'[s] OBVIOUS
  <2>5. n = q \/ n = o BY <1>2, <2>1, <2>4
  <2>6. RequestOK(n)' BY <2>3, <2>5 DEF Serves
  <2> QED BY <2>4, <2>6 DEF RequestOK, SetsForm, LogsIn, LogsOut
<1>4. gone' \subseteq 1..made' BY <1>1 DEF Serves, CookieInv, JarTypes
<1> QED BY <1>1, <1>2, <1>3, <1>4 DEF Serves, CookieInv, JarTypes

\* No request that is served brings an xsrf token that is not new.
LEMMA ServeForms ==
  ASSUME CookieInv, NEW t \in Tab, NEW q, Serves(t, q) PROVE CookieFormInv'
<1>1. /\ made \in Nat /\ made' \in Nat /\ gone \subseteq 1..made /\ gone' = gone /\ jar' = jar
  BY DEF Serves, CookieInv, JarTypes, CookieAssumptions, Front!BoundAssumption
<1>2. req'[t] = q /\ \A s \in Tab : s # t => req'[s] = req[s]
  BY OneTab DEF Serves, CookieInv, JarTypes
<1>3. made <= made' /\ (Brings(q) => q.sets["xsrf"].value = made + 1 /\ made' = made + 1)
  BY <1>1 DEF Serves
<1>4. ~Brings(req[t]) BY DEF Serves, Brings
<1>5. \A x : x \in (1..made) \ gone => x \in (1..made') \ gone' BY <1>1, <1>3
<1>6. Brings(q) => made + 1 \in (1..made') \ gone' /\ made + 1 \notin 1..made BY <1>1, <1>3
<1>7. jar["xsrf"] # None => jar["xsrf"].value \in (1..made) \ gone
  BY DEF CookieInv, CookieFormInv
<1>8. ASSUME NEW s \in Tab, Brings(req'[s])
      PROVE  /\ req'[s].sets["xsrf"].value \in (1..made') \ gone'
             /\ jar["xsrf"] # None => jar["xsrf"].value # req'[s].sets["xsrf"].value
             /\ s = t => req'[s].sets["xsrf"].value = made + 1
             /\ s # t => /\ Brings(req[s])
                         /\ req'[s].sets["xsrf"].value = req[s].sets["xsrf"].value
                         /\ req'[s].sets["xsrf"].value \in 1..made
  <2>1. CASE s = t BY <1>2, <1>3, <1>6, <1>7, <1>8, <2>1
  <2>2. CASE s # t BY <1>2, <1>5, <1>8, <2>2 DEF CookieInv, CookieFormInv
  <2> QED BY <2>1, <2>2
<1>9. ASSUME NEW s \in Tab, NEW u \in Tab, Brings(req'[s]), Brings(req'[u]),
             req'[s].sets["xsrf"].value = req'[u].sets["xsrf"].value
      PROVE  s = u
  <2>1. s = t => u = t BY <1>2, <1>6, <1>8, <1>9
  <2>2. u = t => s = t BY <1>2, <1>6, <1>8, <1>9
  <2>3. CASE s # t /\ u # t BY <1>8, <1>9, <2>3 DEF CookieInv, CookieFormInv
  <2> QED BY <2>1, <2>2, <2>3
<1> QED BY <1>1, <1>5, <1>7, <1>8, <1>9 DEF CookieFormInv, Brings

\* A page that comes without cookies has the token of the request's cookie.
LEMMA ServePages ==
  ASSUME CookieInv, PageInv, NEW t \in Tab, NEW q, Serves(t, q) PROVE PageInv'
<1>1. jar' = jar /\ page' = page /\ stale' = stale BY DEF Serves
<1>2. req'[t] = q /\ \A s \in Tab : s # t => req'[s] = req[s]
  BY OneTab DEF Serves, CookieInv, JarTypes
<1>3. t \notin stale => q.pc = "answered" /\ (q.sets = <<>> => SameForm(q.shows))
  BY DEF Serves, PageInv, SameForm
<1>4. ASSUME NEW s \in Tab, s \notin stale'
      PROVE  /\ req'[s].pc = "idle" => SameForm(page[s])
             /\ req'[s].pc = "sent" => req'[s].sent["xsrf"] = jar["xsrf"]
             /\ req'[s].pc = "answered" /\ req'[s].sets = <<>> => SameForm(req'[s].shows)
  <2>1. CASE s = t BY <1>1, <1>2, <1>3, <1>4, <2>1
  <2>2. CASE s # t BY <1>1, <1>2, <1>4, <2>2 DEF PageInv
  <2> QED BY <2>1, <2>2
<1> QED BY <1>1, <1>4 DEF PageInv, SameForm

\* Who may have a token that an answer brings, and what it is.
Apart(tok) ==
  /\ jar["at"] # None => ~Same(jar["at"].value, tok)
  /\ \A s \in Tab : req[s].sent["at"] # None => ~Same(req[s].sent["at"].value, tok)

\* No token that the browser has, or had, is a new one.
LEMMA NewIsApart ==
  ASSUME CookieInv, TokenInv, NEW tok \in Front!AuthToken, tok.id = nextId[tok.user] + 1
  PROVE  /\ Apart(tok)
         /\ \A s \in Tab : Gives(req[s]) => ~Same(TokenOf(req[s]), tok)
<1>1. tok.user \in User /\ nextId[tok.user] \in Nat
  BY DEF Front!AuthToken, CookieInv, JarTypes, CookieAssumptions, Front!BoundAssumption
<1>2. ASSUME NEW a, Issued(a, nextId) PROVE ~Same(a, tok)
  BY <1>1, <1>2 DEF Issued, Same
<1> QED BY <1>2 DEF Apart, TokenInv

\* The tokens of the model are tokens.
LEMMA TokensTyped ==
  ASSUME CookieInv
  PROVE  /\ jar["at"] # None => jar["at"].value \in Front!AuthToken
         /\ \A s \in Tab : req[s].sent["at"] # None => req[s].sent["at"].value \in Front!AuthToken
         /\ \A s \in Tab : Gives(req[s]) => TokenOf(req[s]) \in Front!AuthToken
<1>2. ASSUME NEW s \in Tab, Gives(req[s]) PROVE TokenOf(req[s]) \in Front!AuthToken
  <2>1. PICK q : q = req[s] OBVIOUS
  <2>2. RequestOK(q) /\ Gives(q) BY <1>2, <2>1 DEF CookieInv, JarTypes
  <2>3. ~SetsForm(q) BY <2>2, FormSets
  <2>4. ~LogsOut(q) BY <2>2 DEF LogsOut, Gives, Front!Destroyed, Front!CookieName
  <2>5. q.sets # <<>> BY <2>2, EmptySets DEF Gives
  <2>6. PICK tok \in Front!AuthToken, soft \in Nat : q.sets = Given(tok, soft)
    BY <2>2, <2>3, <2>4, <2>5 DEF RequestOK, Gives, LogsIn
  <2>7. GivenOK(q.sets, tok, soft) BY <2>6, GivenFacts DEF CookieInv
  <2> QED BY <2>1, <2>7 DEF TokenOf, GivenOK
<1> QED BY <1>2, Auths DEF CookieInv, JarTypes, RequestOK, Front!CookieName

\* Ids that were given out stay given out.
LEMMA IssuedStays ==
  ASSUME NEW tok \in Front!AuthToken, Issued(tok, nextId),
         \A u \in User : nextId[u] \in Nat /\ nextId'[u] \in Nat /\ nextId[u] <= nextId'[u]
  PROVE  Issued(tok, nextId')
BY DEF Issued, Front!AuthToken

\* The browser's token is live, or a logout that ends it has been answered.
LatestCookies ==
  \/ jar["at"] # None => jar["at"].value.id \in live[jar["at"].value.user]
  \/ \E t \in Tab : req[t].pc = "answered" /\ LogsOut(req[t])

\* What is served ends no token that is still to come.
LEMMA ServeTokens ==
  ASSUME CookieInv, TokenInv, ~Lossy, "refresh" \notin Kinds, NEW t \in Tab, NEW q, Serves(t, q)
  PROVE  TokenInv'
<1>1. jar' = jar /\ req[t].pc = "sent" /\ q.pc = "answered" /\ q.sent = req[t].sent
  BY DEF Serves
<1>2. req'[t] = q /\ \A s \in Tab : s # t => req'[s] = req[s]
  BY OneTab DEF Serves, CookieInv, JarTypes
<1>3. \A s \in Tab : req'[s].sent = req[s].sent BY <1>1, <1>2
<1>4. ~Gives(req[t]) BY <1>1 DEF Gives
<1>5. \A s \in Tab : Gives(req[s]) => s # t /\ req'[s] = req[s] BY <1>2, <1>4
<1>6. \A u \in User : nextId[u] \in Nat /\ live[u] \in SUBSET (1..MaxTokenId)
  BY DEF CookieInv, JarTypes, CookieAssumptions, Front!BoundAssumption
<1>7. \A s \in Tab : s # t /\ req[s].pc = "answered" /\ LogsOut(req[s]) =>
        req'[s].pc = "answered" /\ LogsOut(req'[s])
  BY <1>2
<1>8. NoToken(q) \/ EndToken(q) \/ \E tok \in Front!AuthToken : NewToken(q, tok)
  BY DEF Serves
<1>9. CASE NoToken(q)
  <2>1. ~Gives(q) /\ live' = live /\ nextId' = nextId BY <1>9 DEF NoToken
  <2>2. \A s \in Tab : Gives(req'[s]) => Gives(req[s]) /\ req'[s] = req[s]
    BY <1>2, <2>1
  <2>3. \A s \in Tab : req[s].pc = "answered" => s # t BY <1>1
  <2>4. LatestCookies' BY <1>1, <1>7, <2>1, <2>3 DEF TokenInv, LatestCookies
  <2> QED
    BY <1>1, <1>3, <2>1, <2>2, <2>4 DEF TokenInv, LatestCookies, Issued, Gives, TokenOf
<1>10. CASE EndToken(q)
  <2>1. ~Gives(q) /\ nextId' = nextId /\ LogsOut(q) BY <1>10 DEF EndToken
  <2>2. PICK old : old = q.sent["at"].value OBVIOUS
  <2>3. old \in Front!AuthToken /\ live' = [live EXCEPT ![old.user] = @ \ {old.id}]
        /\ \A s \in Tab : Gives(req[s]) => ~Same(old, TokenOf(req[s]))
    BY <1>1, <1>10, <2>2, TokensTyped DEF EndToken, TokenInv
  <2>4. old.user \in User BY <2>3 DEF Front!AuthToken
  <2>5. \A s \in Tab : Gives(req'[s]) => Gives(req[s]) /\ req'[s] = req[s]
    BY <1>2, <2>1
  <2>6. ASSUME NEW s \in Tab, Gives(req[s])
        PROVE  TokenOf(req[s]).id \in live'[TokenOf(req[s]).user]
    <3>1. PICK tok : tok = TokenOf(req[s]) OBVIOUS
    <3>2. tok \in Front!AuthToken /\ ~Same(old, tok) /\ tok.id \in live[tok.user]
      BY <2>3, <2>6, <3>1, TokensTyped DEF TokenInv
    <3>3. tok.user \in User BY <3>2 DEF Front!AuthToken
    <3>4. tok.id \in live'[tok.user]
      BY <1>6, <2>3, <2>4, <3>2, <3>3 DEF Same, CookieInv, JarTypes
    <3> QED BY <3>1, <3>4
  <2>7. LatestCookies' BY <1>1, <1>2, <2>1 DEF LatestCookies
  <2> QED
    BY <1>1, <1>3, <2>1, <2>5, <2>6, <2>7
       DEF TokenInv, LatestCookies, Issued, Gives, TokenOf
<1>11. ASSUME NEW tok \in Front!AuthToken, NewToken(q, tok) PROVE TokenInv'
  <2>1. PICK u : u = tok.user OBVIOUS
  <2>2. /\ Gives(q) /\ TokenOf(q) = tok /\ u \in User /\ tok.id = nextId[u] + 1
        /\ nextId' = [nextId EXCEPT ![u] = tok.id]
        /\ live' = [live EXCEPT ![u] = @ \cup {tok.id}]
    BY <1>11, <2>1 DEF NewToken
  <2>3. Apart(tok) /\ \A s \in Tab : Gives(req[s]) => ~Same(TokenOf(req[s]), tok)
    BY <2>1, <2>2, NewIsApart
  <2>4. \A v \in User : /\ nextId[v] \in Nat /\ nextId'[v] \in Nat /\ nextId[v] <= nextId'[v]
                        /\ live[v] \subseteq live'[v]
    BY <1>6, <2>2 DEF CookieInv, JarTypes
  <2>5. Issued(tok, nextId') /\ tok.id \in live'[tok.user]
    BY <1>6, <2>1, <2>2 DEF Issued, CookieInv, JarTypes
  <2>6. \A x \in Front!AuthToken : x.user \in User BY DEF Front!AuthToken
  <2>7. jar["at"] # None => Issued(jar["at"].value, nextId')
    BY <2>4, IssuedStays, TokensTyped DEF TokenInv
  <2>8. \A s \in Tab : req[s].sent["at"] # None => Issued(req[s].sent["at"].value, nextId')
    BY <2>4, IssuedStays, TokensTyped DEF TokenInv
  <2>9. ASSUME NEW s \in Tab, Gives(req[s])
        PROVE  /\ Issued(TokenOf(req[s]), nextId') 
               /\ TokenOf(req[s]).id \in live'[TokenOf(req[s]).user]
    BY <2>4, <2>6, <2>9, IssuedStays, TokensTyped DEF TokenInv
  <2>10. LatestCookies'
    <3>1. CASE jar["at"] # None => jar["at"].value.id \in live[jar["at"].value.user]
      BY <1>1, <2>4, <2>6, <3>1, TokensTyped DEF LatestCookies
    <3>2. CASE \E s \in Tab : req[s].pc = "answered" /\ LogsOut(req[s])
      <4>1. \A s \in Tab : req[s].pc = "answered" => s # t BY <1>1
      <4> QED BY <1>7, <3>2, <4>1 DEF LatestCookies
    <3> QED BY <3>1, <3>2 DEF TokenInv
  <2>11. ASSUME NEW s \in Tab, Gives(req'[s])
         PROVE  /\ Issued(TokenOf(req'[s]), nextId')
                /\ TokenOf(req'[s]).id \in live'[TokenOf(req'[s]).user]
                /\ jar["at"] # None => ~Same(jar["at"].value, TokenOf(req'[s]))
                /\ \A v \in Tab : req[v].sent["at"] # None =>
                     ~Same(req[v].sent["at"].value, TokenOf(req'[s]))
    <3>1. CASE s = t
      BY <1>2, <2>2, <2>3, <2>5, <3>1 DEF Apart
    <3>2. CASE s # t
      <4>1. req'[s] = req[s] BY <1>2, <3>2
      <4> QED BY <2>9, <2>11, <4>1 DEF TokenInv
    <3> QED BY <3>1, <3>2
  <2>12. ASSUME NEW s \in Tab, NEW v \in Tab, Gives(req'[s]), Gives(req'[v]),
                Same(TokenOf(req'[v]), TokenOf(req'[s]))
         PROVE  v = s
    <3>1. CASE s = t BY <1>2, <2>2, <2>3, <2>12, <3>1
    <3>2. CASE v = t
      <4>1. Same(TokenOf(req'[s]), tok) BY <1>2, <2>2, <2>12, <3>2 DEF Same
      <4> QED BY <1>2, <2>3, <2>12, <3>2, <4>1
    <3>3. CASE s # t /\ v # t BY <1>2, <2>12, <3>3 DEF TokenInv
    <3> QED BY <3>1, <3>2, <3>3
  <2> QED
    BY <1>1, <1>3, <2>7, <2>8, <2>10, <2>11, <2>12
       DEF TokenInv, LatestCookies, Gives, TokenOf
<1> QED BY <1>8, <1>9, <1>10, <1>11

-----------------------------------------------------------------------------
\* Each handler, as a step of Serves.

\* An answer of one of the four kinds.
LEMMA AnswerOK ==
  ASSUME NEW r, RequestOK(r), NEW sets, NEW shows \in Front!Xsrf \cup {None}, NEW ok \in BOOLEAN,
         NEW q, q = Answered(r, sets, shows, ok),
         sets = <<>> \/ SetsForm(q)' \/ LogsIn(q) \/ LogsOut(q)
  PROVE  RequestOK(q)'
<1>1. /\ DOMAIN q = DOMAIN Front!Idle
      /\ q.pc = "answered" /\ q.sets = sets /\ q.shows = shows /\ q.ok = ok
      /\ q.kind = r.kind /\ q.user = r.user /\ q.sent = r.sent /\ q.field = r.field
  BY AnswerFacts DEF RequestOK
<1> QED BY <1>1 DEF RequestOK, LogsIn, LogsOut

\* An answer without cookies, whose page has the token of the request, or none.
LEMMA QuietServes ==
  ASSUME CookieInv, NEW t \in Tab, req[t].pc = "sent", NEW shows, NEW ok \in BOOLEAN,
         shows # None => req[t].sent["xsrf"] # None /\ req[t].sent["xsrf"].value = shows,
         Front!Answer(t, <<>>, shows, ok),
         UNCHANGED <<clock, jar, page, live, nextId, made, gone, stale>>
  PROVE  \E q : Serves(t, q)
<1>1. PICK r : r = req[t] OBVIOUS
<1>2. RequestOK(r) BY <1>1 DEF CookieInv, JarTypes
<1>3. shows \in Front!Xsrf \cup {None}
  <2>1. \A c \in Held("xsrf") : c # None => c.value \in Front!Xsrf
    <3>1. ASSUME NEW c \in Held("xsrf"), c # None PROVE c.value \in Front!Xsrf
      <4>1. c \in [value : Front!Xsrf, exp : Nat] BY <3>1, Sorts DEF Held
      <4> QED BY <4>1
    <3> QED BY <3>1
  <2> QED BY <1>1, <1>2, <2>1 DEF RequestOK, Front!CookieName
<1>4. PICK q : q = Answered(r, <<>>, shows, ok) OBVIOUS
<1>5. RequestOK(q)' BY <1>2, <1>3, <1>4, AnswerOK
<1>6. req' = [req EXCEPT ![t] = q] BY <1>1, <1>4, AnswerStep DEF CookieInv
<1>7. q.pc = "answered" /\ q.sets = <<>> /\ q.shows = shows /\ q.sent = r.sent
  BY <1>2, <1>4, AnswerFacts DEF RequestOK
<1>8. ~Brings(q) /\ ~Gives(q) BY <1>7, EmptySets DEF Brings, Gives
<1>9. live' \in [User -> SUBSET (1..MaxTokenId)] /\ nextId' \in [User -> 0..MaxTokenId]
  BY DEF CookieInv, JarTypes
<1> QED BY <1>1, <1>5, <1>6, <1>7, <1>8, <1>9 DEF Serves, NoToken

\* A page.
LEMMA ReadServes == ASSUME CookieInv, NEW t \in Tab, Front!Read(t) PROVE \E q : Serves(t, q)
<1>1. PICK r : r = req[t] OBVIOUS
<1>2. RequestOK(r) BY <1>1 DEF CookieInv, JarTypes
<1>3. CASE r.sent["xsrf"] # None
  <2>1. Front!Answer(t, <<>>, r.sent["xsrf"].value, TRUE) /\ made' = made
    BY <1>1, <1>3 DEF Front!Read
  <2> QED BY <1>1, <1>3, <2>1, QuietServes DEF Front!Read
<1>4. CASE r.sent["xsrf"] = None
  <2>1. PICK x : x = made + 1 OBVIOUS
  <2>2. PICK e : e = clock + Front!xsrfTokenLifetime OBVIOUS
  <2>3. PICK c : c = [value |-> x, exp |-> e] OBVIOUS
  <2>4. PICK sets : sets = [n \in {"xsrf"} |-> c] OBVIOUS
  <2>0. PICK ok \in BOOLEAN : ok = TRUE OBVIOUS
  <2>5. made < MaxXsrf /\ made' = x /\ Front!Answer(t, sets, x, ok)
    BY <1>1, <1>4, <2>0, <2>1, <2>2, <2>3, <2>4 DEF Front!Read, Front!newXsrfCookie
  <2>6. /\ made \in Nat /\ x \in 1..made' /\ x \in Front!Xsrf
        /\ e \in Nat /\ e >= Front!xsrfTokenLifetime
    BY <2>1, <2>2, <2>5
       DEF CookieInv, JarTypes, CookieAssumptions, Front!BoundAssumption, Front!Xsrf,
           Front!xsrfTokenLifetime
  <2>7. PICK q : q = Answered(r, sets, x, ok) OBVIOUS
  <2>8. q.pc = "answered" /\ q.sets = sets /\ q.shows = x /\ q.sent = r.sent
    BY <1>2, <2>7, AnswerFacts DEF RequestOK
  <2>9. SetsForm(q)' BY <2>3, <2>4, <2>6, <2>8 DEF SetsForm
  <2>10. RequestOK(q)' BY <1>2, <2>6, <2>7, <2>9, AnswerOK
  <2>11. req' = [req EXCEPT ![t] = q] BY <1>1, <2>5, <2>7, AnswerStep DEF CookieInv
  <2>12. DOMAIN q.sets = {"xsrf"} /\ q.sets["xsrf"].value = x BY <2>3, <2>4, <2>8
  <2>13. q.sets # <<>> /\ ~Gives(q) BY <2>12, EmptySets DEF Gives
  <2>14. live' \in [User -> SUBSET (1..MaxTokenId)] /\ nextId' \in [User -> 0..MaxTokenId]
    BY DEF CookieInv, JarTypes, Front!Read
  <2> QED BY <1>1, <2>1, <2>5, <2>8, <2>10, <2>11, <2>12, <2>13, <2>14
          DEF Serves, NoToken, Front!Read
<1> QED BY <1>3, <1>4

\* A form whose token is not the cookie's.
LEMMA RefuseServes == ASSUME CookieInv, NEW t \in Tab, Front!Refuse(t) PROVE \E q : Serves(t, q)
BY QuietServes DEF Front!Refuse

\* A login that fails.
LEMMA LoginFailsServes ==
  ASSUME CookieInv, NEW t \in Tab, Front!LoginFails(t)
  PROVE  \E q : Serves(t, q)
BY QuietServes DEF Front!LoginFails, Front!Accepted, Front!XsrfMatch

\* An answer with the cookies of a token.
LEMMA GivesServes ==
  ASSUME CookieInv, NEW t \in Tab, req[t].pc = "sent", NEW tok \in Front!AuthToken,
         clock + Front!authPwtSoftDuration <= tok.exp,
         Front!Answer(t, Front!refresh0(tok), None, TRUE),
         UNCHANGED <<clock, jar, page, made, gone, stale>>,
         live' \in [User -> SUBSET (1..MaxTokenId)], nextId' \in [User -> 0..MaxTokenId]
  PROVE  \E q : /\ Gives(q) /\ TokenOf(q) = tok
                /\ (~Lossy /\ "refresh" \notin Kinds => NewToken(q, tok)) => Serves(t, q)
<1>1. PICK r : r = req[t] OBVIOUS
<1>2. RequestOK(r) BY <1>1 DEF CookieInv, JarTypes
<1>3. PICK soft : soft = clock + Front!authPwtSoftDuration OBVIOUS
<1>4. soft \in Nat /\ soft <= tok.exp
  BY <1>3
     DEF CookieInv, JarTypes, CookieAssumptions, Front!BoundAssumption,
         Front!authPwtSoftDuration
<1>5. PICK g : g = Given(tok, soft) OBVIOUS
<1>6. PICK ok \in BOOLEAN : ok = TRUE OBVIOUS
<1>7. Front!Answer(t, g, None, ok) BY <1>3, <1>5, <1>6, Refreshes
<1>8. GivenOK(g, tok, soft) BY <1>4, <1>5, GivenFacts DEF CookieInv
<1>9. PICK q : q = Answered(r, g, None, ok) OBVIOUS
<1>10. q.pc = "answered" /\ q.sets = g /\ q.shows = None /\ q.sent = r.sent
  BY <1>2, <1>9, AnswerFacts DEF RequestOK
<1>11. LogsIn(q) BY <1>4, <1>5, <1>10 DEF LogsIn
<1>12. RequestOK(q)' BY <1>2, <1>9, <1>11, AnswerOK
<1>13. req' = [req EXCEPT ![t] = q] BY <1>1, <1>7, <1>9, AnswerStep DEF CookieInv
<1>14. Gives(q) /\ TokenOf(q) = tok BY <1>8, <1>10 DEF Gives, TokenOf, GivenOK
<1>15. ~Brings(q) BY <1>8, <1>10 DEF Brings, GivenOK
<1> QED BY <1>1, <1>10, <1>12, <1>13, <1>14, <1>15 DEF Serves

\* A login gives the user's next token.
LEMMA LoginServes == ASSUME CookieInv, NEW t \in Tab, Front!Login(t) PROVE \E q : Serves(t, q)
<1>1. PICK u : u = req[t].user OBVIOUS
<1>2. u \in User
  BY <1>1 DEF CookieInv, JarTypes, RequestOK, Front!Login, Front!Accepted
<1>3. PICK id : id = nextId[u] + 1 OBVIOUS
<1>4. /\ nextId' = [nextId EXCEPT ![u] = id]
      /\ live' = [live EXCEPT ![u] = @ \cup {id}]
  BY <1>1, <1>2, <1>3 DEF Front!Login, CookieInv, JarTypes
<1>5. id \in 1..MaxTokenId /\ nextId[u] \in Nat
  BY <1>1, <1>2, <1>3
     DEF Front!Login, CookieInv, JarTypes, CookieAssumptions, Front!BoundAssumption
<1>6. /\ live' \in [User -> SUBSET (1..MaxTokenId)] /\ nextId' \in [User -> 0..MaxTokenId]
  BY <1>2, <1>4, <1>5 DEF CookieInv, JarTypes, CookieAssumptions, Front!BoundAssumption
<1>7. PICK e : e = clock + Front!authPwtDuration OBVIOUS
<1>8. e \in Nat /\ clock + Front!authPwtSoftDuration <= e
  BY <1>7
     DEF CookieInv, JarTypes, CookieAssumptions, Front!BoundAssumption,
         Front!authPwtDuration, Front!authPwtSoftDuration
<1>9. PICK tok : tok = [user |-> u, id |-> id, exp |-> e] OBVIOUS
<1>10. /\ tok \in Front!AuthToken /\ tok.user = u /\ tok.id = id /\ tok.exp = e
  BY <1>2, <1>5, <1>8, <1>9 DEF Front!AuthToken
<1>11. Front!Answer(t, Front!refresh0(tok), None, TRUE)
  <2>1. nextId'[u] = id BY <1>2, <1>4 DEF CookieInv, JarTypes
  <2> QED BY <1>1, <1>7, <1>9, <2>1 DEF Front!Login
<1>12. PICK q : /\ Gives(q) /\ TokenOf(q) = tok
                /\ (~Lossy /\ "refresh" \notin Kinds => NewToken(q, tok)) => Serves(t, q)
  <2>1. req[t].pc = "sent" /\ UNCHANGED <<clock, jar, page, made, gone, stale>>
    BY DEF Front!Login, Front!Accepted
  <2> QED BY <1>6, <1>8, <1>10, <1>11, <2>1, GivesServes
<1>13. NewToken(q, tok)
  BY <1>2, <1>3, <1>4, <1>5, <1>10, <1>12 DEF NewToken
<1> QED BY <1>12, <1>13

\* A refresh gives the old token again.
LEMMA RefreshServes == ASSUME CookieInv, NEW t \in Tab, Front!Refresh(t) PROVE \E q : Serves(t, q)
<1>1. PICK c : c = req[t].sent["at"] OBVIOUS
<1>2. PICK old : old = c.value OBVIOUS
<1>3. old \in Front!AuthToken
  <2>1. c \in Held("at") /\ c # None
    BY <1>1 DEF CookieInv, JarTypes, RequestOK, Front!CookieName, Front!Refresh
  <2> QED BY <1>2, <2>1, Auths
<1>4. PICK e : e = clock + Front!authPwtDuration OBVIOUS
<1>5. e \in Nat /\ clock + Front!authPwtSoftDuration <= e
  BY <1>4
     DEF CookieInv, JarTypes, CookieAssumptions, Front!BoundAssumption,
         Front!authPwtDuration, Front!authPwtSoftDuration
<1>6. PICK tok : tok = [old EXCEPT !.exp = e] OBVIOUS
<1>7. tok \in Front!AuthToken /\ tok.exp = e BY <1>3, <1>5, <1>6 DEF Front!AuthToken
<1>8. /\ req[t].pc = "sent" /\ Front!Answer(t, Front!refresh0(tok), None, TRUE)
      /\ UNCHANGED <<clock, jar, page, made, gone, stale>>
  BY <1>1, <1>2, <1>4, <1>6 DEF Front!Refresh, Front!Accepted
<1>9. live' \in [User -> SUBSET (1..MaxTokenId)] /\ nextId' \in [User -> 0..MaxTokenId]
  BY DEF Front!Refresh, CookieInv, JarTypes
<1>10. "refresh" \in Kinds
  BY DEF Front!Refresh, Front!Accepted, CookieInv, JarTypes, RequestOK
<1> QED BY <1>5, <1>7, <1>8, <1>9, <1>10, GivesServes

\* A logout ends the token of its cookie, or none.
LEMMA LogoutServes == ASSUME CookieInv, NEW t \in Tab, Front!Logout(t) PROVE \E q : Serves(t, q)
<1>1. PICK r : r = req[t] OBVIOUS
<1>2. RequestOK(r) /\ r.pc = "sent" /\ r.kind = "logout"
  BY <1>1 DEF CookieInv, JarTypes, Front!Logout, Front!Accepted
<1>3. PICK c : c = r.sent["at"] OBVIOUS
<1>4. PICK shows \in Front!Xsrf \cup {None}, ok \in BOOLEAN :
      Front!Answer(t, Front!Destroyed, shows, ok)
  <2>1. r.field \in Front!Xsrf \cup {None} BY <1>2 DEF RequestOK
  <2> QED BY <1>1, <2>1 DEF Front!Logout
<1>5. PICK q : q = Answered(r, Front!Destroyed, shows, ok) OBVIOUS
<1>6. /\ q.pc = "answered" /\ q.sets = Front!Destroyed /\ q.shows = shows
      /\ q.sent = r.sent /\ q.kind = r.kind
  BY <1>2, <1>5, AnswerFacts DEF RequestOK
<1>7. LogsOut(q) BY <1>2, <1>6 DEF LogsOut
<1>8. RequestOK(q)' BY <1>2, <1>5, <1>7, AnswerOK
<1>9. req' = [req EXCEPT ![t] = q] BY <1>1, <1>4, <1>5, AnswerStep DEF CookieInv
<1>10. /\ ~Gives(q) /\ ~Brings(q) /\ "at" \in DOMAIN q.sets
  BY <1>6 DEF Gives, Brings, Front!Destroyed, Front!CookieName
<1>11. q.sets # <<>> BY <1>10, EmptySets
<1>12. /\ live' \in [User -> SUBSET (1..MaxTokenId)] /\ nextId' \in [User -> 0..MaxTokenId]
       /\ NoToken(q) \/ EndToken(q)
  <2>1. CASE UNCHANGED live
    BY <1>10, <2>1 DEF Front!Logout, NoToken, CookieInv, JarTypes
  <2>2. CASE ~UNCHANGED live
    <3>1. /\ c # None
          /\ live' = [live EXCEPT ![c.value.user] = @ \ {c.value.id}]
      BY <1>1, <1>3, <2>2 DEF Front!Logout, Front!decodeAuthToken
    <3>2. c.value \in Front!AuthToken
      BY <1>2, <1>3, <3>1, Auths DEF RequestOK, Front!CookieName
    <3>3. c.value.user \in User BY <3>2 DEF Front!AuthToken
    <3>4. EndToken(q) BY <1>3, <1>6, <1>7, <1>10, <3>1 DEF EndToken, Front!Logout
    <3> QED BY <3>1, <3>3, <3>4 DEF Front!Logout, CookieInv, JarTypes
  <2> QED BY <2>1, <2>2
<1> QED
  BY <1>1, <1>6, <1>8, <1>9, <1>10, <1>11, <1>12 DEF Serves, Front!Logout, Front!Accepted

\* Whatever the front end does for a request.
LEMMA ServeKeeps ==
  ASSUME CookieInv, NEW t \in Tab, Front!Serve(t) PROVE CookieInv'
<1>1. PICK q : Serves(t, q)
  BY ReadServes, RefuseServes, LoginServes, RefreshServes, LoginFailsServes, LogoutServes
     DEF Front!Serve
<1>2. JarInv' BY <1>1 DEF Serves, CookieInv, JarInv, Front!ReadersSeePictures
<1> QED BY <1>1, <1>2, ServeTypes, ServeForms, ServePages, ServeTokens DEF CookieInv

-----------------------------------------------------------------------------
\* A tab sends a request.
LEMMA SendKeeps ==
  ASSUME CookieInv, NEW t \in Tab, NEW k \in Kinds, NEW u \in User \cup {None}, Front!Send(t, k, u)
  PROVE  CookieInv'
<1>1. PICK f : f = IF k = "page" THEN None ELSE page[t] OBVIOUS
<1>2. PICK q : q = [Front!Idle EXCEPT !.pc = "sent", !.kind = k, !.user = u, !.sent = jar, !.field = f]
  OBVIOUS
<1>3. req' = [req EXCEPT ![t] = q] /\ req[t].pc = "idle" BY <1>1, <1>2 DEF Front!Send
<1>4. /\ UNCHANGED <<clock, jar, page, live, nextId, made, gone>>
      /\ stale' = stale \ {t} /\ (k \in {"login", "create"} => u # None)
  BY DEF Front!Send
<1>5. /\ DOMAIN q = DOMAIN Front!Idle
      /\ q.pc = "sent" /\ q.kind = k /\ q.user = u /\ q.sent = jar /\ q.field = f
      /\ q.sets = <<>> /\ q.shows = None /\ q.ok = FALSE
  BY <1>2 DEF Front!Idle
<1>6. req[t] = Front!Idle BY <1>3 DEF CookieInv, JarTypes, RequestOK
<1>7. f \in Front!Xsrf \cup {None} BY <1>1 DEF CookieInv, JarTypes
<1>8. RequestOK(q)
  BY <1>4, <1>5, <1>7 DEF RequestOK, CookieInv, JarTypes
<1>9. req'[t] = q /\ \A s \in Tab : s # t => req'[s] = req[s]
  BY <1>3, OneTab DEF CookieInv, JarTypes
<1>10. ~Brings(q) /\ ~Gives(q) BY <1>5, EmptySets DEF Brings, Gives
<1>11. \A s \in Tab : Brings(req'[s]) => Brings(req[s]) /\ req'[s] = req[s]
  BY <1>9, <1>10
<1>12. \A s \in Tab : Gives(req'[s]) => Gives(req[s]) /\ req'[s] = req[s]
  BY <1>9, <1>10
<1>13. JarTypes'
  <2>1. req' = [s \in Tab |-> req'[s]] BY <1>3, OneTab DEF CookieInv, JarTypes
  <2>2. ASSUME NEW s \in Tab PROVE RequestOK(req[s])'
    <3>1. PICK o : o = req'[s] OBVIOUS
    <3>2. RequestOK(o) BY <1>8, <1>9, <3>1 DEF CookieInv, JarTypes
    <3>3. RequestOK(o)' BY <1>4, <3>2 DEF RequestOK, SetsForm, LogsIn, LogsOut
    <3> QED BY <3>1, <3>3 DEF RequestOK, SetsForm, LogsIn, LogsOut
  <2> QED BY <1>4, <2>1, <2>2 DEF CookieInv, JarTypes
<1>14. JarInv' BY <1>4 DEF CookieInv, JarInv, Front!ReadersSeePictures
<1>15. CookieFormInv' BY <1>4, <1>11 DEF CookieInv, CookieFormInv
<1>16. ASSUME PageInv PROVE PageInv'
  <2>1. ASSUME NEW s \in Tab, s \notin stale'
        PROVE  /\ req'[s].pc = "idle" => SameForm(page[s])
               /\ req'[s].pc = "sent" => req'[s].sent["xsrf"] = jar["xsrf"]
               /\ req'[s].pc = "answered" /\ req'[s].sets = <<>> => SameForm(req'[s].shows)
    <3>1. CASE s = t BY <1>5, <1>9, <3>1
    <3>2. CASE s # t BY <1>4, <1>9, <1>16, <2>1, <3>2 DEF PageInv
    <3> QED BY <3>1, <3>2
  <2> QED BY <1>4, <1>16, <2>1 DEF PageInv, SameForm
<1>17. ASSUME TokenInv PROVE TokenInv'
  <2>1. \A s \in Tab : req'[s].sent["at"] # None =>
          \/ req[s].sent["at"] # None /\ req'[s].sent["at"] = req[s].sent["at"]
          \/ jar["at"] # None /\ req'[s].sent["at"] = jar["at"]
    BY <1>5, <1>9
  <2>2. \A s \in Tab : req[s].pc = "answered" => req'[s] = req[s]
    BY <1>3, <1>9
  <2>3. LatestCookies' BY <1>4, <1>17, <2>2 DEF TokenInv, LatestCookies
  <2>4. ASSUME NEW s \in Tab, Gives(req'[s]), NEW v \in Tab, req'[v].sent["at"] # None
        PROVE  ~Same(req'[v].sent["at"].value, TokenOf(req'[s]))
    BY <1>12, <1>17, <2>1, <2>4 DEF TokenInv
  <2>5. \A s \in Tab : req'[s].sent["at"] # None => Issued(req'[s].sent["at"].value, nextId)
    BY <1>17, <2>1 DEF TokenInv
  <2> QED
    BY <1>4, <1>12, <1>17, <2>3, <2>4, <2>5 DEF TokenInv, LatestCookies, Gives, TokenOf
<1> QED BY <1>13, <1>14, <1>15, <1>16, <1>17 DEF CookieInv

-----------------------------------------------------------------------------
\* The answer arrives.

\* The tab is idle again.
LEMMA IdleAgain ==
  ASSUME CookieInv, NEW t \in Tab, req' = [req EXCEPT ![t] = Front!Idle], made' = made
  PROVE  /\ req' = [s \in Tab |-> req'[s]] /\ \A s \in Tab : RequestOK(req[s])'
         /\ req'[t] = Front!Idle /\ \A s \in Tab : s # t => req'[s] = req[s]
         /\ \A s \in Tab : req'[s].pc # "idle" => s # t /\ req'[s] = req[s]
         /\ \A s \in Tab : Brings(req'[s]) => Brings(req[s]) /\ s # t /\ req'[s] = req[s]
         /\ \A s \in Tab : Gives(req'[s]) => Gives(req[s]) /\ s # t /\ req'[s] = req[s]
         /\ \A s \in Tab : req'[s].sent["at"] # None => s # t /\ req'[s] = req[s]
<1>1. /\ req' = [s \in Tab |-> req'[s]] /\ req'[t] = Front!Idle
      /\ \A s \in Tab : s # t => req'[s] = req[s]
  BY OneTab DEF CookieInv, JarTypes
<1>2. Front!Idle.pc = "idle" /\ Front!Idle.sent["at"] = None
  BY DEF Front!Idle, Front!Empty, Front!CookieName
<1>3. RequestOK(Front!Idle)
  <2>1. \A n \in Front!CookieName : None \in Held(n) /\ Front!Idle.sent[n] = None
    BY DEF Held, Front!Idle, Front!Empty
  <2> QED BY <2>1 DEF RequestOK, Front!Idle
<1>4. ASSUME NEW s \in Tab PROVE RequestOK(req[s])'
  <2>1. PICK o : o = req'[s] OBVIOUS
  <2>2. RequestOK(o) BY <1>1, <1>3, <2>1 DEF CookieInv, JarTypes
  <2>3. RequestOK(o)' BY <2>2 DEF RequestOK, SetsForm, LogsIn, LogsOut
  <2> QED BY <2>1, <2>3 DEF RequestOK, SetsForm, LogsIn, LogsOut
<1> QED BY <1>1, <1>2, <1>4 DEF Brings, Gives

\* What the four kinds of answers do to the browser's cookies.
Keeping == \A n \in Front!CookieName : jar'[n] = jar[n]
Forgets == gone' = gone \cup (IF jar["xsrf"] = None THEN {} ELSE {jar["xsrf"].value})
NewForms(t) ==
  /\ \A n \in {"at", "st", "pt"} : jar'[n] = jar[n]
  /\ Brings(req[t]) /\ req[t].sets["xsrf"] \in Front!Cookie("xsrf")
  /\ req[t].sets["xsrf"].exp >= Front!xsrfTokenLifetime
  /\ req[t].shows = req[t].sets["xsrf"].value
  /\ jar'["xsrf"] = Front!Unexpired(req[t].sets["xsrf"], clock)
  /\ ~Gives(req[t]) /\ gone' = gone /\ Tab \ {t} \subseteq stale'
NewLogin(t, tok, soft) ==
  /\ Gives(req[t]) /\ TokenOf(req[t]) = tok /\ req[t].shows = None
  /\ jar'["at"] = Front!Unexpired([value |-> tok, exp |-> tok.exp], clock)
  /\ jar'["st"] = Front!Unexpired([value |-> "st", exp |-> soft], clock)
  /\ tok.user \in Reader => jar'["pt"] = Front!Unexpired([value |-> tok.user, exp |-> tok.exp], clock)
  /\ tok.user \notin Reader => jar'["pt"] = jar["pt"]
  /\ jar'["xsrf"] = None /\ Forgets /\ Tab \ {t} \subseteq stale'
NoLogin == (\A n \in Front!CookieName : jar'[n] = None) /\ Forgets /\ stale' = Tab

Arrives(t) ==
  \/ Keeping /\ gone' = gone /\ stale' = stale /\ ~Gives(req[t]) /\ req[t].sets = <<>>
  \/ NewForms(t)
  \/ \E tok \in Front!AuthToken, soft \in Nat : soft <= tok.exp /\ NewLogin(t, tok, soft)
  \/ NoLogin /\ LogsOut(req[t])

\* Receive is one of the four.
LEMMA ReceiveArrives ==
  ASSUME CookieInv, NEW t \in Tab, Front!Receive(t) PROVE Arrives(t)
<1>1. PICK q : q = req[t] OBVIOUS
<1>2. RequestOK(q) /\ q.pc = "answered" BY <1>1 DEF CookieInv, JarTypes, Front!Receive
<1>3. \A n \in Front!CookieName : jar'[n] = IF n \in DOMAIN q.sets
                                      THEN Front!Unexpired(q.sets[n], clock) ELSE jar[n]
  BY <1>1 DEF Front!Receive
<1>4. /\ gone' = IF "xsrf" \in DOMAIN q.sets /\ q.sets["xsrf"] = None
                 THEN gone \cup (IF jar["xsrf"] = None THEN {} ELSE {jar["xsrf"].value})
                 ELSE gone
      /\ "xsrf" \in DOMAIN q.sets => Tab \ {t} \subseteq stale'
      /\ "xsrf" \notin DOMAIN q.sets => stale' = stale
  BY <1>1 DEF Front!Receive
<1>5. CASE q.sets = <<>>
  <2>1. DOMAIN q.sets = {} BY <1>5, EmptySets
  <2>2. Keeping /\ gone' = gone /\ stale' = stale BY <1>3, <1>4, <2>1 DEF Keeping
  <2> QED BY <1>1, <1>5, <2>1, <2>2 DEF Arrives, Gives
<1>6. CASE SetsForm(q)
  <2>1. PICK c : c = q.sets["xsrf"] OBVIOUS
  <2>2. PICK x \in 1..made, e \in Nat :
          /\ e >= Front!xsrfTokenLifetime /\ q.shows = x
          /\ q.sets = [n \in {"xsrf"} |-> [value |-> x, exp |-> e]]
    BY <1>6 DEF SetsForm
  <2>3. DOMAIN q.sets = {"xsrf"} BY <2>2
  <2>4. c = [value |-> x, exp |-> e] BY <2>1, <2>2
  <2>5. x \in Front!Xsrf
    BY DEF Front!Xsrf, CookieInv, JarTypes, CookieAssumptions, Front!BoundAssumption
  <2>6. c \in Front!Cookie("xsrf") BY <2>4, <2>5, Sorts
  <2>7. c # None
    BY <2>6 DEF CookieInv, CookieAssumptions, Front!NoneAssumption, Front!CookieName
  <2>8. /\ \A n \in {"at", "st", "pt"} : jar'[n] = jar[n]
        /\ jar'["xsrf"] = Front!Unexpired(c, clock)
    BY <1>3, <2>1, <2>3 DEF Front!CookieName
  <2>9. gone' = gone /\ Tab \ {t} \subseteq stale' BY <1>4, <2>1, <2>3, <2>7
  <2>10. Brings(q) /\ ~Gives(q) BY <1>2, <2>1, <2>3, <2>7 DEF Brings, Gives
  <2>11. c.exp >= Front!xsrfTokenLifetime /\ q.shows = c.value BY <2>2, <2>4
  <2> QED BY <1>1, <2>1, <2>6, <2>8, <2>9, <2>10, <2>11 DEF Arrives, NewForms
<1>7. CASE LogsIn(q)
  <2>1. PICK tok \in Front!AuthToken, soft \in Nat :
          q.sets = Given(tok, soft) /\ soft <= tok.exp /\ q.shows = None
    BY <1>7 DEF LogsIn
  <2>2. PICK g : g = q.sets OBVIOUS
  <2>3. GivenOK(g, tok, soft) BY <2>1, <2>2, GivenFacts DEF CookieInv
  <2>4. /\ g["at"] = [value |-> tok, exp |-> tok.exp]
        /\ g["st"] = [value |-> "st", exp |-> soft]
    BY <2>1, <2>2 DEF Given
  <2>5. tok.user \in Reader => g["pt"] = [value |-> tok.user, exp |-> tok.exp]
    BY <2>1, <2>2 DEF Given, Front!PixToken
  <2>6. "at" \in DOMAIN g /\ "st" \in DOMAIN g /\ "xsrf" \in DOMAIN g
    BY <2>3 DEF GivenOK
  <2>7. "pt" \in DOMAIN g <=> tok.user \in Reader BY <2>3 DEF GivenOK
  <2>8. g["xsrf"] = None /\ g["at"] # None /\ g["at"].value = tok BY <2>3 DEF GivenOK
  <2>9. jar'["at"] = Front!Unexpired(g["at"], clock) /\ jar'["st"] = Front!Unexpired(g["st"], clock)
        /\ jar'["xsrf"] = Front!Unexpired(g["xsrf"], clock)
    BY <1>3, <2>2, <2>6 DEF Front!CookieName
  <2>10. jar'["pt"] = IF tok.user \in Reader THEN Front!Unexpired(g["pt"], clock) ELSE jar["pt"]
    BY <1>3, <2>2, <2>7 DEF Front!CookieName
  <2>11. jar'["xsrf"] = None BY <2>8, <2>9 DEF Front!Unexpired
  <2>12. Forgets /\ Tab \ {t} \subseteq stale' BY <1>4, <2>2, <2>6, <2>8 DEF Forgets
  <2>13. Gives(q) /\ TokenOf(q) = tok BY <1>2, <2>2, <2>6, <2>8 DEF Gives, TokenOf
  <2>14. NewLogin(t, tok, soft)
    BY <1>1, <2>1, <2>4, <2>5, <2>9, <2>10, <2>11, <2>12, <2>13 DEF NewLogin
  <2> QED BY <2>1, <2>14 DEF Arrives
<1>8. CASE LogsOut(q)
  <2>1. DOMAIN q.sets = Front!CookieName /\ \A n \in Front!CookieName : q.sets[n] = None
    BY <1>8 DEF LogsOut, Front!Destroyed
  <2>2. \A n \in Front!CookieName : jar'[n] = None BY <1>3, <2>1 DEF Front!Unexpired
  <2>3. "xsrf" \in DOMAIN q.sets /\ q.sets["xsrf"] = None BY <2>1 DEF Front!CookieName
  <2>4. Forgets BY <1>4, <2>3 DEF Forgets
  <2>5. stale' = Tab BY <1>1, <1>8, <2>3 DEF Front!Receive, LogsOut
  <2> QED BY <1>1, <1>8, <2>2, <2>4, <2>5 DEF Arrives, NoLogin
<1> QED BY <1>2, <1>5, <1>6, <1>7, <1>8 DEF RequestOK

\* The invariant, part by part.
LEMMA ReceiveTypes ==
  ASSUME CookieInv, NEW t \in Tab, Front!Receive(t), Arrives(t) PROVE JarTypes'
<1>1. /\ UNCHANGED <<clock, live, nextId, made>> /\ req' = [req EXCEPT ![t] = Front!Idle]
      /\ page' = [page EXCEPT ![t] = req[t].shows] /\ stale' \subseteq Tab
  BY DEF Front!Receive, CookieInv, JarTypes
<1>2. clock \in Nat BY DEF CookieInv, JarTypes, CookieAssumptions, Front!BoundAssumption
<1>3. page' \in [Tab -> Front!Xsrf \cup {None}] BY <1>1 DEF CookieInv, JarTypes, RequestOK
<1>4. ASSUME NEW n \in Front!CookieName, NEW c \in Held(n)
      PROVE  Front!Unexpired(c, clock) \in Held(n) /\ jar[n] \in Held(n) /\ None \in Held(n)
  BY <1>2, <1>4, Keeps DEF CookieInv, JarTypes, Held
<1>5. gone' \subseteq 1..made
  BY DEF Arrives, NewForms, NewLogin, NoLogin, Forgets, CookieInv, JarTypes, CookieFormInv
<1>6. ASSUME NEW n \in Front!CookieName PROVE jar'[n] \in Held(n)
  <2>0. jar[n] \in Held(n) /\ None \in Held(n) BY DEF CookieInv, JarTypes, Held
  <2>1. CASE Keeping BY <2>0, <2>1 DEF Keeping
  <2>2. CASE NewForms(t)
    <3>1. CASE n = "xsrf"
      <4>1. req[t].sets["xsrf"] \in Held("xsrf") BY <2>2 DEF NewForms, Held
      <4> QED BY <1>4, <2>2, <3>1, <4>1 DEF NewForms
    <3> QED BY <2>0, <2>2, <3>1 DEF NewForms, Front!CookieName
  <2>3. ASSUME NEW tok \in Front!AuthToken, NEW soft \in Nat, NewLogin(t, tok, soft)
        PROVE  jar'[n] \in Held(n)
    <3>1. tok.user \in User /\ tok.exp \in Nat BY DEF Front!AuthToken
    <3>2. /\ [value |-> tok, exp |-> tok.exp] \in Held("at")
          /\ [value |-> "st", exp |-> soft] \in Held("st")
          /\ [value |-> tok.user, exp |-> tok.exp] \in Held("pt")
      BY <3>1, Sorts DEF Held
    <3>3. CASE n = "at" BY <1>4, <2>3, <3>2, <3>3 DEF NewLogin
    <3>4. CASE n = "st" BY <1>4, <2>3, <3>2, <3>4 DEF NewLogin
    <3>5. CASE n = "pt" BY <1>4, <2>0, <2>3, <3>2, <3>5 DEF NewLogin
    <3>6. CASE n = "xsrf" BY <2>0, <2>3, <3>6 DEF NewLogin
    <3> QED BY <3>3, <3>4, <3>5, <3>6 DEF Front!CookieName
  <2>4. CASE NoLogin BY <2>0, <2>4 DEF NoLogin
  <2> QED BY <2>1, <2>2, <2>3, <2>4 DEF Arrives
<1> QED BY <1>1, <1>3, <1>5, <1>6, IdleAgain DEF CookieInv, JarTypes

LEMMA ReceiveJar ==
  ASSUME CookieInv, NEW t \in Tab, Front!Receive(t), Arrives(t) PROVE JarInv'
<1>1. clock \in Nat BY DEF CookieInv, JarTypes, CookieAssumptions, Front!BoundAssumption
<1>2. CASE jar'["at"] = jar["at"] /\ jar'["st"] = jar["st"] /\ jar'["pt"] = jar["pt"]
  BY <1>2 DEF CookieInv, JarInv, Front!ReadersSeePictures
<1>3. ASSUME NEW tok \in Front!AuthToken, NEW soft \in Nat, soft <= tok.exp, NewLogin(t, tok, soft)
      PROVE  JarInv'
  <2>1. PICK A : A = [value |-> tok, exp |-> tok.exp] OBVIOUS
  <2>2. PICK S : S = [value |-> "st", exp |-> soft] OBVIOUS
  <2>3. PICK P : P = [value |-> tok.user, exp |-> tok.exp] OBVIOUS
  <2>4. A.exp = tok.exp /\ A.value = tok /\ S.exp = soft /\ tok.exp \in Nat /\ tok.user \in User
        /\ P.exp = tok.exp
    BY <2>1, <2>2, <2>3 DEF Front!AuthToken
  <2>5. /\ jar'["at"] = IF A # None /\ tok.exp < clock THEN None ELSE A
        /\ jar'["st"] = IF S # None /\ soft < clock THEN None ELSE S
        /\ tok.user \in Reader =>
             jar'["pt"] = IF P # None /\ tok.exp < clock THEN None ELSE P
    BY <1>3, <2>1, <2>2, <2>3, <2>4 DEF NewLogin, Front!Unexpired
  <2>6. P \in Front!Cookie("pt") /\ A \in Front!Cookie("at")
    BY <2>1, <2>3, <2>4, Sorts
  <2>7. P # None /\ A # None
    BY <2>6 DEF CookieInv, CookieAssumptions, Front!NoneAssumption, Front!CookieName
  <2>8. jar'["st"] # None => jar'["at"] # None /\ jar'["st"].exp <= jar'["at"].exp
    BY <1>1, <1>3, <2>4, <2>5, <2>7
  <2>9. jar'["at"] # None /\ tok.user \in Reader => jar'["pt"] = P /\ jar'["at"] = A
    BY <2>5, <2>7
  <2>10. jar'["at"] # None => jar'["at"] = A
    BY <2>5, <2>7
  <2> QED BY <2>3, <2>4, <2>7, <2>8, <2>9, <2>10 DEF JarInv, Front!ReadersSeePictures
<1>4. CASE NoLogin
  BY <1>4 DEF NoLogin, JarInv, Front!ReadersSeePictures, Front!CookieName
<1>5. CASE Keeping BY <1>2, <1>5 DEF Keeping, Front!CookieName
<1>6. CASE NewForms(t) BY <1>2, <1>6 DEF NewForms
<1> QED BY <1>3, <1>4, <1>5, <1>6 DEF Arrives

LEMMA ReceiveForms ==
  ASSUME CookieInv, NEW t \in Tab, Front!Receive(t), Arrives(t) PROVE CookieFormInv'
<1>1. made' = made /\ req' = [req EXCEPT ![t] = Front!Idle] /\ clock \in Nat
  BY DEF Front!Receive, CookieInv, JarTypes, CookieAssumptions, Front!BoundAssumption
<1>2. \A s \in Tab : Brings(req'[s]) => Brings(req[s]) /\ s # t /\ req'[s] = req[s]
  BY <1>1, IdleAgain
<1>3. CASE Keeping /\ gone' = gone
  <2>1. jar'["xsrf"] = jar["xsrf"] BY <1>3 DEF Keeping, Front!CookieName
  <2> QED BY <1>1, <1>2, <1>3, <2>1 DEF CookieInv, CookieFormInv
<1>4. CASE NewForms(t)
  <2>1. PICK c : c = req[t].sets["xsrf"] OBVIOUS
  <2>2. jar'["xsrf"] \in {None, c} /\ gone' = gone /\ Brings(req[t])
    BY <1>4, <2>1 DEF NewForms, Front!Unexpired
  <2>3. c.value \in (1..made) \ gone BY <2>1, <2>2 DEF CookieInv, CookieFormInv
  <2>4. \A s \in Tab : Brings(req'[s]) => c.value # req'[s].sets["xsrf"].value
    BY <1>2, <2>1, <2>2 DEF CookieInv, CookieFormInv
  <2> QED BY <1>1, <1>2, <2>2, <2>3, <2>4 DEF CookieInv, CookieFormInv
<1>5. CASE Forgets /\ jar'["xsrf"] = None
  <2>1. \A s \in Tab : Brings(req'[s]) => req'[s].sets["xsrf"].value \notin gone'
    BY <1>2, <1>5 DEF Forgets, CookieInv, CookieFormInv
  <2> QED BY <1>1, <1>2, <1>5, <2>1 DEF CookieInv, CookieFormInv
<1> QED BY <1>3, <1>4, <1>5 DEF Arrives, NewLogin, NoLogin, Front!CookieName

LEMMA ReceivePages ==
  ASSUME CookieInv, PageInv, MaxClock <= Front!xsrfTokenLifetime, NEW t \in Tab, Front!Receive(t), Arrives(t)
  PROVE  PageInv'
<1>1. /\ req' = [req EXCEPT ![t] = Front!Idle] /\ req[t].pc = "answered" /\ made' = made
      /\ page' = [page EXCEPT ![t] = req[t].shows]
  BY DEF Front!Receive
<1>2. /\ req'[t] = Front!Idle /\ Front!Idle.pc = "idle"
      /\ \A s \in Tab : s # t => req'[s] = req[s] /\ page'[s] = page[s]
      /\ page'[t] = req[t].shows
  BY <1>1, IdleAgain DEF Front!Idle, CookieInv, JarTypes
<1>3. CASE Keeping /\ stale' = stale /\ req[t].sets = <<>>
  <2>1. jar'["xsrf"] = jar["xsrf"] BY <1>3 DEF Keeping, Front!CookieName
  <2>2. ASSUME NEW s \in Tab, s \notin stale'
        PROVE  /\ req'[s].pc = "idle" => SameForm(page'[s])
               /\ req'[s].pc = "sent" => req'[s].sent["xsrf"] = jar["xsrf"]
               /\ req'[s].pc = "answered" /\ req'[s].sets = <<>> => SameForm(req'[s].shows)
    <3>1. CASE s = t BY <1>1, <1>2, <1>3, <2>2, <3>1 DEF PageInv
    <3>2. CASE s # t BY <1>2, <1>3, <2>2, <3>2 DEF PageInv
    <3> QED BY <3>1, <3>2
  <2> QED BY <2>1, <2>2 DEF PageInv, SameForm
<1>4. CASE NewForms(t)
  <2>1. PICK c : c = req[t].sets["xsrf"] OBVIOUS
  <2>2. c.exp >= Front!xsrfTokenLifetime /\ c # None /\ req[t].shows = c.value /\ c.exp \in Nat
    <3>0. c \in [value : Front!Xsrf, exp : Nat] BY <1>4, <2>1, Sorts DEF NewForms
    <3>1. c.exp \in Nat BY <3>0
    <3> QED BY <1>4, <2>1, <3>1 DEF NewForms, Brings
  <2>3. clock \in Nat /\ clock <= MaxClock /\ MaxClock \in Nat /\ Front!xsrfTokenLifetime \in Nat
    BY DEF CookieInv, JarTypes, CookieAssumptions, Front!BoundAssumption,
        Front!xsrfTokenLifetime
  <2>4. ~(c.exp < clock) BY <2>2, <2>3
  <2>5. jar'["xsrf"] = c BY <1>4, <2>1, <2>4 DEF NewForms, Front!Unexpired
  <2>6. \A s \in Tab : s \notin stale' => s = t BY <1>4 DEF NewForms
  <2> QED BY <1>2, <2>2, <2>5, <2>6 DEF PageInv, SameForm
<1>5. ASSUME NEW tok \in Front!AuthToken, NEW soft \in Nat, NewLogin(t, tok, soft)
      PROVE  PageInv'
  <2>1. \A s \in Tab : s \notin stale' => s = t BY <1>5 DEF NewLogin
  <2>2. jar'["xsrf"] = None /\ page'[t] = None BY <1>2, <1>5 DEF NewLogin
  <2> QED BY <1>2, <2>1, <2>2 DEF PageInv, SameForm
<1>6. CASE NoLogin
  BY <1>6 DEF NoLogin, PageInv, Front!CookieName
<1> QED BY <1>3, <1>4, <1>5, <1>6 DEF Arrives

LEMMA ReceiveTokens ==
  ASSUME CookieInv, TokenInv, NEW t \in Tab, Front!Receive(t), Arrives(t) PROVE TokenInv'
<1>1. /\ req' = [req EXCEPT ![t] = Front!Idle] /\ made' = made
      /\ live' = live /\ nextId' = nextId
  BY DEF Front!Receive
<1>2. /\ \A s \in Tab : s # t => req'[s] = req[s]
      /\ \A s \in Tab : Gives(req'[s]) => Gives(req[s]) /\ s # t /\ req'[s] = req[s]
      /\ \A s \in Tab : req'[s].sent["at"] # None => s # t /\ req'[s] = req[s]
  BY <1>1, IdleAgain
<1>3. ASSUME jar'["at"] # None =>
               /\ Issued(jar'["at"].value, nextId)
               /\ \A s \in Tab : s # t /\ Gives(req[s]) => ~Same(jar'["at"].value, TokenOf(req[s])),
             LatestCookies'
      PROVE  TokenInv'
  <2>1. \A s \in Tab : req'[s].sent["at"] # None =>
          /\ req[s].sent["at"] # None /\ req'[s].sent["at"] = req[s].sent["at"]
          /\ Issued(req'[s].sent["at"].value, nextId')
    BY <1>1, <1>2 DEF TokenInv
  <2>2. ASSUME NEW s \in Tab, Gives(req'[s])
        PROVE  /\ Issued(TokenOf(req'[s]), nextId')
               /\ TokenOf(req'[s]).id \in live'[TokenOf(req'[s]).user]
               /\ jar'["at"] # None => ~Same(jar'["at"].value, TokenOf(req'[s]))
               /\ \A v \in Tab : req'[v].sent["at"] # None =>
                    ~Same(req'[v].sent["at"].value, TokenOf(req'[s]))
    <3>1. Gives(req[s]) /\ s # t /\ req'[s] = req[s] BY <1>2, <2>2
    <3> QED BY <1>1, <1>3, <2>1, <3>1 DEF TokenInv
  <2>3. \A s, v \in Tab : Gives(req'[s]) /\ Gives(req'[v]) /\ Same(TokenOf(req'[v]), TokenOf(req'[s]))
          => v = s
    BY <1>2 DEF TokenInv
  <2> QED BY <1>1, <1>3, <2>1, <2>2, <2>3 DEF TokenInv, LatestCookies, Gives, TokenOf
<1>4. CASE jar'["at"] = jar["at"] /\ ~LogsOut(req[t])
  <2>1. LatestCookies' BY <1>1, <1>2, <1>4 DEF TokenInv, LatestCookies
  <2> QED BY <1>3, <1>4, <2>1 DEF TokenInv
<1>5. CASE jar'["at"] = None
  <2>1. LatestCookies' BY <1>5 DEF LatestCookies
  <2> QED BY <1>3, <1>5, <2>1
<1>6. ASSUME NEW tok \in Front!AuthToken, NEW soft \in Nat, NewLogin(t, tok, soft)
      PROVE  TokenInv'
  <2>1. jar'["at"] # None => jar'["at"].value = tok
    <3>1. PICK A : A = [value |-> tok, exp |-> tok.exp] OBVIOUS
    <3>2. A.value = tok BY <3>1
    <3>3. jar'["at"] = Front!Unexpired(A, clock) BY <1>6, <3>1 DEF NewLogin
    <3> QED BY <3>2, <3>3 DEF Front!Unexpired
  <2>2. Gives(req[t]) /\ TokenOf(req[t]) = tok BY <1>6 DEF NewLogin
  <2>3. Issued(tok, nextId) /\ tok.id \in live[tok.user] BY <2>2 DEF TokenInv
  <2>4. \A s \in Tab : s # t /\ Gives(req[s]) => ~Same(tok, TokenOf(req[s]))
    BY <2>2 DEF TokenInv, Same
  <2>5. LatestCookies' BY <1>1, <2>1, <2>3 DEF LatestCookies
  <2> QED BY <1>3, <2>1, <2>3, <2>4, <2>5
<1>7. CASE Keeping /\ req[t].sets = <<>>
  <2>1. ~LogsOut(req[t])
    <3>1. DOMAIN req[t].sets = {} BY <1>7, EmptySets
    <3>2. "at" \in DOMAIN Front!Destroyed BY DEF Front!Destroyed, Front!CookieName
    <3> QED BY <3>1, <3>2 DEF LogsOut
  <2> QED BY <1>4, <1>7, <2>1 DEF Keeping, Front!CookieName
<1>8. CASE NewForms(t)
  <2>1. ~LogsOut(req[t]) BY <1>8 DEF NewForms, Brings, LogsOut, Front!Destroyed
  <2> QED BY <1>4, <1>8, <2>1 DEF NewForms
<1>9. CASE NoLogin BY <1>5, <1>9 DEF NoLogin, Front!CookieName
<1> QED BY <1>6, <1>7, <1>8, <1>9 DEF Arrives

LEMMA ReceiveKeeps ==
  ASSUME CookieInv, NEW t \in Tab, Front!Receive(t) PROVE CookieInv'
<1>1. Arrives(t) BY ReceiveArrives
<1> QED
  BY <1>1, ReceiveTypes, ReceiveJar, ReceiveForms, ReceivePages, ReceiveTokens DEF CookieInv

-----------------------------------------------------------------------------
\* The answer is lost.
LEMMA LoseKeeps ==
  ASSUME CookieInv, NEW t \in Tab, Front!Lose(t) PROVE CookieInv'
<1>1. /\ Lossy /\ req' = [req EXCEPT ![t] = Front!Idle] /\ page' = [page EXCEPT ![t] = None]
      /\ UNCHANGED <<clock, jar, live, nextId, made, gone, stale>>
  BY DEF Front!Lose
<1>2. /\ \A s \in Tab : s # t => req'[s] = req[s] /\ page'[s] = page[s]
      /\ req'[t] = Front!Idle /\ Front!Idle.pc = "idle" /\ page'[t] = None
      /\ \A s \in Tab : Brings(req'[s]) => Brings(req[s]) /\ s # t /\ req'[s] = req[s]
  BY <1>1, IdleAgain DEF Front!Idle, CookieInv, JarTypes
<1>3. JarTypes' BY <1>1, IdleAgain DEF CookieInv, JarTypes
<1>4. JarInv' BY <1>1 DEF CookieInv, JarInv, Front!ReadersSeePictures
<1>5. CookieFormInv' BY <1>1, <1>2 DEF CookieInv, CookieFormInv
<1>6. ASSUME PageInv PROVE PageInv'
  <2>1. ASSUME NEW s \in Tab, s \notin stale'
        PROVE  /\ req'[s].pc = "idle" => SameForm(page'[s])
               /\ req'[s].pc = "sent" => req'[s].sent["xsrf"] = jar["xsrf"]
               /\ req'[s].pc = "answered" /\ req'[s].sets = <<>> => SameForm(req'[s].shows)
    <3>1. CASE s = t BY <1>2, <3>1 DEF SameForm
    <3>2. CASE s # t BY <1>1, <1>2, <1>6, <2>1, <3>2 DEF PageInv
    <3> QED BY <3>1, <3>2
  <2> QED BY <1>1, <1>6, <2>1 DEF PageInv, SameForm
<1> QED BY <1>1, <1>3, <1>4, <1>5, <1>6 DEF CookieInv

\* Time passes.
LEMMA TickKeeps == ASSUME CookieInv, Front!Tick PROVE CookieInv'
<1>1. PICK now : now = clock + HourStep OBVIOUS
<1>2. /\ clock' = now /\ now \in 0..MaxClock /\ now \in Nat /\ MaxClock \in Nat
      /\ UNCHANGED <<page, req, live, nextId, made, gone, stale>>
  BY <1>1 DEF Front!Tick, CookieInv, JarTypes, CookieAssumptions, Front!BoundAssumption
<1>3. \A n \in Front!CookieName : jar'[n] = Front!Unexpired(jar[n], now)
  BY <1>1, <1>2 DEF Front!Tick
<1>4. \A n \in Front!CookieName :
        /\ jar'[n] \in Held(n) /\ (jar'[n] # None => jar'[n] = jar[n])
        /\ jar[n] # None => jar[n].exp \in Nat /\ (jar'[n] = None <=> jar[n].exp < now)
  BY <1>2, <1>3, Keeps DEF CookieInv, JarTypes
<1>5. JarTypes'
  <2>1. ASSUME NEW s \in Tab PROVE RequestOK(req[s])'
    <3>1. RequestOK(req[s]) BY DEF CookieInv, JarTypes
    <3> QED BY <1>2, <3>1 DEF RequestOK, SetsForm, LogsIn, LogsOut
  <2> QED BY <1>2, <1>4, <2>1 DEF CookieInv, JarTypes
<1>6. JarInv'
  BY <1>2, <1>4 DEF CookieInv, JarInv, Front!ReadersSeePictures, Front!CookieName
<1>7. CookieFormInv' BY <1>2, <1>4 DEF CookieInv, CookieFormInv, Front!CookieName
<1>8. ASSUME PageInv, MaxClock <= Front!xsrfTokenLifetime PROVE PageInv'
  <2>1. Front!xsrfTokenLifetime \in Nat BY DEF Front!xsrfTokenLifetime
  <2>2. jar["xsrf"] # None => jar["xsrf"].exp \in Nat /\ ~(jar["xsrf"].exp < now)
    BY <1>2, <1>4, <1>8, <2>1 DEF PageInv, Front!CookieName
  <2>3. jar'["xsrf"] = jar["xsrf"] BY <1>4, <2>2 DEF Front!CookieName
  <2> QED BY <1>2, <1>8, <2>3 DEF PageInv, SameForm
<1>9. ASSUME TokenInv PROVE TokenInv'
  <2>1. jar'["at"] # None => jar'["at"] = jar["at"] BY <1>4 DEF Front!CookieName
  <2> QED BY <1>2, <1>9, <2>1 DEF TokenInv, Gives, TokenOf
<1> QED BY <1>5, <1>6, <1>7, <1>8, <1>9 DEF CookieInv

-----------------------------------------------------------------------------
LEMMA CookiesInit == ASSUME CookieAssumptions, Front!Init PROVE CookieInv
<1>1. \A n \in Front!CookieName : None \in Held(n) /\ jar[n] = None
  BY DEF Front!Init, Front!Empty, Held
<1>2. \A t \in Tab : /\ req[t] = Front!Idle /\ Front!Idle.pc = "idle" /\ Front!Idle.sent["at"] = None
                     /\ page[t] = None
  BY DEF Front!Init, Front!Idle, Front!Empty, Front!CookieName
<1>3. RequestOK(Front!Idle)
  <2>1. \A n \in Front!CookieName : None \in Held(n) /\ Front!Idle.sent[n] = None
    BY DEF Held, Front!Idle, Front!Empty
  <2> QED BY <2>1 DEF RequestOK, Front!Idle
<1>4. JarTypes
  <2>1. /\ clock \in 0..MaxClock /\ made \in 0..MaxXsrf
        /\ nextId \in [User -> 0..MaxTokenId]
    BY DEF Front!Init, CookieAssumptions, Front!BoundAssumption
  <2> QED BY <1>1, <1>2, <1>3, <2>1 DEF Front!Init, JarTypes
<1>5. jar["at"] = None /\ jar["st"] = None /\ jar["xsrf"] = None
  BY <1>1 DEF Front!CookieName
<1>6. \A t \in Tab : ~Brings(req[t]) /\ ~Gives(req[t]) BY <1>2 DEF Brings, Gives
<1>7. JarInv /\ CookieFormInv
  BY <1>5, <1>6 DEF JarInv, CookieFormInv, Front!ReadersSeePictures
<1>8. PageInv BY <1>2, <1>5 DEF PageInv, SameForm
<1>9. TokenInv BY <1>2, <1>5, <1>6 DEF TokenInv
<1> QED BY <1>4, <1>7, <1>8, <1>9 DEF CookieInv

LEMMA CookiesStep == ASSUME CookieInv, [Front!Next]_(Front!vars) PROVE CookieInv'
<1>1. CASE UNCHANGED Front!vars
  <2>1. /\ UNCHANGED <<clock, jar, page, req, live, nextId, made, gone, stale>>
    BY <1>1 DEF Front!vars
  <2>2. JarTypes'
    <3>1. ASSUME NEW s \in Tab PROVE RequestOK(req[s])'
      <4>1. RequestOK(req[s]) BY DEF CookieInv, JarTypes
      <4> QED BY <2>1, <4>1 DEF RequestOK, SetsForm, LogsIn, LogsOut
    <3> QED BY <2>1, <3>1 DEF CookieInv, JarTypes
  <2>3. JarInv' /\ CookieFormInv'
    BY <2>1 DEF CookieInv, JarInv, CookieFormInv, Front!ReadersSeePictures
  <2>4. (PageInv => PageInv') /\ (TokenInv => TokenInv')
    BY <2>1 DEF PageInv, TokenInv, SameForm, Gives, TokenOf
  <2> QED BY <2>2, <2>3, <2>4 DEF CookieInv
<1>2. ASSUME NEW t \in Tab, NEW k \in Kinds, NEW u \in User \cup {None}, Front!Send(t, k, u)
      PROVE  CookieInv'
  BY <1>2, SendKeeps
<1>3. ASSUME NEW t \in Tab, Front!Serve(t) PROVE CookieInv'
  BY <1>3, ServeKeeps
<1>4. ASSUME NEW t \in Tab, Front!Receive(t) PROVE CookieInv'
  BY <1>4, ReceiveKeeps
<1>5. ASSUME NEW t \in Tab, Front!Lose(t) PROVE CookieInv'
  BY <1>5, LoseKeeps
<1>6. CASE Front!Tick BY <1>6, TickKeeps
<1> QED BY <1>1, <1>2, <1>3, <1>4, <1>5, <1>6 DEF Front!Next

LEMMA CookiesInductive == CookieAssumptions /\ Front!Spec => []CookieInv
<1>1. CookieAssumptions /\ Front!Init => CookieInv BY CookiesInit
<1>2. CookieInv /\ [Front!Next]_(Front!vars) => CookieInv' BY CookiesStep
<1> QED BY <1>1, <1>2, PTL DEF Front!Spec

\* The browser's cookies, the requests of its tabs and the tokens of the back
\* end stay well formed, whatever the order of requests and answers.
THEOREM CookieTypes == CookieAssumptions /\ Front!Spec => []Front!TypeOK
<1>1. CookieInv => Front!TypeOK
  <2> SUFFICES ASSUME CookieInv PROVE Front!TypeOK
    OBVIOUS
  <2>1. gone \subseteq Front!Xsrf
    BY DEF CookieInv, JarTypes, Front!Xsrf, CookieAssumptions, Front!BoundAssumption
  <2>2. ASSUME NEW t \in Tab
        PROVE  /\ req[t].pc \in {"idle", "sent", "answered"} /\ req[t].kind \in Front!Kind
               /\ req[t].field \in Front!Xsrf \cup {None}
               /\ req[t].shows \in Front!Xsrf \cup {None} /\ req[t].ok \in BOOLEAN
    BY DEF CookieInv, JarTypes, RequestOK, CookieAssumptions, Front!KindAssumption,
        Front!Kind
  <2> QED BY <2>1, <2>2 DEF CookieInv, JarTypes, Front!TypeOK, Held
<1> QED BY <1>1, CookiesInductive, PTL

\* However the answers of several tabs are ordered, lost or late: the soft cookie
\* never outlives the auth cookie, a reader's picture cookie is that of the user
\* who is logged in and lasts as long, and an xsrf token that a login or logout
\* destroyed never comes back.
THEOREM LoginsAgree ==
  CookieAssumptions /\ Front!Spec =>
    [](Front!SoftMeansAuth /\ Front!ReadersSeePictures /\ Front!FormsDieWithLogin)
<1>1. CookieInv => Front!SoftMeansAuth /\ Front!ReadersSeePictures /\ Front!FormsDieWithLogin
  BY DEF CookieInv, JarInv, CookieFormInv, Front!SoftMeansAuth, Front!FormsDieWithLogin
<1> QED BY <1>1, CookiesInductive, PTL

\* In the ten years that an xsrf cookie lasts, the forms of a page that no later
\* answer made stale work as well; and if nothing is lost or refreshed, the auth
\* cookie's token is one that the back end still has.
THEOREM CookiesStayRight ==
  CookieAssumptions /\ MaxClock <= Front!xsrfTokenLifetime /\ Front!Spec => []Front!CookiesAgree
<1> SUFFICES ASSUME MaxClock <= Front!xsrfTokenLifetime
             PROVE  CookieAssumptions /\ Front!Spec => []Front!CookiesAgree
  OBVIOUS
<1>1. CookieInv => Front!CookiesAgree
  <2> SUFFICES ASSUME CookieInv PROVE Front!CookiesAgree
    OBVIOUS
  <2>1. Front!SoftMeansAuth /\ Front!ReadersSeePictures /\ Front!FormsDieWithLogin
    BY DEF CookieInv, JarInv, CookieFormInv, Front!SoftMeansAuth, Front!FormsDieWithLogin
  <2>2. Front!FreshPageWorks BY DEF CookieInv, PageInv, SameForm, Front!FreshPageWorks
  <2>3. ASSUME ~Lossy, "refresh" \notin Kinds PROVE Front!AuthCookieIsLive
    <3>1. \A t \in Tab : req[t].pc = "answered" /\ LogsOut(req[t]) =>
            ~(req[t].pc = "idle" \/ req[t].kind # "logout")
      BY DEF LogsOut
    <3> QED BY <2>3, <3>1 DEF CookieInv, TokenInv, Front!AuthCookieIsLive
  <2> QED BY <2>1, <2>2, <2>3 DEF Front!CookiesAgree
<1> QED BY <1>1, CookiesInductive, PTL

-----------------------------------------------------------------------------
(***************************************************************************)
(* The back end's users and tokens.                                        *)
(*                                                                         *)
(* Ids of tokens grow with the row that gives them out, and no row is ever *)
(* deleted: a token that was handed out has an id of 1..next, so no later  *)
(* login can make it again.  UserStep is all that a step does to the table *)
(* and the tokens; UserStepFacts is what follows from that alone.          *)
(***************************************************************************)
CONSTANTS Ident, Request, Server, Lag, ClockTick, Threshold, maxUserTokens, CapOf,
          AnonCap, Changes, NoUser
VARIABLES backUsers, backClock, tokens, backReq, view

Back == INSTANCE Sessions WITH
  users <- backUsers, clock <- backClock, req <- backReq, Tick <- ClockTick

\* The instance counts as this module does.
LEMMA BackCounts == \A S : Back!Cardinality(S) = Cardinality(S)
BY DEF Back!Cardinality, Cardinality

BackAssumptions == /\ Back!CapAssumption /\ Back!ClockAssumption /\ Back!TokenAssumption
               /\ Back!NoneAssumption /\ Back!NoUserAssumption

\* The tokens of a row have different ids, which the row has given out.
RowOK(row) ==
  /\ IsFiniteSet(row.tokens) /\ Cardinality(row.tokens) <= maxUserTokens
  /\ \A x, y \in row.tokens : x.id = y.id => x = y
  /\ \A x \in row.tokens : x.id \in 1..row.next

Rows ==
  /\ backUsers \in [User -> {NoUser} \cup Back!UserRow]
  /\ \A u \in Back!Users : RowOK(backUsers[u])

\* The tokens that were handed out, and those that users have.
Handed ==
  /\ \A t \in tokens : t \in Back!Token /\ Back!Known(t.user) /\ t.id \in 1..backUsers[t.user].next
  /\ \A u \in Back!Users : \A id \in Back!Ids(u) : [user |-> u, id |-> id] \in tokens

\* What the task of a request relies on.
ReqRow == [pc : {"idle", "auth", "upgrade", "insert"}, kind : Back!Kind,
           tok : Back!Token \cup {Back!NoToken}, now : Int, out : Back!Outcome,
           obj : User \cup {None}, ident : Ident \cup {None}, change : Changes \cup {None}]
ReqOK(q) ==
  /\ q \in ReqRow
  /\ q.tok \in tokens \cup {Back!NoToken}
  /\ q.pc # "idle" =>
       /\ q.kind \in {"lookup", "update"} => Back!Known(q.obj)
       /\ q.kind = "update" => q.change \in Changes
       /\ q.kind = "unauth" => q.tok # Back!NoToken
       /\ q.kind = "create" => q.ident \in Ident
  /\ q.pc = "insert" => q.kind = "create"

ViewRow == [user : User, ver : Int, caps : SUBSET Back!Cap]
ViewOK(v) == v = None \/ (v \in ViewRow /\ Back!Known(v.user))

Requests ==
  /\ backClock \in 0..MaxClock
  /\ backReq = [r \in Request |-> backReq[r]] /\ \A r \in Request : ReqOK(backReq[r])
  /\ view = [r \in Request |-> view[r]] /\ \A r \in Request : ViewOK(view[r])

BackInv == BackAssumptions /\ Rows /\ Handed /\ Back!IdentsDiffer /\ Requests

-----------------------------------------------------------------------------
\* Steps of the Users table.

\* Row u is written, and tokens of u may be handed out: new ones have new ids.
RowStep(u, row) ==
  /\ u \in Back!Users /\ backUsers' = [backUsers EXCEPT ![u] = row]
  /\ row \in Back!UserRow /\ RowOK(row)
  /\ row.ident = backUsers[u].ident /\ backUsers[u].next <= row.next
  /\ \A x \in row.tokens : x.id \in Back!Ids(u) \/ x.id > backUsers[u].next
  /\ tokens \subseteq tokens'
  /\ \A t \in tokens' \ tokens :
       /\ t \in Back!Token /\ t.user = u
       /\ \E x \in row.tokens : x.id = t.id
  /\ \A x \in row.tokens : [user |-> u, id |-> x.id] \in tokens'

\* Row u is new.
NewRow(u, row) ==
  /\ u \in User \ Back!Users /\ backUsers' = [backUsers EXCEPT ![u] = row]
  /\ row \in Back!UserRow /\ row.tokens = {} /\ row.next = 0
  /\ \A v \in Back!Users : backUsers[v].ident # row.ident
  /\ tokens' = tokens

UserStep == \/ UNCHANGED <<backUsers, tokens>>
            \/ \E u \in User, row \in Back!UserRow : RowStep(u, row) \/ NewRow(u, row)

\* What a step of the table keeps, and what is always so of tokens.
LEMMA UserStepFacts ==
  ASSUME BackInv, UserStep
  PROVE  /\ Rows' /\ Handed' /\ Back!IdentsDiffer'
         /\ tokens \subseteq tokens'
         /\ \A u : Back!Known(u) => Back!Known(u)'
         /\ Back!StayDead /\ Back!IssuedAreKept
<1>1. CASE UNCHANGED <<backUsers, tokens>>
  BY <1>1
       DEF BackInv, Rows, Handed, Back!IdentsDiffer, Back!Users, Back!Known, Back!Ids,
           Back!StayDead, Back!IssuedAreKept
<1>2. /\ backUsers \in [User -> {NoUser} \cup Back!UserRow] /\ NoUser \notin Back!UserRow
      /\ \A v \in Back!Users : backUsers[v] \in Back!UserRow /\ RowOK(backUsers[v])
      /\ \A v : v \in Back!Users <=> Back!Known(v)
  BY DEF BackInv, Rows, Back!Users, Back!Known, BackAssumptions, Back!NoUserAssumption
<1>3. /\ \A t \in tokens : t \in Back!Token /\ t.user \in Back!Users /\ t.id \in 1..backUsers[t.user].next
      /\ \A v \in Back!Users : \A x \in backUsers[v].tokens : [user |-> v, id |-> x.id] \in tokens
  BY <1>2 DEF BackInv, Handed, Back!Ids
<1>4. \A v \in Back!Users : backUsers[v].next \in Nat BY <1>2 DEF Back!UserRow
<1>5. ASSUME NEW u \in User, NEW row \in Back!UserRow, RowStep(u, row)
      PROVE  /\ Rows' /\ Handed' /\ Back!IdentsDiffer'
             /\ tokens \subseteq tokens'
             /\ \A v : Back!Known(v) => Back!Known(v)'
             /\ Back!StayDead /\ Back!IssuedAreKept
  <2>1. /\ u \in Back!Users /\ row.next \in Nat /\ row # NoUser
        /\ backUsers'[u] = row
        /\ \A v \in User : v # u => backUsers'[v] = backUsers[v]
        /\ backUsers' \in [User -> {NoUser} \cup Back!UserRow]
    BY <1>2, <1>5 DEF RowStep, Back!UserRow
  <2>2. \A v : Back!Known(v)' <=> Back!Known(v) BY <1>2, <2>1 DEF Back!Known
  <2>3. Back!Users' = Back!Users BY <2>2 DEF Back!Users, Back!Known
  <2>4. Rows' BY <1>2, <1>5, <2>1, <2>3 DEF Rows, RowStep
  <2>5. Back!IdentsDiffer'
    <3>1. \A v \in Back!Users : backUsers'[v].ident = backUsers[v].ident
      BY <1>5, <2>1, <1>2 DEF RowStep
    <3> QED BY <2>3, <3>1 DEF BackInv, Back!IdentsDiffer
  <2>6. \A v \in Back!Users : v # u => backUsers'[v] = backUsers[v] BY <2>1 DEF Back!Users
  <2>7. \A v \in Back!Users : v # u => Back!Ids(v)' = Back!Ids(v) BY <2>6 DEF Back!Ids
  <2>8. Back!Ids(u)' = {x.id : x \in row.tokens} BY <2>1 DEF Back!Ids
  <2>9. Handed'
    <3>1. ASSUME NEW t \in tokens'
          PROVE  t \in Back!Token /\ Back!Known(t.user)' /\ t.id \in 1..backUsers'[t.user].next
      <4>1. CASE t \in tokens
        <5>1. CASE t.user = u
          <6>1. backUsers[u].next <= row.next BY <1>5 DEF RowStep
          <6> QED BY <1>2, <1>3, <1>4, <2>1, <2>2, <4>1, <5>1, <6>1
        <5>2. CASE t.user # u BY <1>2, <1>3, <2>2, <2>6, <4>1, <5>2
        <5> QED BY <5>1, <5>2
      <4>2. CASE t \notin tokens
        <5>1. t \in Back!Token /\ t.user = u /\ \E x \in row.tokens : x.id = t.id
          BY <1>5, <4>2 DEF RowStep
        <5>2. t.id \in 1..row.next BY <1>5, <5>1 DEF RowStep, RowOK
        <5> QED BY <1>2, <2>1, <2>2, <5>1, <5>2
      <4> QED BY <4>1, <4>2
    <3>2. ASSUME NEW v \in Back!Users, NEW id \in Back!Ids(v)'
          PROVE  [user |-> v, id |-> id] \in tokens'
      <4>1. CASE v = u BY <1>5, <2>8, <3>2, <4>1 DEF RowStep
      <4>2. CASE v # u BY <1>3, <1>5, <2>7, <3>2, <4>2 DEF RowStep, Back!Ids
      <4> QED BY <4>1, <4>2
    <3> QED BY <2>3, <3>1, <3>2 DEF Handed
  <2>10. Back!StayDead
    <3> SUFFICES ASSUME NEW t \in tokens, t.id \notin Back!Ids(t.user)
                 PROVE  t.id \notin Back!Ids(t.user)'
      BY DEF Back!StayDead
    <3>1. t.user \in Back!Users /\ t.id \in 1..backUsers[t.user].next BY <1>3
    <3>2. CASE t.user = u
      <4>1. \A x \in row.tokens : x.id \in Back!Ids(u) \/ x.id > backUsers[u].next
        BY <1>5 DEF RowStep
      <4>2. \A x \in row.tokens : x.id # t.id BY <1>4, <2>1, <3>1, <3>2, <4>1
      <4> QED BY <2>8, <3>2, <4>2
    <3>3. CASE t.user # u BY <2>7, <3>1, <3>3
    <3> QED BY <3>2, <3>3
  <2>11. Back!IssuedAreKept
    <3> SUFFICES ASSUME NEW t \in tokens' \ tokens
                 PROVE  Back!Known(t.user)' /\ t.id \in Back!Ids(t.user)'
      BY DEF Back!IssuedAreKept
    <3> QED BY <1>2, <1>5, <2>1, <2>2, <2>8 DEF RowStep
  <2>12. tokens \subseteq tokens' BY <1>5 DEF RowStep
  <2> QED BY <2>2, <2>4, <2>5, <2>9, <2>10, <2>11, <2>12
<1>6. ASSUME NEW u \in User, NEW row \in Back!UserRow, NewRow(u, row)
      PROVE  /\ Rows' /\ Handed' /\ Back!IdentsDiffer'
             /\ tokens \subseteq tokens'
             /\ \A v : Back!Known(v) => Back!Known(v)'
             /\ Back!StayDead /\ Back!IssuedAreKept
  <2>1. /\ u \notin Back!Users /\ row # NoUser /\ tokens' = tokens
        /\ row.tokens = {} /\ row.next = 0
        /\ backUsers'[u] = row
        /\ \A v \in User : v # u => backUsers'[v] = backUsers[v]
        /\ backUsers' \in [User -> {NoUser} \cup Back!UserRow]
    BY <1>2, <1>6 DEF NewRow
  <2>2. \A v : Back!Known(v)' <=> Back!Known(v) \/ v = u BY <1>2, <2>1 DEF Back!Known
  <2>3. Back!Users' = Back!Users \cup {u} BY <2>2 DEF Back!Users, Back!Known
  <2>4. RowOK(row)
    <3>1. maxUserTokens \in Nat BY DEF BackInv, BackAssumptions, Back!TokenAssumption
    <3> QED BY <2>1, <3>1, FS_EmptySet DEF RowOK
  <2>5. \A v \in Back!Users : v # u /\ backUsers'[v] = backUsers[v]
    BY <1>2, <2>1 DEF Back!Users
  <2>6. Rows' BY <1>2, <2>1, <2>3, <2>4, <2>5 DEF Rows
  <2>7. Back!IdentsDiffer'
    <3>1. \A v \in Back!Users : backUsers[v].ident # row.ident BY <1>6 DEF NewRow
    <3> QED BY <2>1, <2>3, <2>5, <3>1 DEF BackInv, Back!IdentsDiffer
  <2>8. Back!Ids(u)' = {} /\ \A v \in Back!Users : Back!Ids(v)' = Back!Ids(v) BY <2>1, <2>5
       DEF Back!Ids
  <2>9. Handed' BY <1>2, <1>3, <2>1, <2>2, <2>3, <2>5, <2>8 DEF Handed, Back!Ids
  <2>10. Back!StayDead BY <1>3, <2>8 DEF Back!StayDead
  <2>11. Back!IssuedAreKept BY <2>1 DEF Back!IssuedAreKept
  <2> QED BY <2>1, <2>2, <2>6, <2>7, <2>9, <2>10, <2>11
<1> QED BY <1>1, <1>5, <1>6 DEF UserStep

-----------------------------------------------------------------------------
\* Sets of tokens.

\* An image is finite and no larger, and as large if no two elements meet in it.
LEMMA ImageFacts ==
  ASSUME NEW S, IsFiniteSet(S), NEW T, NEW f \in [S -> T], T = {f[x] : x \in S}
  PROVE  /\ IsFiniteSet(T) /\ Cardinality(T) <= Cardinality(S)
         /\ (\A x, y \in S : f[x] = f[y] => x = y) => Cardinality(T) = Cardinality(S)
<1>1. f \in Surjection(S, T) BY DEF Surjection
<1>2. (\A x, y \in S : f[x] = f[y] => x = y) => f \in Injection(S, T)
  BY DEF Injection, IsInjective
<1> QED BY <1>1, <1>2, FS_Surjection

\* What is kept of a set of tokens is part of it, and not too much.
LEMMA KeptFacts ==
  ASSUME NEW S, IsFiniteSet(S), maxUserTokens \in Nat, NEW K \in Back!Kept(S)
  PROVE  K \subseteq S /\ IsFiniteSet(K) /\ Cardinality(K) <= maxUserTokens
<1>1. K \subseteq S BY DEF Back!Kept, Back!Evicted
<1>2. IsFiniteSet(K) BY <1>1, FS_Subset
<1>3. Cardinality(K) <= maxUserTokens
  <2>1. CASE Cardinality(S) <= maxUserTokens BY <2>1, BackCounts DEF Back!Kept
  <2>2. CASE ~(Cardinality(S) <= maxUserTokens)
    <3>1. Cardinality(K) = maxUserTokens BY <2>2, BackCounts DEF Back!Kept, Back!Evicted
    <3> QED BY <3>1
  <2> QED BY <2>1, <2>2
<1> QED BY <1>1, <1>2, <1>3

\* Some of the tokens of a row are still right.
LEMMA PartOK ==
  ASSUME NEW row \in Back!UserRow, RowOK(row), NEW K \in SUBSET row.tokens,
         maxUserTokens \in Nat
  PROVE  /\ IsFiniteSet(K) /\ Cardinality(K) <= maxUserTokens
         /\ K \in SUBSET [id : Nat, seen : Int]
<1>1. IsFiniteSet(row.tokens) /\ Cardinality(row.tokens) <= maxUserTokens BY DEF RowOK
<1>2. Cardinality(K) <= Cardinality(row.tokens) /\ IsFiniteSet(K) BY <1>1, FS_Subset
<1>3. Cardinality(K) \in Nat /\ Cardinality(row.tokens) \in Nat
  BY <1>1, <1>2, FS_CardinalityType
<1>4. K \in SUBSET [id : Nat, seen : Int] BY DEF Back!UserRow
<1> QED BY <1>1, <1>2, <1>3, <1>4

-----------------------------------------------------------------------------
\* What each step does to the table.

\* A row that is only looked at, or whose tokens are some of those it had.
LEMMA FewerTokens ==
  ASSUME BackInv, NEW u \in Back!Users, NEW row \in Back!UserRow,
         backUsers' = [backUsers EXCEPT ![u] = row], tokens' = tokens,
         row.ident = backUsers[u].ident, row.next = backUsers[u].next,
         IsFiniteSet(row.tokens), Cardinality(row.tokens) <= maxUserTokens,
         \A x, y \in row.tokens : x.id = y.id => x = y,
         \A x \in row.tokens : x.id \in Back!Ids(u)
  PROVE  UserStep
<1>1. backUsers[u] \in Back!UserRow /\ RowOK(backUsers[u]) /\ u \in User
  BY DEF BackInv, Rows, Back!Users, Back!Known
<1>2. \A id \in Back!Ids(u) : id \in 1..backUsers[u].next /\ [user |-> u, id |-> id] \in tokens
  BY <1>1 DEF BackInv, Handed, RowOK, Back!Ids
<1>3. RowOK(row) BY <1>2 DEF RowOK
<1>4. backUsers[u].next <= row.next BY <1>1 DEF Back!UserRow
<1>5. RowStep(u, row) BY <1>2, <1>3, <1>4 DEF RowStep
<1> QED BY <1>1, <1>5 DEF UserStep

\* The time that authedJob writes (lookupAndUpdateUser).
LEMMA SeenSteps == ASSUME BackInv, NEW r \in Request, Back!WriteSeen(r) PROVE UserStep
<1>1. PICK q : q = backReq[r] OBVIOUS
<1>2. q \in ReqRow /\ q.now \in Int BY <1>1 DEF BackInv, Requests, ReqOK, ReqRow
<1>3. PICK u : u = q.tok.user OBVIOUS
<1>4. PICK old : old = backUsers[u] OBVIOUS
<1>5. /\ u \in Back!Users /\ old \in Back!UserRow /\ RowOK(old)
  BY <1>1, <1>3, <1>4 DEF BackInv, Rows, Back!WriteSeen, Back!Live, Back!Users, Back!Known
<1> DEFINE Late(x) == x.id = q.tok.id /\ Back!Old(r, x.seen)
           New(x) == IF Late(x) THEN [x EXCEPT !.seen = q.now] ELSE x
           T == {New(x) : x \in old.tokens}
           s == IF Back!Old(r, old.seen) THEN q.now ELSE old.seen
           row == [old EXCEPT !.ver = q.now, !.seen = s, !.tokens = T]
<1>6. backUsers' = [backUsers EXCEPT ![u] = row] /\ tokens' = tokens
  BY <1>1, <1>3, <1>4 DEF Back!WriteSeen, Back!Seen
<1>7. ASSUME NEW x \in old.tokens
      PROVE  New(x) \in [id : Nat, seen : Int] /\ New(x).id = x.id
  <2>1. x \in [id : Nat, seen : Int] BY <1>5 DEF Back!UserRow
  <2> QED BY <1>2, <2>1
<1> HIDE DEF New
<1>8. s \in Back!Time /\ T \in SUBSET [id : Nat, seen : Int] BY <1>2, <1>5, <1>7
     DEF Back!Time, Back!UserRow
<1>9. IsFiniteSet(T) /\ Cardinality(T) <= maxUserTokens
  <2> DEFINE f == [x \in old.tokens |-> New(x)]
  <2>1. f \in [old.tokens -> T] /\ T = {f[x] : x \in old.tokens} OBVIOUS
  <2>2. IsFiniteSet(old.tokens) /\ Cardinality(old.tokens) <= maxUserTokens
    BY <1>5 DEF RowOK
  <2> HIDE DEF f, T
  <2>3. IsFiniteSet(T) /\ Cardinality(T) <= Cardinality(old.tokens)
    BY <2>1, <2>2, ImageFacts
  <2>4. /\ Cardinality(T) \in Nat /\ Cardinality(old.tokens) \in Nat /\ maxUserTokens \in Nat
    BY <2>2, <2>3, FS_CardinalityType DEF BackInv, BackAssumptions, Back!TokenAssumption
  <2> QED BY <2>2, <2>3, <2>4
<1>10. /\ \A x, y \in T : x.id = y.id => x = y
       /\ \A x \in T : x.id \in Back!Ids(u)
  BY <1>4, <1>5, <1>7 DEF RowOK, Back!Ids
<1> HIDE DEF s, T
<1>11. /\ row \in Back!UserRow /\ row.tokens = T
       /\ row.ident = old.ident /\ row.next = old.next
  BY <1>2, <1>5, <1>8 DEF Back!UserRow
<1> HIDE DEF row
<1> QED BY <1>4, <1>5, <1>6, <1>9, <1>10, <1>11, FewerTokens

\* Capabilities are changed (UpdateUserTask).
LEMMA UpdateSteps == ASSUME BackInv, NEW r \in Request, Back!UpdateUser(r) PROVE UserStep
<1>1. PICK q : q = backReq[r] OBVIOUS
<1>2. PICK o : o = q.obj OBVIOUS
<1>3. PICK old : old = backUsers[o] OBVIOUS
<1>4. /\ q \in ReqRow /\ q.now \in Int /\ o \in Back!Users
      /\ q.change \in [set : SUBSET Back!Cap, clear : SUBSET Back!Cap]
  BY <1>1, <1>2
       DEF BackInv, Requests, ReqOK, ReqRow, Back!UpdateUser, Back!MayServe, Back!Users,
           Back!Known,
     BackAssumptions, Back!CapAssumption
<1>5. old \in Back!UserRow /\ RowOK(old)
  BY <1>3, <1>4 DEF BackInv, Rows, Back!Users, Back!Known
<1>6. tokens' = tokens BY DEF Back!UpdateUser
<1>7. CASE backUsers' = backUsers BY <1>6, <1>7 DEF UserStep
<1>8. CASE backUsers' # backUsers
  <2> DEFINE caps == Back!Changed(r)
             row == [old EXCEPT !.caps = caps, !.ver = q.now]
  <2>1. backUsers' = [backUsers EXCEPT ![o] = row]
    BY <1>1, <1>2, <1>3, <1>8 DEF Back!UpdateUser
  <2>2. caps \subseteq Back!Cap
    BY <1>1, <1>2, <1>3, <1>4, <1>5 DEF Back!Changed, Back!UserRow
  <2> HIDE DEF caps
  <2>3. /\ row \in Back!UserRow /\ row.tokens = old.tokens
        /\ row.ident = old.ident /\ row.next = old.next
    BY <1>4, <1>5, <2>2 DEF Back!UserRow
  <2> HIDE DEF row
  <2>4. \A x \in old.tokens : x.id \in Back!Ids(o) BY <1>3 DEF Back!Ids
  <2> QED BY <1>3, <1>4, <1>5, <1>6, <2>1, <2>3, <2>4, FewerTokens DEF RowOK
<1> QED BY <1>7, <1>8

\* A token is deleted (UnauthUserTask).
LEMMA UnauthSteps == ASSUME BackInv, NEW r \in Request, Back!UnauthUser(r) PROVE UserStep
<1>1. PICK q : q = backReq[r] OBVIOUS
<1>2. PICK u : u = q.tok.user OBVIOUS
<1>3. PICK old : old = backUsers[u] OBVIOUS
<1>4. /\ q \in ReqRow /\ q.now \in Int /\ u \in Back!Users
  <2>1. q.tok # Back!NoToken
    BY <1>1 DEF BackInv, Requests, ReqOK, Back!UnauthUser, Back!MayServe
  <2> QED BY <1>1, <1>2, <2>1
          DEF BackInv, Requests, ReqOK, ReqRow, Back!UnauthUser, Back!MayServe, Back!Live,
                   Back!Users, Back!Known
<1>5. old \in Back!UserRow /\ RowOK(old)
  BY <1>3, <1>4 DEF BackInv, Rows, Back!Users, Back!Known
<1> DEFINE T == {x \in old.tokens : x.id # q.tok.id}
           row == [old EXCEPT !.tokens = T, !.seen = q.now, !.ver = q.now]
<1>6. backUsers' = [backUsers EXCEPT ![u] = row] /\ tokens' = tokens
  BY <1>1, <1>2, <1>3, <1>4, <1>5 DEF Back!UnauthUser
<1>7. /\ IsFiniteSet(T) /\ Cardinality(T) <= maxUserTokens
      /\ T \in SUBSET [id : Nat, seen : Int]
  BY <1>5, PartOK DEF BackInv, BackAssumptions, Back!TokenAssumption
<1>8. /\ \A x, y \in T : x.id = y.id => x = y
      /\ \A x \in T : x.id \in Back!Ids(u)
  BY <1>3, <1>5 DEF RowOK, Back!Ids
<1> HIDE DEF T
<1>9. /\ row \in Back!UserRow /\ row.tokens = T
      /\ row.ident = old.ident /\ row.next = old.next
  BY <1>4, <1>5, <1>7 DEF Back!UserRow, Back!Time
<1> HIDE DEF row
<1> QED BY <1>3, <1>4, <1>6, <1>7, <1>8, <1>9, FewerTokens

\* Tokens are handed out (AuthUserTask).  A new one of user u has the next id.
LEMMA IssueSteps ==
  ASSUME BackInv, NEW u \in Back!Users, NEW id \in Nat, NEW next \in Nat, NEW now \in Int, NEW S,
         IsFiniteSet(S), S \subseteq [id : Nat, seen : Int],
         \A x, y \in S : x.id = y.id => x = y,
         \A x \in S : x.id \in Back!Ids(u) \/ x.id = id,
         \/ next = backUsers[u].next /\ id \in Back!Ids(u)
         \/ next = backUsers[u].next + 1 /\ id = next,
         NEW K \in Back!Kept(S), Back!Issue(u, K, id, next, now)
  PROVE  UserStep
<1>1. PICK old : old = backUsers[u] OBVIOUS
<1>2. /\ u \in User /\ old \in Back!UserRow /\ RowOK(old) /\ old.next \in Nat
  BY <1>1 DEF BackInv, Rows, Back!Users, Back!Known, Back!UserRow
<1>3. K \subseteq S /\ IsFiniteSet(K) /\ Cardinality(K) <= maxUserTokens
  BY KeptFacts DEF BackInv, BackAssumptions, Back!TokenAssumption
<1> DEFINE row == [old EXCEPT !.tokens = K, !.next = next, !.seen = now, !.ver = now]
<1>4. /\ backUsers' = [backUsers EXCEPT ![u] = row]
      /\ tokens' = tokens \cup {[user |-> u, id |-> id]}
      /\ \E x \in K : x.id = id
  BY <1>1, <1>2 DEF Back!Issue, Back!StillValid
<1>5. K \in SUBSET [id : Nat, seen : Int] BY <1>3
<1>6. /\ row \in Back!UserRow /\ row.tokens = K
      /\ row.ident = old.ident /\ row.next = next
  BY <1>2, <1>5 DEF Back!UserRow, Back!Time
<1> HIDE DEF row
<1>7. \A i \in Back!Ids(u) : i \in 1..old.next /\ [user |-> u, id |-> i] \in tokens
  BY <1>1, <1>2 DEF BackInv, Handed, RowOK, Back!Ids
<1>8. old.next <= next /\ \A x \in K : x.id \in Back!Ids(u) \/ (x.id = next /\ next > old.next)
  BY <1>1, <1>2, <1>3
<1>9. RowOK(row)
  <2>1. ASSUME NEW x \in K PROVE x.id \in 1..next
    <3>1. PICK i : i = x.id OBVIOUS
    <3>2. i \in 1..old.next \/ (i = next /\ next > old.next) BY <1>7, <1>8, <3>1
    <3> QED BY <1>2, <1>8, <3>1, <3>2
  <2> QED BY <1>3, <1>6, <2>1 DEF RowOK
<1>10. \A t \in tokens' \ tokens : t = [user |-> u, id |-> id] BY <1>4
<1>11. \A x \in K : [user |-> u, id |-> x.id] \in tokens' BY <1>3, <1>4, <1>7
<1>12. [user |-> u, id |-> id] \in Back!Token BY <1>2 DEF Back!Token
<1>13. RowStep(u, row)
  <2>1. \A x \in row.tokens : x.id \in Back!Ids(u) \/ x.id > backUsers[u].next
    BY <1>1, <1>6, <1>8
  <2>2. \A t \in tokens' \ tokens : t \in Back!Token /\ t.user = u /\ \E x \in row.tokens : x.id = t.id
    BY <1>4, <1>6, <1>10, <1>12
  <2> QED BY <1>1, <1>4, <1>6, <1>8, <1>9, <1>11, <2>1, <2>2 DEF RowStep
<1> QED BY <1>2, <1>6, <1>13 DEF UserStep

\* A user logs in with ident and secret.
LEMMA LoginSteps ==
  ASSUME BackInv, NEW s \in Server, NEW u \in User, Back!Login(s, u)
  PROVE  UserStep
<1>1. PICK old : old = backUsers[u] OBVIOUS
<1>2. /\ u \in Back!Users /\ old \in Back!UserRow /\ RowOK(old) /\ old.next \in Nat
  BY <1>1 DEF BackInv, Rows, Back!Users, Back!Known, Back!UserRow, Back!Login
<1>3. PICK now : now = Back!Now(s) OBVIOUS
<1>4. now \in Int
  BY <1>3 DEF Back!Now, BackInv, Requests, BackAssumptions, Back!ClockAssumption
<1>5. PICK id : id = old.next + 1 OBVIOUS
<1> DEFINE S == old.tokens \cup {[id |-> id, seen |-> now]}
<1>6. PICK K \in Back!Kept(S) : Back!Issue(u, K, id, id, now)
  BY <1>1, <1>3, <1>5 DEF Back!Login, Back!NextTokenId
<1>7. id \in Nat /\ id > old.next BY <1>2, <1>5
<1>8. IsFiniteSet(S) BY <1>2, FS_AddElement DEF RowOK
<1>9. S \subseteq [id : Nat, seen : Int] BY <1>2, <1>4, <1>7 DEF Back!UserRow
<1>10. \A x \in old.tokens : x.id # id BY <1>2, <1>7 DEF RowOK
<1>11. /\ \A x, y \in S : x.id = y.id => x = y
       /\ \A x \in S : x.id \in Back!Ids(u) \/ x.id = id
  BY <1>1, <1>2, <1>10 DEF RowOK, Back!Ids
<1> HIDE DEF S
<1> QED BY <1>1, <1>2, <1>4, <1>5, <1>6, <1>7, <1>8, <1>9, <1>11, IssueSteps

\* A user gets a token back.
LEMMA RefreshSteps ==
  ASSUME BackInv, NEW s \in Server, NEW t \in tokens, Back!Refresh(s, t) PROVE UserStep
<1>1. PICK u : u = t.user OBVIOUS
<1>2. PICK row : row = backUsers[u] OBVIOUS
<1>3. /\ u \in Back!Users /\ row \in Back!UserRow /\ RowOK(row) /\ row.next \in Nat
      /\ t.id \in Back!Ids(u) /\ t.id \in Nat
  <2>1. t \in Back!Token /\ Back!Known(u) BY <1>1 DEF BackInv, Handed
  <2> QED BY <1>1, <1>2, <2>1
       DEF BackInv, Rows, Back!Users, Back!Known, Back!UserRow, Back!Refresh, Back!Token
<1>4. PICK now : now = Back!Now(s) OBVIOUS
<1>5. now \in Int
  BY <1>4 DEF Back!Now, BackInv, Requests, BackAssumptions, Back!ClockAssumption
<1> DEFINE old == {x \in row.tokens : x.id = t.id}
           S == (row.tokens \ old) \cup {[id |-> t.id, seen |-> now]}
<1>6. PICK K \in Back!Kept(S) : Back!Issue(u, K, t.id, row.next, now)
  BY <1>1, <1>2, <1>4 DEF Back!Refresh
<1>7. IsFiniteSet(S)
  <2>1. IsFiniteSet(row.tokens \ old) BY <1>3, FS_Subset DEF RowOK
  <2> QED BY <2>1, FS_AddElement
<1>8. S \subseteq [id : Nat, seen : Int] BY <1>3, <1>5 DEF Back!UserRow
<1>9. /\ \A x, y \in S : x.id = y.id => x = y
      /\ \A x \in S : x.id \in Back!Ids(u) \/ x.id = t.id
  BY <1>2, <1>3 DEF RowOK, Back!Ids
<1> HIDE DEF S
<1> QED BY <1>2, <1>3, <1>5, <1>6, <1>7, <1>8, <1>9, IssueSteps

\* A user is created (CreateUserTask).
LEMMA CreateSteps == ASSUME BackInv, NEW r \in Request, Back!CreateInsert(r) PROVE UserStep
<1>1. PICK q : q = backReq[r] OBVIOUS
<1>2. q \in ReqRow /\ q.now \in Int /\ q.ident \in Ident
  BY <1>1 DEF BackInv, Requests, ReqOK, ReqRow, Back!CreateInsert
<1>3. tokens' = tokens BY DEF Back!CreateInsert
<1>4. CASE ~Back!Insertable(q.ident) BY <1>1, <1>3, <1>4 DEF Back!CreateInsert, UserStep
<1>5. CASE Back!Insertable(q.ident)
  <2> DEFINE row == [ident |-> q.ident, tokens |-> {}, next |-> 0,
                     seen |-> Back!Never, ver |-> q.now, caps |-> CapOf]
  <2>1. PICK u \in User \ Back!Users : backUsers' = [backUsers EXCEPT ![u] = row]
    BY <1>1, <1>5 DEF Back!CreateInsert
  <2>2. row \in Back!UserRow
    BY <1>2
       DEF Back!UserRow, Back!Time, Back!Never, BackInv, BackAssumptions, Back!CapAssumption
  <2>3. row.tokens = {} /\ row.next = 0 /\ row.ident = q.ident OBVIOUS
  <2> HIDE DEF row
  <2>4. \A v \in Back!Users : backUsers[v].ident # row.ident BY <1>5, <2>3
       DEF Back!Insertable, Back!IdentTaken
  <2>5. NewRow(u, row) BY <1>3, <2>1, <2>2, <2>3, <2>4 DEF NewRow
  <2> QED BY <2>1, <2>2, <2>5 DEF UserStep
<1> QED BY <1>4, <1>5

\* So every step.
LEMMA UserSteps == ASSUME BackInv, [Back!Next]_(Back!vars) PROVE UserStep
<1>1. ASSUME NEW r \in Request, Back!Step(r) PROVE UserStep
  <2>1. CASE Back!Refuse(r) \/ Back!GiveUpReadonly(r) \/ Back!UpgradeUnexpected(r) \/ Back!LookupUser(r)
             \/ Back!CreateFind(r)
    <3>1. UNCHANGED <<backUsers, tokens>>
      BY <2>1
           DEF Back!Refuse, Back!GiveUpReadonly, Back!UpgradeUnexpected, Back!LookupUser,
               Back!CreateFind
    <3> QED BY <3>1 DEF UserStep
  <2>2. CASE Back!UpdateSeen(r) \/ Back!Upgrade(r) BY <2>2, SeenSteps
       DEF Back!UpdateSeen, Back!Upgrade
  <2>3. CASE Back!UpdateUser(r) BY <2>3, UpdateSteps
  <2>4. CASE Back!UnauthUser(r) BY <2>4, UnauthSteps
  <2>5. CASE Back!CreateInsert(r) BY <2>5, CreateSteps
  <2> QED BY <1>1, <2>1, <2>2, <2>3, <2>4, <2>5 DEF Back!Step
<1>2. ASSUME NEW r \in Request, NEW s \in Server, NEW k \in Back!Kind,
             NEW t \in tokens \cup {Back!NoToken}, Back!Begin(r, s, k, t)
      PROVE  UserStep
  BY <1>2 DEF Back!Begin, UserStep
<1>3. ASSUME NEW s \in Server, NEW u \in User, Back!Login(s, u) PROVE UserStep
  BY <1>3, LoginSteps
<1>4. ASSUME NEW s \in Server, NEW t \in tokens, Back!Refresh(s, t) PROVE UserStep
  BY <1>4, RefreshSteps
<1>5. CASE UNCHANGED Back!vars BY <1>5 DEF Back!vars, UserStep
<1> QED BY <1>1, <1>2, <1>3, <1>4, <1>5 DEF Back!Next

-----------------------------------------------------------------------------
\* Steps of requests.

\* What a request and a view say stays right while users and tokens are added.
LEMMA RequestsKept ==
  ASSUME BackInv, tokens \subseteq tokens', \A u : Back!Known(u) => Back!Known(u)'
  PROVE  /\ \A q : ReqOK(q) => ReqOK(q)'
         /\ \A v : ViewOK(v) => ViewOK(v)'
<1>1. ASSUME NEW q, ReqOK(q) PROVE ReqOK(q)' BY <1>1 DEF ReqOK
<1>2. ASSUME NEW v, ViewOK(v) PROVE ViewOK(v)' BY <1>2 DEF ViewOK
<1> QED BY <1>1, <1>2

\* A request that goes on, or ends.
LEMMA ReqMoves ==
  ASSUME BackInv, NEW r \in Request, backReq[r].pc # "idle",
         \/ Back!End(r, "none") \/ \E o \in Back!Outcome : Back!End(r, o)
         \/ Back!Goto(r, "auth") \/ Back!Goto(r, "upgrade")
         \/ Back!Goto(r, "insert") /\ backReq[r].kind = "create"
  PROVE  /\ backReq' = [s \in Request |-> backReq'[s]]
         /\ \A s \in Request : ReqOK(backReq'[s])
<1>1. /\ backReq = [s \in Request |-> backReq[s]] /\ \A s \in Request : ReqOK(backReq[s])
  BY DEF BackInv, Requests
<1>2. PICK q : q = backReq[r] OBVIOUS
<1>3. ReqOK(q) /\ q \in ReqRow /\ q.pc # "idle" BY <1>1, <1>2 DEF ReqOK
<1>4. \E p : ReqOK(p) /\ backReq' = [backReq EXCEPT ![r] = p]
  <2>1. ASSUME NEW o \in Back!Outcome, Back!End(r, o) PROVE <1>4
    <3> DEFINE p == [q EXCEPT !.pc = "idle", !.out = o]
    <3>1. backReq' = [backReq EXCEPT ![r] = p] BY <1>1, <1>2, <2>1 DEF Back!End
    <3>2. ReqOK(p) BY <1>3 DEF ReqOK, ReqRow
    <3> QED BY <3>1, <3>2
  <2>2. ASSUME NEW l \in {"auth", "upgrade", "insert"}, Back!Goto(r, l),
               l = "insert" => q.kind = "create"
        PROVE  <1>4
    <3> DEFINE p == [q EXCEPT !.pc = l]
    <3>1. backReq' = [backReq EXCEPT ![r] = p] BY <1>1, <1>2, <2>2 DEF Back!Goto
    <3>2. ReqOK(p) BY <1>3, <2>2 DEF ReqOK, ReqRow
    <3> QED BY <3>1, <3>2
  <2>3. "none" \in Back!Outcome BY DEF Back!Outcome
  <2> QED BY <1>2, <2>1, <2>2, <2>3
<1>5. PICK p : ReqOK(p) /\ backReq' = [backReq EXCEPT ![r] = p] BY <1>4
<1> QED BY <1>1, <1>5

\* A request begins.
LEMMA BeginSteps ==
  ASSUME BackInv, NEW r \in Request, NEW s \in Server, NEW k \in Back!Kind,
         NEW t \in tokens \cup {Back!NoToken}, Back!Begin(r, s, k, t)
  PROVE  Requests'
<1>1. /\ Lag \in [Server -> Nat] /\ ClockTick \in Nat /\ MaxClock \in Nat
      /\ backClock \in 0..MaxClock
      /\ backReq = [x \in Request |-> backReq[x]] /\ \A x \in Request : ReqOK(backReq[x])
      /\ view = [x \in Request |-> view[x]] /\ \A x \in Request : ViewOK(view[x])
  BY DEF BackInv, Requests, BackAssumptions, Back!ClockAssumption
<1>2. Back!Now(s) \in Int BY <1>1 DEF Back!Now
<1>3. backClock' \in 0..MaxClock BY <1>1 DEF Back!Begin, Back!Ticks
<1>4. PICK o \in Back!Users \cup {None}, i \in Ident, c \in Changes :
       /\ k = "update" => view[r] # None /\ o = view[r].user
       /\ k = "lookup" => o # None \/ t # Back!NoToken
       /\ k \in {"unauth", "create"} => o = None
       /\ backReq' = [backReq EXCEPT ![r] =
                   [pc |-> "auth", kind |-> k, tok |-> t, now |-> Back!Now(s), out |-> "none",
                    obj |-> IF o = None THEN t.user ELSE o,
                    ident |-> IF k = "create" THEN i ELSE None,
                    change |-> IF k = "update" THEN c ELSE None]]
  BY DEF Back!Begin
<1>5. /\ \A u \in Back!Users : u \in User /\ Back!Known(u)
      /\ t # Back!NoToken => t \in Back!Token /\ Back!Known(t.user)
      /\ t \in Back!Token \cup {Back!NoToken} /\ t.user \in User \cup {None}
      /\ None \notin User
  BY DEF Back!Users, BackInv, Handed, Back!Token, Back!NoToken, BackAssumptions,
           Back!NoneAssumption
<1>6. PICK obj : obj = IF o = None THEN t.user ELSE o OBVIOUS
<1>7. /\ obj \in User \cup {None}
      /\ k = "lookup" => Back!Known(obj)
  BY <1>4, <1>5, <1>6
<1>8. k = "update" => Back!Known(obj)
  <2> SUFFICES ASSUME k = "update" PROVE Back!Known(obj) OBVIOUS
  <2>1. Back!Known(view[r].user) /\ o = view[r].user BY <1>1, <1>4 DEF ViewOK
  <2>2. o # None BY <1>5, <2>1 DEF Back!Known
  <2> QED BY <1>6, <2>1, <2>2
<1> DEFINE ident == IF k = "create" THEN i ELSE None
           change == IF k = "update" THEN c ELSE None
           p == [pc |-> "auth", kind |-> k, tok |-> t, now |-> Back!Now(s), out |-> "none",
                 obj |-> obj, ident |-> ident, change |-> change]
<1>9. backReq' = [backReq EXCEPT ![r] = p] BY <1>4, <1>6
<1>10. /\ ident \in Ident \cup {None} /\ (k = "create" => ident \in Ident)
       /\ change \in Changes \cup {None} /\ (k = "update" => change \in Changes)
  OBVIOUS
<1> HIDE DEF ident, change
<1>11. k = "unauth" => t # Back!NoToken BY DEF Back!Begin
<1>12. /\ p.pc = "auth" /\ p.kind = k /\ p.tok = t /\ p.obj = obj /\ p.ident = ident
       /\ p.change = change
       /\ p \in ReqRow
  BY <1>2, <1>5, <1>7, <1>10 DEF ReqRow, Back!Outcome
<1> HIDE DEF p
<1>13. ReqOK(p) BY <1>7, <1>8, <1>10, <1>11, <1>12 DEF ReqOK
<1>14. UNCHANGED <<backUsers, tokens, view>> BY DEF Back!Begin
<1>15. \A u : Back!Known(u)' <=> Back!Known(u) BY <1>14 DEF Back!Known
<1>16. /\ \A q : ReqOK(q) => ReqOK(q)' /\ \A v : ViewOK(v) => ViewOK(v)'
  BY <1>14, <1>15, RequestsKept
<1> QED BY <1>1, <1>3, <1>9, <1>13, <1>14, <1>16 DEF Requests

\* A request is looked at, and changes nothing, or only the Users table.
LEMMA MovesKeep ==
  ASSUME BackInv, tokens \subseteq tokens', \A u : Back!Known(u) => Back!Known(u)',
         backReq' = [s \in Request |-> backReq'[s]], \A s \in Request : ReqOK(backReq'[s]),
         UNCHANGED backClock,
         view' = [s \in Request |-> view'[s]], \A s \in Request : ViewOK(view'[s])
  PROVE  Requests'
<1>1. /\ \A q : ReqOK(q) => ReqOK(q)' /\ \A v : ViewOK(v) => ViewOK(v)'
  BY RequestsKept
<1>2. backClock' \in 0..MaxClock BY DEF BackInv, Requests
<1>3. ASSUME NEW s \in Request PROVE ReqOK(backReq[s])' /\ ViewOK(view[s])'
  <2>1. PICK q, v : q = backReq'[s] /\ v = view'[s] OBVIOUS
  <2>2. ReqOK(q) /\ ViewOK(v) BY <2>1
  <2>3. ReqOK(q)' /\ ViewOK(v)' BY <1>1, <2>2
  <2> QED BY <2>1, <2>3 DEF ReqOK, ViewOK
<1> QED BY <1>2, <1>3 DEF Requests

\* A request takes a step.
LEMMA RequestSteps ==
  ASSUME BackInv, UserStep, NEW r \in Request, Back!Step(r)
  PROVE  Requests'
<1>1. tokens \subseteq tokens' /\ \A u : Back!Known(u) => Back!Known(u)' BY UserStepFacts
<1>2. backReq[r].pc # "idle"
  BY DEF Back!Step, Back!Refuse, Back!UpdateSeen, Back!GiveUpReadonly, Back!Upgrade,
           Back!UpgradeUnexpected, Back!LookupUser,
         Back!UpdateUser, Back!UnauthUser, Back!CreateFind, Back!CreateInsert, Back!MayServe
<1>3. /\ UNCHANGED backClock
      /\ \/ \E o \in Back!Outcome : Back!End(r, o)
         \/ Back!Goto(r, "auth") \/ Back!Goto(r, "upgrade")
         \/ Back!Goto(r, "insert") /\ backReq[r].kind = "create"
  <2>1. {"served", "refused", "rejected", "conflict", "unexpected"} \subseteq Back!Outcome
    BY DEF Back!Outcome
  <2>2. CASE Back!Refuse(r) BY <2>1, <2>2 DEF Back!Refuse
  <2>3. CASE Back!UpdateSeen(r) \/ Back!Upgrade(r) BY <2>3
       DEF Back!UpdateSeen, Back!Upgrade, Back!WriteSeen
  <2>4. CASE Back!GiveUpReadonly(r) BY <2>4 DEF Back!GiveUpReadonly
  <2>5. CASE Back!UpgradeUnexpected(r) BY <2>1, <2>5 DEF Back!UpgradeUnexpected
  <2>6. CASE Back!LookupUser(r) BY <2>1, <2>6 DEF Back!LookupUser
  <2>7. CASE Back!UpdateUser(r) BY <2>1, <2>7 DEF Back!UpdateUser
  <2>8. CASE Back!UnauthUser(r) BY <2>1, <2>8 DEF Back!UnauthUser
  <2>9. CASE Back!CreateFind(r) BY <2>1, <2>9 DEF Back!CreateFind, Back!MayServe
  <2>10. CASE Back!CreateInsert(r) BY <2>1, <2>10 DEF Back!CreateInsert
  <2> QED BY <2>2, <2>3, <2>4, <2>5, <2>6, <2>7, <2>8, <2>9, <2>10 DEF Back!Step
<1>4. backReq' = [s \in Request |-> backReq'[s]] /\ \A s \in Request : ReqOK(backReq'[s])
  BY <1>2, <1>3, ReqMoves
<1>5. view = [s \in Request |-> view[s]] /\ \A s \in Request : ViewOK(view[s])
  BY DEF BackInv, Requests
<1>6. view' = [s \in Request |-> view'[s]] /\ \A s \in Request : ViewOK(view'[s])
  <2>1. CASE view' = view BY <1>5, <2>1
  <2>2. CASE view' # view
    <3>1. Back!LookupUser(r)
      BY <2>2
           DEF Back!Step, Back!Refuse, Back!UpdateSeen, Back!GiveUpReadonly, Back!Upgrade,
               Back!WriteSeen,
                  Back!UpgradeUnexpected, Back!UpdateUser, Back!UnauthUser, Back!CreateFind, Back!CreateInsert
    <3>2. PICK o : o = backReq[r].obj OBVIOUS
    <3> DEFINE v == [user |-> o, ver |-> backUsers[o].ver, caps |-> backUsers[o].caps]
    <3>3. view' = [view EXCEPT ![r] = v] BY <2>2, <3>1, <3>2 DEF Back!LookupUser
    <3>4. Back!Known(o)
      BY <3>1, <3>2 DEF BackInv, Requests, ReqOK, Back!LookupUser, Back!MayServe
    <3>5. backUsers[o] \in Back!UserRow /\ o \in User BY <3>4 DEF BackInv, Rows, Back!Known
    <3>6. ViewOK(v) BY <3>4, <3>5 DEF ViewOK, ViewRow, Back!UserRow
    <3> QED BY <1>5, <3>3, <3>6
  <2> QED BY <2>1, <2>2
<1> QED BY <1>1, <1>3, <1>4, <1>5, <1>6, MovesKeep

-----------------------------------------------------------------------------
\* The theorems.

\* At the start nobody is known and nothing is asked.
LEMMA BackInit == ASSUME BackAssumptions, Back!Init PROVE BackInv
<1>1. /\ backUsers = [u \in User |-> NoUser] /\ backClock = 0 /\ tokens = {}
      /\ backReq = [r \in Request |-> Back!Idle] /\ view = [r \in Request |-> None]
  BY DEF Back!Init
<1>2. Back!Users = {} BY <1>1 DEF Back!Users, Back!Known
<1>3. Rows BY <1>1, <1>2 DEF Rows
<1>4. Handed /\ Back!IdentsDiffer BY <1>1, <1>2 DEF Handed, Back!IdentsDiffer
<1>5. ReqOK(Back!Idle)
  <2>1. Back!Idle \in ReqRow BY DEF Back!Idle, ReqRow, Back!Outcome, Back!Kind
  <2>2. Back!Idle.pc = "idle" /\ Back!Idle.tok = Back!NoToken BY DEF Back!Idle
  <2> QED BY <2>1, <2>2 DEF ReqOK
<1>6. ViewOK(None) BY DEF ViewOK
<1>7. MaxClock \in Nat BY DEF BackAssumptions, Back!ClockAssumption
<1>8. Requests BY <1>1, <1>5, <1>6, <1>7 DEF Requests
<1> QED BY <1>3, <1>4, <1>8 DEF BackInv

\* Inv is inductive.
LEMMA BackNext == ASSUME BackInv, [Back!Next]_(Back!vars) PROVE BackInv'
<1>1. UserStep BY UserSteps
<1>2. /\ Rows' /\ Handed' /\ Back!IdentsDiffer'
      /\ tokens \subseteq tokens' /\ \A u : Back!Known(u) => Back!Known(u)'
  BY <1>1, UserStepFacts
<1>3. ASSUME UNCHANGED <<backReq, view>>, backClock' \in 0..MaxClock PROVE Requests'
  <2>1. /\ \A q : ReqOK(q) => ReqOK(q)' /\ \A v : ViewOK(v) => ViewOK(v)'
    BY <1>2, RequestsKept
  <2> QED BY <1>3, <2>1 DEF BackInv, Requests
<1>4. Requests'
  <2>1. ASSUME NEW r \in Request, Back!Step(r) PROVE Requests' BY <1>1, <2>1, RequestSteps
  <2>2. ASSUME NEW r \in Request, NEW s \in Server, NEW k \in Back!Kind,
               NEW t \in tokens \cup {Back!NoToken}, Back!Begin(r, s, k, t)
        PROVE  Requests'
    BY <2>2, BeginSteps
  <2>3. ASSUME (\E s \in Server, u \in User : Back!Login(s, u))
               \/ (\E s \in Server, t \in tokens : Back!Refresh(s, t))
        PROVE Requests'
    <3>1. UNCHANGED <<backReq, view>> /\ Back!Ticks BY <2>3
         DEF Back!Login, Back!Refresh, Back!Issue
    <3>2. ClockTick \in Nat /\ MaxClock \in Nat /\ backClock \in 0..MaxClock
      BY DEF BackInv, BackAssumptions, Back!ClockAssumption, Requests
    <3>3. backClock' \in 0..MaxClock BY <3>1, <3>2 DEF Back!Ticks
    <3> QED BY <1>3, <3>1, <3>3
  <2>4. CASE UNCHANGED Back!vars
    <3>1. backClock' \in 0..MaxClock BY <2>4 DEF Back!vars, BackInv, Requests
    <3> QED BY <1>3, <2>4, <3>1 DEF Back!vars
  <2> QED BY <2>1, <2>2, <2>3, <2>4 DEF Back!Next
<1> QED BY <1>2, <1>4 DEF BackInv

\* So Inv always holds.
LEMMA BackInductive == BackAssumptions /\ Back!Spec => []BackInv
<1>1. BackAssumptions /\ Back!Init => BackInv BY BackInit
<1>2. BackInv /\ [Back!Next]_(Back!vars) => BackInv' BY BackNext
<1> QED BY <1>1, <1>2, PTL DEF Back!Spec

\* Users, tokens and requests keep their types, and a user has no more tokens than
\* may be (maxUserTokens).
THEOREM SessionTypes == BackAssumptions /\ Back!Spec => []Back!TypeOK
<1>1. ASSUME BackInv PROVE Back!TypeOK
  <2>1. /\ backReq \in [Request -> ReqRow]
    <3>1. \A r \in Request : backReq[r] \in ReqRow BY <1>1 DEF BackInv, Requests, ReqOK
    <3> QED BY <1>1, <3>1 DEF BackInv, Requests
  <2>2. view \in [Request -> {None} \cup ViewRow]
    <3>1. \A r \in Request : view[r] \in {None} \cup ViewRow
      BY <1>1 DEF BackInv, Requests, ViewOK
    <3> QED BY <1>1, <3>1 DEF BackInv, Requests
  <2> QED BY <1>1, <2>1, <2>2, BackCounts
          DEF Back!TypeOK, BackInv, Rows, RowOK, Handed, Requests, ReqRow, ViewRow
<1> QED BY <1>1, BackInductive, PTL

\* No two users have one ident, and no two tokens of a user one id, which was
\* handed out to this user (CreateUserTask, AuthUserTask).
THEOREM NamesDiffer == BackAssumptions /\ Back!Spec => []Back!IdsDiffer
<1>1. ASSUME BackInv PROVE Back!IdsDiffer
  <2>1. ASSUME NEW u \in Back!Users
        PROVE  /\ Cardinality(Back!Ids(u)) = Cardinality(backUsers[u].tokens)
               /\ Back!Ids(u) \subseteq 1..backUsers[u].next
               /\ \A id \in Back!Ids(u) : [user |-> u, id |-> id] \in tokens
    <3>1. PICK S : S = backUsers[u].tokens OBVIOUS
    <3>2. /\ IsFiniteSet(S) /\ \A x, y \in S : x.id = y.id => x = y
          /\ \A x \in S : x.id \in 1..backUsers[u].next
      BY <1>1, <3>1 DEF BackInv, Rows, RowOK
    <3> DEFINE f == [x \in S |-> x.id]
               T == {f[x] : x \in S}
    <3>3. f \in [S -> T] /\ \A x, y \in S : f[x] = f[y] => x = y BY <3>2
    <3>4. T = Back!Ids(u) BY <3>1 DEF Back!Ids
    <3> HIDE DEF f
    <3>5. Cardinality(T) = Cardinality(S) BY <3>2, <3>3, ImageFacts
    <3> HIDE DEF T
    <3>6. Back!Ids(u) \subseteq 1..backUsers[u].next BY <3>1, <3>2 DEF Back!Ids
    <3> QED BY <1>1, <3>1, <3>4, <3>5, <3>6 DEF BackInv, Handed
  <2> QED BY <1>1, <2>1, BackCounts DEF Back!IdsDiffer, Back!TokenIdsDiffer, BackInv
<1> QED BY <1>1, BackInductive, PTL

\* A token that is gone stays gone, however often its user logs in again; one that is
\* handed out is there; and requests are served for tokens that are there only
\* (AuthUserTask, UnauthUserTask, authedJob).
THEOREM TokensHold == BackAssumptions /\ Back!Spec => [][Back!TokensLiveOnce]_(Back!vars)
<1>1. ASSUME BackInv, [Back!Next]_(Back!vars) PROVE Back!TokensLiveOnce
  <2>1. Back!StayDead /\ Back!IssuedAreKept
    <3>1. UserStep BY <1>1, UserSteps
    <3> QED BY <1>1, <3>1, UserStepFacts
  <2>2. ASSUME NEW r \in Request, Back!Serves(r), backReq[r].tok # Back!NoToken PROVE Back!Live(r)
    <3>1. backReq[r].pc = "auth" /\ backReq'[r].pc = "idle" /\ backReq'[r].out = "served"
      BY <2>2 DEF Back!Serves
    <3>2. backReq = [s \in Request |-> backReq[s]] BY <1>1 DEF BackInv, Requests
    <3>3. backReq'[r] # backReq[r] BY <3>1
    <3>4. ASSUME NEW s \in Request, Back!Step(s) PROVE s = r
      <4>1. ASSUME NEW o, Back!End(s, o), s # r PROVE FALSE BY <3>2, <3>3, <4>1 DEF Back!End
      <4>2. ASSUME NEW l, Back!Goto(s, l), s # r PROVE FALSE
        BY <3>2, <3>3, <4>2 DEF Back!Goto
      <4>3. ~UNCHANGED backReq BY <3>3
      <4>4. CASE Back!Refuse(s) \/ Back!LookupUser(s) \/ Back!UnauthUser(s) \/ Back!UpgradeUnexpected(s)
        BY <4>1, <4>4
           DEF Back!Refuse, Back!LookupUser, Back!UnauthUser, Back!UpgradeUnexpected
      <4>5. CASE Back!UpdateSeen(s) \/ Back!GiveUpReadonly(s) \/ Back!Upgrade(s)
        BY <4>2, <4>5 DEF Back!UpdateSeen, Back!GiveUpReadonly, Back!Upgrade, Back!WriteSeen
      <4>6. CASE Back!UpdateUser(s) BY <4>1, <4>6 DEF Back!UpdateUser
      <4>7. CASE Back!CreateFind(s) \/ Back!CreateInsert(s)
        BY <4>1, <4>2, <4>7 DEF Back!CreateFind, Back!CreateInsert
      <4> QED BY <3>4, <4>4, <4>5, <4>6, <4>7 DEF Back!Step
    <3>5. Back!Step(r)
      <4>1. ASSUME NEW s \in Request, NEW v \in Server, NEW k \in Back!Kind,
                   NEW t \in tokens \cup {Back!NoToken}, Back!Begin(s, v, k, t)
            PROVE  FALSE
        <5>1. backReq[s].pc = "idle" /\ \E p : backReq' = [backReq EXCEPT ![s] = p] BY <4>1
             DEF Back!Begin
        <5> QED BY <3>1, <3>2, <3>3, <5>1
      <4>2. ASSUME UNCHANGED backReq PROVE FALSE BY <3>3, <4>2
      <4> QED BY <1>1, <3>4, <4>1, <4>2
           DEF Back!Next, Back!vars, Back!Login, Back!Refresh, Back!Issue
    <3>6. ASSUME NEW k \in {"lookup", "update", "unauth", "create"}, Back!MayServe(r, k)
          PROVE  Back!Live(r)
      BY <2>2, <3>6 DEF Back!MayServe
    <3>7. CASE Back!Refuse(r)
      <4>1. backReq'[r].out = "refused" BY <1>1, <3>2, <3>7
           DEF Back!Refuse, Back!End, BackInv, Requests, ReqOK, ReqRow
      <4> QED BY <3>1, <4>1
    <3>8. CASE Back!UpdateSeen(r) \/ Back!GiveUpReadonly(r) BY <3>8
         DEF Back!UpdateSeen, Back!WriteSeen, Back!GiveUpReadonly
    <3>9. CASE Back!Upgrade(r) \/ Back!UpgradeUnexpected(r) \/ Back!CreateInsert(r)
      BY <3>1, <3>9 DEF Back!Upgrade, Back!UpgradeUnexpected, Back!CreateInsert
    <3>10. CASE Back!LookupUser(r) \/ Back!UpdateUser(r) \/ Back!UnauthUser(r) \/ Back!CreateFind(r)
      BY <3>6, <3>10 DEF Back!LookupUser, Back!UpdateUser, Back!UnauthUser, Back!CreateFind
    <3> QED BY <3>5, <3>7, <3>8, <3>9, <3>10 DEF Back!Step
  <2> QED BY <2>1, <2>2 DEF Back!TokensLiveOnce, Back!ServedAreLive
<1>2. BackInv /\ [Back!Next]_(Back!vars) => [Back!TokensLiveOnce]_(Back!vars) BY <1>1
<1> QED BY <1>2, BackInductive, PTL DEF Back!Spec
=============================================================================
