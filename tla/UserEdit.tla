------------------------------ MODULE UserEdit ------------------------------
(***************************************************************************)
(* The page on which users edit the capabilities of users: userHandler of  *)
(* the front end, and UpdateUser behind it.  A tab keeps the form that it  *)
(* was shown, and may post it late, twice, and after the user was changed  *)
(* from another tab or the right to edit was taken away.                   *)
(*                                                                         *)
(* Every call of the back end is one job, hence one step; no two updates   *)
(* of a user have the same time, so its version counts them.               *)
(***************************************************************************)
EXTENDS Integers, FiniteSets

CONSTANTS User, Tab,
          UserOf,     \* UserOf[t]: the user who is logged in, in that browser
          CapName,    \* capabilities that this instance tells apart
          StartCaps,  \* the capabilities that users begin with
          MaxVersion, \* bound on the versions of a user
          Nobody

UPDATE == "USER_UPDATE_CAPABILITY"

ASSUME UserAssumption == UserOf \in [Tab -> User] /\ Nobody \notin User
ASSUME CapAssumption == CapName \subseteq STRING /\ UPDATE \in CapName
                       /\ StartCaps \subseteq SUBSET CapName
ASSUME BoundAssumption == MaxVersion \in Nat

VARIABLES users,   \* users[u]: [caps, version]
          subject, \* the subject user as the tab's request was given it
          form,    \* the form that a tab shows
          answer   \* what the last post of a tab was answered

vars == <<users, subject, form, answer>>

\* The capabilities of a form are inputs, "t" or "f": oldcap inputs are hidden,
\* newcap ones are radio buttons, of which the browser sends the chosen one.
Inputs == UNION {[cs -> BOOLEAN] : cs \in SUBSET CapName}
Form == [user : User, version : 0..MaxVersion, oldcap : Inputs, newcap : Inputs]
Answer == {"none", "ok", "bad request", "denied", "aborted"}

NoForm == [user |-> Nobody]

Row == [caps : SUBSET CapName, version : 0..MaxVersion]
TypeOK == /\ users \in [User -> Row]
          /\ subject \in [Tab -> Row \cup {Nobody}]
          /\ \A t \in Tab : form[t] = NoForm \/ form[t] \in Form
          /\ answer \in [Tab -> Answer]

Init == /\ users \in [User -> [caps : StartCaps, version : {0}]]
        /\ subject = [t \in Tab |-> Nobody]
        /\ form = [t \in Tab |-> NoForm]
        /\ answer = [t \in Tab |-> "none"]

MayLookup(su, ou) == \/ "USER_READ_ALL" \in users[su].caps
                     \/ su = ou /\ "USER_READ_SELF" \in users[su].caps

\* readHandler.ServeHTTP: the subject user is looked up.
Ask(t) == /\ subject[t] = Nobody /\ MayLookup(UserOf[t], UserOf[t])
          /\ subject' = [subject EXCEPT ![t] = users[UserOf[t]]]
          /\ UNCHANGED <<users, form, answer>>

\* user_edit.html.  Inputs are disabled, and not sent, if the subject may not edit.
Page(row, canedit) ==
  LET shown == IF canedit THEN CapName ELSE {}
      has == [c \in shown |-> c \in row.caps]
  IN [oldcap |-> has, newcap |-> has]

\* userHandler.static: the object user is looked up, unless it is the subject.
Static(t, u) ==
  /\ subject[t] # Nobody
  /\ u = UserOf[t] \/ MayLookup(UserOf[t], u)
  /\ LET row == IF u = UserOf[t] THEN subject[t] ELSE users[u]
         page == Page(row, UPDATE \in subject[t].caps)
     IN form' = [form EXCEPT ![t] = [user |-> u, version |-> row.version,
                                     oldcap |-> page.oldcap, newcap |-> page.newcap]]
  /\ subject' = [subject EXCEPT ![t] = Nobody]
  /\ answer' = [answer EXCEPT ![t] = "none"]
  /\ UNCHANGED users

\* The subject presses a radio button.
Press(t, c) ==
  /\ form[t] # NoForm /\ c \in DOMAIN form[t].newcap
  /\ form' = [form EXCEPT ![t].newcap[c] = ~@]
  /\ UNCHANGED <<users, subject, answer>>

\* userHandler.diffcaps: no input may lack its counterpart ...
Whole(f) == DOMAIN f.oldcap = DOMAIN f.newcap
\* ... and those that differ are added or removed.
Added(f) == {c \in DOMAIN f.newcap : f.newcap[c] /\ ~f.oldcap[c]}
Removed(f) == {c \in DOMAIN f.newcap : ~f.newcap[c] /\ f.oldcap[c]}

\* Broken: rights are those of the page that was shown.
MayChangeShown(t) == UPDATE \in DOMAIN form[t].newcap
MayChange(t) == UPDATE \in users[UserOf[t]].caps
\* Broken: whichever version was posted.
CurrentAny(f) == TRUE
Current(f) == f.version = users[f.user].version

\* UpdateUserTask.Run: nothing is written if nothing changes.
UpdateUserTask(t, f, set, clear) ==
  LET caps == (users[f.user].caps \cup set) \ clear
      Fail(a) == answer' = [answer EXCEPT ![t] = a] /\ UNCHANGED users
  IN IF ~Current(f) THEN Fail("aborted")
     ELSE IF set \cup clear # {} /\ ~MayChange(t) THEN Fail("denied")
     ELSE /\ answer' = [answer EXCEPT ![t] = "ok"]
          /\ users' = IF caps = users[f.user].caps THEN users
                      ELSE [users EXCEPT ![f.user] =
                              [caps |-> caps, version |-> @.version + 1]]

\* The handler of the back end: the capabilities of a form are all known.
handleUpdateUser(t, f) == UpdateUserTask(t, f, Added(f), Removed(f))

\* userHandler.useredit.  The tab still has the form, for "back" and a second
\* click.
Post(t) ==
  /\ form[t] # NoForm /\ users[form[t].user].version < MaxVersion
  /\ IF Whole(form[t]) THEN handleUpdateUser(t, form[t])
     ELSE answer' = [answer EXCEPT ![t] = "bad request"] /\ UNCHANGED users
  /\ UNCHANGED <<subject, form>>

Next == \E t \in Tab : \/ Ask(t) \/ Post(t)
                       \/ \E u \in User : Static(t, u)
                       \/ \E c \in CapName : Press(t, c)

Spec == Init /\ [][Next]_vars

-----------------------------------------------------------------------------
\* Properties.

Checked(f) == {c \in DOMAIN f.newcap : f.newcap[c]}
Shown(f) == {c \in DOMAIN f.oldcap : f.oldcap[c]}

\* A change of a user turns what one tab was shown into what is checked there,
\* all of it: no edit undoes another that its editor had not seen, and a form
\* posted twice changes nothing the second time.
SavesWhatWasSeen ==
  [][\A u \in User : users'[u] # users[u] =>
       \E t \in Tab : /\ form[t] # NoForm /\ form[t].user = u
                      /\ Shown(form[t]) = users[u].caps
                      /\ Checked(form[t]) = users'[u].caps]_vars

\* Capabilities are changed by a user who may change them at that moment, not
\* by one who could when the page was shown.
ChangedByEditors ==
  [][\A u \in User : users'[u] # users[u] =>
       \E t \in Tab : form[t] # NoForm /\ form[t].user = u
                      /\ UPDATE \in users[UserOf[t]].caps]_vars

\* A form of a page is never refused as malformed ("new value not present in old
\* set", "leftover vals in old set"), and nobody whose page has no buttons is
\* told that changes are denied.
FormsAreWhole ==
  \A t \in Tab : /\ answer[t] # "bad request"
                 /\ form[t] # NoForm /\ DOMAIN form[t].newcap = {} => answer[t] # "denied"
=============================================================================
