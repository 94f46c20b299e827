---------------------------- MODULE SessionPage ----------------------------
(* Who is signed in: stores/auth.ts, the guard of router.ts, the forms of     *)
(* Login.vue, Setup.vue and Account.vue, and the log-out buttons, with what   *)
(* the node keeps of it (api/session.go, auth/auth.go, handlers/auth.go).     *)
(* A value is a pair of user name and password.  A reload starts the script   *)
(* anew; only the token in the session storage outlives it.                   *)
EXTENDS Page, FiniteSetsExt

Credential == Value
Token == 1..(MaxWrites + 1)             \* bound: a login is a call that writes
Route == {"landing", "login", "setup", "shell"}

\* A call among those under way: what it is, what it carries and its id.
SessionArg ==
    {None} \cup [cred : Credential] \cup [cred : Credential, from : {"login", "setup"}]
    \cup [old : Credential, cred : Credential, token : Nat] \cup [token : Nat]
SessionKeys == Endpoint \X SessionArg \X Nat
SessionKey(c) == <<c.op, c.arg, c.id>>

ASSUME SessionAssumption == None \notin Route \cup Nat \cup SessionKeys

\* A handler of the node that has checked a new credential, and stored it in
\* memory or not yet.  Nobody waits for it (of = None) once its call is lost.
Handler(h) == /\ h.cred \in Credential /\ h.at \in {"checked", "set"}
              /\ h.of # None => \E c \in calls : SessionKey(c) = h.of /\ c.at = "sent"

SessionTypeOK ==
    /\ TypedCalls
    /\ ui.route \in Route \cup {None} /\ ui.to \in Route \cup {None}
    /\ (ui.route = None) # (ui.to = None)
    /\ ui.token \in Token \cup {None}
    /\ {ui.user, ui.isSetup, ui.loading} \subseteq BOOLEAN
    /\ {srv.mem, srv.kept} \subseteq Credential \cup {None}
    /\ srv.issued \in {0} \cup Token /\ srv.sessions \subseteq 1..srv.issued
    /\ \A h \in srv.doing : Handler(h)

SessionInit ==
    /\ page = "session"
    /\ \E to \in Route :
        ui = [route |-> None, to |-> to, token |-> None, user |-> FALSE, isSetup |-> FALSE,
              loading |-> FALSE, mine |-> None]
    /\ \E cred \in {None, 1} :
        srv = [mem |-> cred, kept |-> cred, sessions |-> {}, issued |-> 0, doing |-> {}]
    /\ calls = {Call(1, "healthLiveness", None)} /\ writes = 0 /\ crossed = FALSE

-----------------------------------------------------------------------------
(* The browser.                                                               *)

\* mutant: the routes under the shell no longer ask for a login.
GoesAnywhere(to, u) ==
    CASE to = "setup" /\ u.isSetup -> "login"
      [] to = "landing" /\ u.user  -> "shell"
      [] OTHER -> to

\* Where the router ends up that is sent to a route.
SessionGoes(to, u) ==
    CASE to = "shell" /\ ~u.user   -> IF u.isSetup THEN "login" ELSE "setup"
      [] to = "setup" /\ u.isSetup -> "login"
      [] to = "landing" /\ u.user  -> "shell"
      [] OTHER -> to

\* A view that is mounted anew has refs of its own; one that is on already stays.
Mounts(u, to) == [u EXCEPT !.route = to, !.loading = FALSE, !.mine = None]
Arrives(u, to) == IF SessionGoes(to, u) = u.route THEN u ELSE Mounts(u, SessionGoes(to, u))

\* The form waits for the call that was just sent, or for c no longer.
Waits(u) ==
    [u EXCEPT !.loading = TRUE, !.mine = SessionKey(CHOOSE c \in calls' : c \notin calls)]

\* mutant: whatever form is on is free again.
ReleasedAny(u, c) == [u EXCEPT !.loading = FALSE]

Released(u, c) ==
    IF u.mine = SessionKey(c) THEN [u EXCEPT !.loading = FALSE, !.mine = None] ELSE u

\* probe(): a node that does not answer leaves isSetup as it was.  The second
\* call carries no token, and whatever comes of it says "set up".
ProbesOn(c) ==
    /\ c \in Ok("healthLiveness")
    /\ Then(c, "listBlocklists", None)
    /\ UNCHANGED <<page, ui, srv>>

Probed(c) ==
    /\ c \in Failed("healthLiveness") \cup Ended("listBlocklists")
    /\ ui' = Arrives([ui EXCEPT !.to = None, !.isSetup = c.op = "listBlocklists"], ui.to)
    /\ Done(c) /\ UNCHANGED <<page, srv>>

\* Links, the back button, and from one view in the shell to another.
Visit(to) ==
    /\ ui.route # None
    /\ \/ ui' = Arrives(ui, to)
       \/ SessionGoes(to, ui) = "shell" /\ ui' = Mounts(ui, "shell")
    /\ Local

\* The node may be at work on calls whose answers nobody awaits any more.
Reload(to) ==
    /\ ui.route # None
    /\ ui' = [Mounts(ui, None) EXCEPT !.to = to, !.user = ui.token # None, !.isSetup = FALSE]
    /\ srv' = [srv EXCEPT !.doing = {[h EXCEPT !.of = None] : h \in @}]
    /\ calls' = {Call(1, "healthLiveness", None)} /\ crossed' = TRUE
    /\ UNCHANGED <<page, writes>>

SignIn(cred) ==
    /\ ui.route = "login" /\ ~ui.loading
    /\ Asks("login", [cred |-> cred, from |-> "login"])
    /\ ui' = Waits(ui)
    /\ UNCHANGED <<page, srv>>

\* Where a login came from matters no longer: signed in, "/" and the page that
\* was asked for both lead into the shell, also when the form is gone.
SignedIn(c) ==
    /\ c \in Ended("login")
    /\ ui' = IF c.at = "failed" THEN Released(ui, c)
             ELSE Arrives([Released(ui, c) EXCEPT !.token = c.data.token, !.user = TRUE,
                                !.isSetup = @ \/ c.arg.from = "setup"], "shell")
    /\ Done(c) /\ UNCHANGED <<page, srv>>

SetUp(cred) ==
    /\ ui.route = "setup" /\ ~ui.loading
    /\ Asks("setupCredentials", [cred |-> cred])
    /\ ui' = Waits(ui)
    /\ UNCHANGED <<page, srv>>

\* The account is there: sign in with it.
SetUpDone(c) ==
    /\ c \in Ended("setupCredentials")
    /\ IF c.at = "failed" THEN Done(c)
       ELSE Then(c, "login", [cred |-> c.arg.cred, from |-> "setup"])
    /\ ui' = IF c.at = "ok" /\ ui.mine = SessionKey(c) THEN Waits(ui) ELSE Released(ui, c)
    /\ UNCHANGED <<page, srv>>

ChangePassword(old, cred) ==
    /\ ui.route = "shell" /\ ~ui.loading
    /\ Asks("changePassword", [old |-> old, cred |-> cred, token |-> ui.token])
    /\ ui' = Waits(ui)
    /\ UNCHANGED <<page, srv>>

PasswordChanged(c) ==
    /\ c \in Ended("changePassword")
    /\ ui' = Released(ui, c)
    /\ Done(c) /\ UNCHANGED <<page, srv>>

\* The button stays on while the call is under way, which takes the token along.
Logout ==
    /\ ui.route = "shell"
    /\ Asks("logout", [token |-> ui.token])
    /\ UNCHANGED <<page, ui, srv>>

\* Whatever came of the call, and whoever has signed in meanwhile.
LoggedOut(c) ==
    /\ c \in Ended("logout")
    /\ ui' = Arrives([ui EXCEPT !.token = None, !.user = FALSE], "login")
    /\ Done(c) /\ UNCHANGED <<page, srv>>

-----------------------------------------------------------------------------
(* The node.                                                                  *)

\* mutant: a login hands out the session there is.
LogsInAgain(c) ==
    LET token == IF srv.sessions = {} THEN srv.issued + 1 ELSE Min(srv.sessions) IN
    /\ srv' = [srv EXCEPT !.issued = IF srv.sessions = {} THEN token ELSE @,
                          !.sessions = @ \cup {token}]
    /\ Answers(c, [token |-> token])

LogsIn(c) ==
    /\ srv' = [srv EXCEPT !.issued = @ + 1, !.sessions = @ \cup {srv.issued + 1}]
    /\ Answers(c, [token |-> srv.issued + 1])

\* Requests that are answered at once.
SessionServes(c) ==
    /\ c.at = "sent"
    /\ \/ c.op = "healthLiveness" /\ Answers(c, None) /\ UNCHANGED srv
       \/ c.op = "listBlocklists" /\ Refuses(c)
       \/ c.op = "login" /\ srv.mem = c.arg.cred /\ LogsIn(c)
       \/ c.op = "login" /\ srv.mem # c.arg.cred /\ Refuses(c)
       \/ /\ c.op = "logout"
          /\ srv' = [srv EXCEPT !.sessions = @ \ {c.arg.token}]
          /\ Answers(c, None)
    /\ UNCHANGED <<page, ui>>

Working(c) == \E h \in srv.doing : h.of = SessionKey(c)
MaySetUp(c) == c.op = "setupCredentials" /\ srv.mem = None
MayChange(c) == /\ c.op = "changePassword" /\ c.arg.token \in srv.sessions
                /\ srv.mem = c.arg.old

\* Requests that store a credential: checked first, then hashed and put into the
\* memory, then what is there by now is committed.
Checks(c) ==
    /\ c.at = "sent" /\ c.op \in {"setupCredentials", "changePassword"} /\ ~Working(c)
    /\ \/ /\ MaySetUp(c) \/ MayChange(c)
          /\ srv' = [srv EXCEPT !.doing = @ \cup
                        {[cred |-> c.arg.cred, of |-> SessionKey(c), at |-> "checked"]}]
          /\ UNCHANGED <<calls, writes, crossed>>
       \/ ~MaySetUp(c) /\ ~MayChange(c) /\ Refuses(c)
    /\ UNCHANGED <<page, ui>>

SetsPassword(h) ==
    /\ h.at = "checked"
    /\ srv' = [srv EXCEPT !.mem = h.cred,
                          !.doing = (@ \ {h}) \cup {[h EXCEPT !.at = "set"]}]
    /\ UNCHANGED <<page, ui, calls, writes, crossed>>

Replies(h, at) ==
    /\ calls' = {IF SessionKey(c) = h.of THEN [c EXCEPT !.at = at] ELSE c : c \in calls}
    /\ UNCHANGED <<page, ui, writes, crossed>>

\* UpdateAuthConfig: what the memory holds is committed, or the commit fails and
\* the memory is left as it is.
Commits(h) ==
    /\ h.at = "set"
    /\ \/ srv' = [srv EXCEPT !.kept = srv.mem, !.doing = @ \ {h}] /\ Replies(h, "ok")
       \/ srv' = [srv EXCEPT !.doing = @ \ {h}] /\ Replies(h, "failed")

\* mutant: what is stored goes into the memory, also where nothing is.
AppliesAll ==
    /\ srv.mem # srv.kept
    /\ srv' = [srv EXCEPT !.mem = srv.kept]
    /\ UNCHANGED <<page, ui, calls, writes, crossed>>

\* onApply, after any command of anybody.
Applies ==
    /\ srv.kept # None /\ srv.mem # srv.kept
    /\ srv' = [srv EXCEPT !.mem = srv.kept]
    /\ UNCHANGED <<page, ui, calls, writes, crossed>>

SessionExpires ==
    /\ \E t \in srv.sessions : srv' = [srv EXCEPT !.sessions = @ \ {t}]
    /\ UNCHANGED <<page, ui, calls, writes, crossed>>

\* The node starts anew: what was only in its memory is gone.
Restart ==
    /\ srv' = [srv EXCEPT !.mem = srv.kept, !.sessions = {}, !.doing = {}]
    /\ calls' = {IF c.at = "sent" THEN [c EXCEPT !.at = "failed"] ELSE c : c \in calls}
    /\ crossed' = TRUE
    /\ UNCHANGED <<page, ui, writes>>

\* The answer is lost, or late; the node goes on with what it is at.
Loses(c) ==
    /\ c.at \in {"sent", "ok"}
    /\ calls' = (calls \ {c}) \cup {[c EXCEPT !.at = "failed", !.data = None]}
    /\ srv' = [srv EXCEPT !.doing =
                  {IF h.of = SessionKey(c) THEN [h EXCEPT !.of = None] ELSE h : h \in @}]
    /\ crossed' = TRUE
    /\ UNCHANGED <<page, ui, writes>>

SessionNext ==
    \/ \E to \in Route : Visit(to) \/ Reload(to)
    \/ \E cred \in Credential :
        \/ SignIn(cred) \/ SetUp(cred)
        \/ \E old \in Credential : ChangePassword(old, cred)
    \/ Logout \/ Applies \/ SessionExpires \/ Restart
    \/ \E h \in srv.doing : SetsPassword(h) \/ Commits(h)
    \/ \E c \in calls : \/ ProbesOn(c) \/ Probed(c) \/ SignedIn(c) \/ SetUpDone(c)
                        \/ PasswordChanged(c) \/ LoggedOut(c)
                        \/ SessionServes(c) \/ Checks(c) \/ Loses(c)

-----------------------------------------------------------------------------

\* Nobody is in the shell without a token that the node issued, and the browser
\* takes somebody for signed in exactly when it holds one, whatever logins and
\* log-outs cross, wherever links and reloads lead.
ShellIsSignedIn ==
    /\ ui.route = "shell" => ui.user
    /\ ui.user <=> ui.token # None
    /\ ui.token # None => ui.token <= srv.issued

\* A setup that is answered well is stored: no apply and no second setup in between
\* commits an empty credential in its place.
AnsweredSetupIsStored == Ok("setupCredentials") # {} => srv.kept # None

\* The button of a form is disabled exactly while a call of that form is under way,
\* from the setup on to the login that follows, and not for a call of a form that
\* has been left.
ButtonFollowsCall == ui.loading <=> \E c \in calls : SessionKey(c) = ui.mine

\* A log-out that is answered has ended the session it was sent from, and no login
\* that is answered since gave out that session's token, or the one the browser holds.
LogoutIsOfOneLogin ==
    /\ \A c \in Ok("logout") : c.arg.token \notin srv.sessions
    /\ \A c \in Ok("login") : /\ c.data.token # ui.token
                              /\ \A d \in Pending("logout") : c.data.token # d.arg.token

\* A node that has never been set up greets who opens the application with the setup
\* form (specs/functional/web-ui.feature:18).  Not so: any answer to the probe reads
\* as "set up", and the visitor is sent to a login nobody can pass.
FreshNodeShowsSetup ==
    [][ui.to = "shell" /\ ui'.to = None /\ srv.kept = None => ui'.route = "setup"]_pageVars

\* Who has signed in stays in until a log-out is clicked.  Not so: the late answer of
\* an earlier log-out takes the token of a login that was made meanwhile.
LoginSurvivesLogout ==
    [][\A c \in Ended("logout") : c \notin calls' /\ ui.token # None
          => c.arg.token = ui.token \/ ui'.token = ui.token]_pageVars

\* A change of password that is answered well is stored.  Not so: an apply between
\* putting it into the memory and committing what the memory holds brings the old one
\* back, which is then committed and answered as the change.
AnsweredChangeIsStored ==
    [][\A c \in Pending("changePassword") :
          c.at = "sent" /\ (\E d \in Ok("changePassword")' : SessionKey(d) = SessionKey(c))
             => srv'.kept = c.arg.cred]_pageVars

\* A setup that is refused leaves no account.  Not so: with the commit failed, the
\* credential is in the memory, signs in, and is gone after a restart.
SessionsHaveAnAccount == srv.sessions # {} => srv.kept # None

\* A changed password leads back to the login form (specs/functional/web-ui.feature:95).
\* Not so: the view stays, and so does the session, past reloads too.
PasswordChangeSignsOut ==
    [][\A c \in Ok("changePassword") : c \notin calls' => ui'.route = "login"]_pageVars

=============================================================================
