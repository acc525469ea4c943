---------------------------- MODULE AdminSession ----------------------------
(***************************************************************************)
(* Login, logout and the navigation guard of the admin console             *)
(* (permission.js, the user store, request.js, the login page and the      *)
(* navigation bar), in tabs that share one cookie, against the login cache *)
(* of the server (UserController, WebConfig), whose entries expire.        *)
(*                                                                         *)
(* A call is sent, served and delivered in three steps, in any order with  *)
(* the others.  vue-router lets the newest navigation of a tab win: an     *)
(* older guard that calls next() is ignored, one that calls next(path)     *)
(* still goes there.  Element closes a message box when the page changes.  *)
(***************************************************************************)
EXTENDS Integers, FiniteSets

CONSTANTS
  Tab, Token,
  Page,       \* the paths that need a login
  Home,       \* the one that "/" stands for
  Account,    \* the one of UserInfo.vue
  None,
  Slot,       \* bounds the calls in flight
  MaxMoves,   \* bounds what the users do
  Failures    \* whether calls may fail on the way

ASSUME SessionConstants ==
  /\ {Home, Account} \subseteq Page /\ None \notin Page \cup Token
  /\ {"login", "closed"} \cap Page = {}
  /\ MaxMoves \in Nat /\ Failures \in BOOLEAN

VARIABLES
  cookie,    \* canal_admin_token, of the browser
  users,     \* loginUsers: what the server knows of each token
  token,     \* store.state.user.token, of each tab
  name,      \* whether store.getters.name is set
  route,     \* the router's current route
  calls,     \* calls in flight
  box,       \* whether "You have been logged out" asks
  loading,   \* of the login page
  moves

vars == <<cookie, users, token, name, route, calls, box, loading, moves>>

At(page) == [path |-> page, redirect |-> None]
Login(redirect) == [path |-> "login", redirect |-> redirect]
Closed == [path |-> "closed", redirect |-> None]

\* What the login page pushes: redirect || '/'.
Target(redirect) ==
  IF redirect = None THEN At(Home)
  ELSE IF redirect = "login" THEN Login(None) ELSE At(redirect)

NoCall == [kind |-> "none"]
Call(kind, tab, arg, to) ==
  [kind |-> kind, tab |-> tab, arg |-> arg, to |-> to, live |-> TRUE, answer |-> "none"]

Free == {i \in Slot : calls[i] = NoCall}
Of(cs, t, kind) == {i \in Slot : cs[i] # NoCall /\ cs[i].kind = kind /\ cs[i].tab = t}

Init ==
  /\ cookie = None
  /\ users = [k \in Token |-> "none"]
  /\ token = [t \in Tab |-> None]
  /\ name = [t \in Tab |-> FALSE]
  /\ route = [t \in Tab |-> Closed]
  /\ calls = [i \in Slot |-> NoCall]
  /\ box = [t \in Tab |-> FALSE]
  /\ loading = [t \in Tab |-> FALSE]
  /\ moves = 0

-----------------------------------------------------------------------------
(* The guard of permission.js.                                             *)

\* Where the redirects of the guard end.
Destination(to, ck) ==
  IF ck # None /\ to.path = "login" THEN At(Home)
  ELSE IF ck = None /\ to.path # "login" THEN Login(to.path)
  ELSE to

\* A navigation makes the guards of older ones stale.
Superseded(cs, t) ==
  [i \in Slot |-> IF i \in Of(cs, t, "info") THEN [cs[i] EXCEPT !.live = FALSE] ELSE cs[i]]

\* A login page that is left keeps its redirect and its answer to come.
LeftLogin(cs, t, to) ==
  [i \in Slot |->
     IF i \in Of(cs, t, "login") /\ cs[i].live /\ route[t].path = "login" /\ to.path # "login"
     THEN [cs[i] EXCEPT !.live = FALSE, !.to = route[t]] ELSE cs[i]]

Arrive(t, to, cs) ==
  /\ route' = [route EXCEPT ![t] = to]
  /\ calls' = LeftLogin(cs, t, to)
  /\ box' = [box EXCEPT ![t] = @ /\ to = route[t]]

Stay(cs) == calls' = cs /\ UNCHANGED <<route, box>>

\* The button of a login page that stays; another login page has its own.
Spins(t, on) ==
  loading' = [loading EXCEPT ![t] = on /\ route[t].path = "login" /\ route'[t].path = "login"]

\* Tab t goes to a route, with the cookie, store token and name of this step;
\* calls are cs, and i is a slot for the guard's call.
Navigate(t, to, i, cs, ck, tk, nm) ==
  LET dest == Destination(to, ck)
      older == Superseded(cs, t)
  IN  IF to = route[t] THEN Stay(cs)
      ELSE IF dest = route[t] THEN Stay(older)
      ELSE IF ck # None /\ ~nm THEN Stay([older EXCEPT ![i] = Call("info", t, tk, dest)])
      ELSE Arrive(t, dest, older)

-----------------------------------------------------------------------------
(* Users.                                                                  *)

Move == moves < MaxMoves /\ moves' = moves + 1

\* The page loads: the store is built with the cookie's token.
Load(t, to, cs) ==
  \E i \in {j \in Slot : cs[j] = NoCall} :
    LET dest == Destination(to, cookie')
    IN  /\ token' = [token EXCEPT ![t] = cookie']
        /\ name' = [name EXCEPT ![t] = FALSE]
        /\ loading' = [loading EXCEPT ![t] = FALSE]
        /\ box' = [box EXCEPT ![t] = FALSE]
        /\ IF cookie' = None
           THEN route' = [route EXCEPT ![t] = dest] /\ calls' = cs
           ELSE /\ route' = [route EXCEPT ![t] = Closed]
                /\ calls' = [cs EXCEPT ![i] = Call("info", t, cookie', dest)]

CallsWithout(t) ==
  [i \in Slot |-> IF calls[i] # NoCall /\ calls[i].tab = t THEN NoCall ELSE calls[i]]

Open(t, to) ==
  /\ Move
  /\ route[t] # Closed \/ \A i \in Slot : calls[i] # NoCall => calls[i].tab # t
  /\ UNCHANGED <<cookie, users>>
  /\ Load(t, to, CallsWithout(t))

Visit(t, to) ==
  /\ Move /\ route[t] # Closed
  /\ \E i \in Free : Navigate(t, to, i, calls, cookie, token[t], name[t])
  /\ Spins(t, loading[t])
  /\ UNCHANGED <<cookie, users, token, name>>

Send(kind, t, arg) ==
  /\ Move
  /\ \E i \in Free : calls' = [calls EXCEPT ![i] = Call(kind, t, arg, route[t])]

\* handleLogin, by the button or by Enter, which loading does not disable.
Submit(t) ==
  /\ route[t].path = "login"
  /\ Send("login", t, None)
  /\ loading' = [loading EXCEPT ![t] = TRUE]
  /\ UNCHANGED <<cookie, users, token, name, route, box>>

\* The request interceptor: the cookie's token, if the store has one.
Header(t) == IF token[t] = None THEN None ELSE cookie

Logout(t) ==
  /\ route[t].path \in Page
  /\ Send("logout", t, None)
  /\ UNCHANGED <<cookie, users, token, name, route, box, loading>>

\* A request of a page, and that of UserInfo.vue's onSubmit.
Request(t) ==
  /\ route[t].path \in Page
  /\ Send("work", t, Header(t)) \/ (route[t].path = Account /\ Send("update", t, Header(t)))
  /\ UNCHANGED <<cookie, users, token, name, route, box, loading>>

\* Re-Login of the message box: resetToken and location.reload.
Relogin(t) ==
  /\ box[t] /\ UNCHANGED <<users, moves>>
  /\ cookie' = None
  /\ Load(t, route[t], CallsWithout(t))

CancelBox(t) ==
  /\ box[t] /\ box' = [box EXCEPT ![t] = FALSE]
  /\ UNCHANGED <<cookie, users, token, name, route, calls, loading, moves>>

-----------------------------------------------------------------------------
(* The server.                                                             *)

Known(k) == k \in Token /\ users[k] # "none"

Answered(i, answer) ==
  \E a \in {answer} \cup IF Failures THEN {"failed"} ELSE {} :
    calls' = [calls EXCEPT ![i].answer = a]

Unserved(i, kind) == calls[i].kind = kind /\ calls[i].answer = "none"

ServeLogin(i) ==
  /\ Unserved(i, "login")
  /\ \/ /\ Answered(i, "refused") /\ UNCHANGED users
     \/ \E k \in {j \in Token : users[j] = "none"} :
          /\ k # cookie /\ k \notin {token[t] : t \in Tab}
          /\ \A j \in Slot : calls[j] # NoCall => k \notin {calls[j].arg, calls[j].answer}
          /\ users' = [users EXCEPT ![k] = "named"]
          /\ Answered(i, k)
  /\ UNCHANGED <<cookie, token, name, route, box, loading, moves>>

\* /user/info looks its parameter up, other requests the header.
ServeRead(i) ==
  /\ Unserved(i, "info") \/ Unserved(i, "work")
  /\ Answered(i, IF Known(calls[i].arg) THEN users[calls[i].arg] ELSE "expired")
  /\ UNCHANGED <<cookie, users, token, name, route, box, loading, moves>>

ServeLogout(i) ==
  /\ Unserved(i, "logout")
  /\ Answered(i, "success")
  /\ UNCHANGED <<cookie, users, token, name, route, box, loading, moves>>

\* UserController.update caches the submitted user, which has no name.
ServeUpdate(i) ==
  /\ Unserved(i, "update")
  /\ IF Known(calls[i].arg)
     THEN \/ users' = [users EXCEPT ![calls[i].arg] = "nameless"] /\ Answered(i, "success")
          \/ UNCHANGED users /\ Answered(i, "refused")
     ELSE UNCHANGED users /\ Answered(i, "expired")
  /\ UNCHANGED <<cookie, token, name, route, box, loading, moves>>

\* expireAfterAccess, or a restart of the server, seen by one token.
Expire(k) ==
  /\ users[k] # "none"
  /\ users' = [users EXCEPT ![k] = "none"]
  /\ UNCHANGED <<cookie, token, name, route, calls, box, loading, moves>>

-----------------------------------------------------------------------------
(* Answers.                                                                *)

Answer(i, kind) == calls[i].kind = kind /\ calls[i].answer # "none"
Done(i) == [calls EXCEPT ![i] = NoCall]

\* A faulty variant: the code of the answer is not looked at.
GoodUnchecked == {"named", "nameless", "success", "refused", "expired"} \cup Token

Good == {"named", "nameless", "success"} \cup Token

\* getInfo succeeds: the name is committed, and next() called.
InfoSucceeds(i) ==
  /\ Answer(i, "info") /\ calls[i].answer \in Good
  /\ LET t == calls[i].tab IN
       /\ name' = [name EXCEPT ![t] = calls[i].answer = "named"]
       /\ IF calls[i].live THEN Arrive(t, calls[i].to, Done(i)) ELSE Stay(Done(i))
       /\ Spins(t, loading[t])
  /\ UNCHANGED <<cookie, users, token, moves>>

\* A faulty variant: the cookie is kept.
ResetStoreOnly(t) ==
  /\ token' = [token EXCEPT ![t] = None]
  /\ cookie' = cookie

\* resetToken: the store's token and the cookie.
ResetToken(t) ==
  /\ token' = [token EXCEPT ![t] = None]
  /\ cookie' = None

\* getInfo fails: the catch block of the guard, stale or not.  The box that
\* request.js opens goes with the change of the page.
InfoFails(i) ==
  /\ Answer(i, "info") /\ calls[i].answer \notin Good
  /\ LET t == calls[i].tab IN
       /\ ResetToken(t)
       /\ Navigate(t, Login(calls[i].to.path), i, Done(i), cookie', token'[t], name[t])
       /\ Spins(t, loading[t])
  /\ UNCHANGED <<users, name, moves>>

LoginSucceeds(i) ==
  /\ Answer(i, "login") /\ calls[i].answer \in Good
  /\ LET t == calls[i].tab
         redirect == IF calls[i].live THEN route[t].redirect ELSE calls[i].to.redirect
     IN  /\ cookie' = calls[i].answer
         /\ token' = [token EXCEPT ![t] = calls[i].answer]
         /\ Navigate(t, Target(redirect), i, Done(i), cookie', token'[t], name[t])
         /\ Spins(t, loading[t] /\ ~calls[i].live)
  /\ UNCHANGED <<users, name, moves>>

\* A faulty variant: no catch.
LoginFailsUncaught(i) ==
  /\ Answer(i, "login") /\ calls[i].answer \notin Good
  /\ calls' = Done(i)
  /\ UNCHANGED <<cookie, users, token, name, route, box, loading, moves>>

LoginFails(i) ==
  /\ Answer(i, "login") /\ calls[i].answer \notin Good
  /\ loading' = [loading EXCEPT ![calls[i].tab] = @ /\ ~calls[i].live]
  /\ calls' = Done(i)
  /\ UNCHANGED <<cookie, users, token, name, route, box, moves>>

\* user/logout, then the push of Navbar.vue; the name stays.
LogoutSucceeds(i) ==
  /\ Answer(i, "logout") /\ calls[i].answer \in Good
  /\ LET t == calls[i].tab IN
       /\ ResetToken(t)
       /\ Navigate(t, Login(route[t].path), i, Done(i), cookie', token'[t], name[t])
       /\ Spins(t, loading[t])
  /\ UNCHANGED <<users, name, moves>>

\* The other answers, and a logout that failed, change nothing but the box.
OtherAnswer(i) ==
  /\ Answer(i, "work") \/ Answer(i, "update") \/ (Answer(i, "logout") /\ calls[i].answer \notin Good)
  /\ box' = [box EXCEPT ![calls[i].tab] = @ \/ calls[i].answer = "expired"]
  /\ calls' = Done(i)
  /\ UNCHANGED <<cookie, users, token, name, route, loading, moves>>

-----------------------------------------------------------------------------

Serve(i) == ServeLogin(i) \/ ServeRead(i) \/ ServeLogout(i) \/ ServeUpdate(i)
Deliver(i) ==
  \/ InfoSucceeds(i) \/ InfoFails(i) \/ LoginSucceeds(i) \/ LoginFails(i)
  \/ LogoutSucceeds(i) \/ OtherAnswer(i)

Next ==
  \/ \E t \in Tab, to \in {Login(None)} \cup {At(p) : p \in Page} : Open(t, to) \/ Visit(t, to)
  \/ \E t \in Tab : Submit(t) \/ Logout(t) \/ Request(t) \/ Relogin(t) \/ CancelBox(t)
  \/ \E i \in Slot : Serve(i) \/ Deliver(i)
  \/ \E k \in Token : Expire(k)

\* A call is answered, or times out after a minute; users owe nothing.
Spec == Init /\ [][Next]_vars /\ \A i \in Slot : WF_vars(Serve(i)) /\ WF_vars(Deliver(i))

-----------------------------------------------------------------------------
(* Properties.                                                             *)

Routes == {Closed} \cup {At(p) : p \in Page} \cup {Login(r) : r \in Page \cup {"login", None}}
Callset ==
  [kind : {"info", "login", "logout", "work", "update"}, tab : Tab, arg : Token \cup {None},
   to : Routes, live : BOOLEAN,
   answer : {"none", "expired", "refused", "failed"} \cup Good]

SessionTypeOK ==
  /\ cookie \in Token \cup {None}
  /\ users \in [Token -> {"none", "named", "nameless"}]
  /\ token \in [Tab -> Token \cup {None}]
  /\ {name, box, loading} \subseteq [Tab -> BOOLEAN]
  /\ route \in [Tab -> Routes]
  /\ calls \in [Slot -> Callset \cup {NoCall}]
  /\ moves \in 0..MaxMoves

\* The cookie that all tabs share is the store's token of some tab, whatever
\* logins, logouts and failed guards of several tabs did to both copies: no
\* tab removes its own and leaves the browser with one that no page sends.
CookieHasOwner == cookie # None => \E t \in Tab : token[t] = cookie

\* A login button spins only while a login of that page is on its way, however
\* often Enter was pressed and wherever the tab went meanwhile.
LoadingHasLogin ==
  \A t \in Tab : loading[t] => \E i \in Of(calls, t, "login") : calls[i].live

\* The redirects of the guard end: a tab that waits for its user's info ends
\* on some page, and not in a circle of the login page, home and the guard.
NavigationSettles ==
  \A t \in Tab : Of(calls, t, "info") # {} ~> Of(calls, t, "info") = {}

\* permission.js: "if is logged in, redirect to the home page".  A tab is sent
\* to the login page by its guard only if the cookie is no login (any more).
HomeIfLoggedIn ==
  [][\A i \in Slot : InfoFails(i) => ~Known(cookie)]_vars

=============================================================================
