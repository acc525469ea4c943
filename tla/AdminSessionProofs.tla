------------------------- MODULE AdminSessionProofs -------------------------
(***************************************************************************)
(* Proofs about AdminSession for any number of tabs, tokens, pages, calls  *)
(* in flight and moves.                                                    *)
(*                                                                         *)
(* The cookie has an owner because every step that writes the cookie       *)
(* writes the token of one tab with it, and every step that writes only a  *)
(* token copies the cookie, or takes the cookie away.  The types need that *)
(* a tab that has sent a call other than the guard's shows a page, and so  *)
(* does one whose message box is open: what is pushed after the answer is  *)
(* made of its path.  A login button spins while its login is under way,   *)
(* because a login page that is left takes the spinning with it, and its   *)
(* calls are not live from then on.                                        *)
(***************************************************************************)
EXTENDS AdminSession, TLAPS

Kinds == {"info", "login", "logout", "work", "update"}
Paths == Page \cup {"login"}
Shown == {At(page) : page \in Page} \cup {Login(redirect) : redirect \in Paths \cup {None}}

\* The guard waits to show a page; a login is answered with a token.
AnyCall ==
  {c \in Callset :
     /\ c.kind = "info" => c.to \in Shown
     /\ c.kind = "login" => c.answer \in {"none", "refused", "failed"} \cup Token}
Calls == [Slot -> AnyCall \cup {NoCall}]

Typed ==
  /\ cookie \in Token \cup {None}
  /\ users \in [Token -> {"none", "named", "nameless"}]
  /\ token \in [Tab -> Token \cup {None}]
  /\ route \in [Tab -> Routes]
  /\ calls \in Calls
  /\ name \in [Tab -> BOOLEAN] /\ box \in [Tab -> BOOLEAN] /\ loading \in [Tab -> BOOLEAN]
  /\ moves \in 0..MaxMoves

\* Who may have to be sent somewhere shows a page.
ShowsPage(t) ==
  /\ box[t] => route[t] \in Shown
  /\ \A kind \in Kinds \ {"info"} : Of(calls, t, kind) # {} => route[t] \in Shown

\* The login that a spinning button waits for.
Spinning(t) ==
  loading[t] => /\ route[t].path = "login"
                /\ \E i \in Of(calls, t, "login") : calls[i].live

TypeInv == Typed /\ \A t \in Tab : ShowsPage(t)
Inv == TypeInv /\ CookieHasOwner /\ \A t \in Tab : Spinning(t)

-----------------------------------------------------------------------------
(* Routes.                                                                 *)

LEMMA RoutesShown ==
  /\ Routes = Shown \cup {Closed}
  /\ \A page \in Page : At(page) \in Shown
  /\ \A redirect \in Paths \cup {None} :
       /\ Login(redirect) \in Shown /\ Login(redirect).path = "login"
       /\ Target(redirect) \in Shown
<1>1. Routes = Shown \cup {Closed} /\ \A page \in Page : At(page) \in Shown
  BY DEF Routes, Shown, Paths
<1>2. \A redirect \in Paths \cup {None} : Login(redirect) \in Shown /\ Login(redirect).path = "login"
  BY DEF Shown, Login
<1>3. \A redirect \in Paths \cup {None} : Target(redirect) \in Shown
  BY <1>1, <1>2, SessionConstants DEF Target, Paths
<1> QED BY <1>1, <1>2, <1>3

LEMMA PathsOfRoutes ==
  /\ \A to \in Shown : to.path \in Paths
  /\ \A to \in Routes : /\ to.redirect \in Paths \cup {None}
                        /\ to.path \in Paths => to \in Shown
<1>1. \A page \in Page : At(page).path = page /\ At(page).redirect = None
  BY DEF At
<1>2. \A redirect \in Paths \cup {None} :
        Login(redirect).path = "login" /\ Login(redirect).redirect = redirect
  BY DEF Login
<1>3. Closed.path = "closed" /\ Closed.redirect = None /\ "closed" \notin Paths
  BY SessionConstants DEF Closed, Paths
<1> QED BY <1>1, <1>2, <1>3, RoutesShown DEF Shown, Paths

LEMMA DestinationShown ==
  ASSUME NEW to \in Shown, NEW ck
  PROVE  Destination(to, ck) \in Shown
<1>1. to.path \in Paths /\ Home \in Page
  BY PathsOfRoutes, SessionConstants
<1> QED BY <1>1, RoutesShown DEF Destination

-----------------------------------------------------------------------------
(* Calls.                                                                  *)

LEMMA CallFields ==
  ASSUME NEW c \in AnyCall
  PROVE  /\ c \in Callset /\ c # NoCall
         /\ c.kind \in Kinds /\ c.tab \in Tab /\ c.arg \in Token \cup {None}
         /\ c.to \in Routes /\ c.live \in BOOLEAN
         /\ c.answer \in {"none", "expired", "refused", "failed"} \cup Good
         /\ c.kind = "info" => c.to \in Shown
         /\ c.kind = "login" => c.answer \in {"none", "refused", "failed"} \cup Token
<1>1. c \in Callset
  BY DEF AnyCall
<1>2. /\ c.kind \in Kinds /\ c.tab \in Tab /\ c.arg \in Token \cup {None}
      /\ c.to \in Routes /\ c.live \in BOOLEAN
      /\ c.answer \in {"none", "expired", "refused", "failed"} \cup Good
  BY <1>1 DEF Callset, Kinds
<1>3. c.kind # "none"
  BY <1>2 DEF Kinds
<1>4. c # NoCall
  BY <1>3 DEF NoCall
<1> QED BY <1>1, <1>2, <1>4 DEF AnyCall

LEMMA NewCall ==
  ASSUME NEW kind \in Kinds, NEW t \in Tab, NEW arg \in Token \cup {None}, NEW to \in Routes,
         kind = "info" => to \in Shown
  PROVE  /\ Call(kind, t, arg, to) \in AnyCall
         /\ Call(kind, t, arg, to).kind = kind /\ Call(kind, t, arg, to).tab = t
         /\ Call(kind, t, arg, to).live
<1> DEFINE c == Call(kind, t, arg, to)
<1>1. c.kind = kind /\ c.tab = t /\ c.live /\ c.to = to /\ c.answer = "none"
  BY DEF Call
<1>2. c \in Callset
  BY DEF Call, Callset, Kinds
<1> HIDE DEF c
<1>3. c \in AnyCall
  BY <1>1, <1>2 DEF AnyCall
<1> QED BY <1>1, <1>3 DEF c

\* What happens to a call before it is delivered.
LEMMA CallChanged ==
  ASSUME NEW c \in AnyCall
  PROVE  /\ LET d == [c EXCEPT !.live = FALSE] IN
              d \in AnyCall /\ d.kind = c.kind /\ d.tab = c.tab
         /\ c.kind = "login" => \A to \in Routes :
              LET d == [c EXCEPT !.live = FALSE, !.to = to] IN
              d \in AnyCall /\ d.kind = c.kind /\ d.tab = c.tab
         /\ \A answer \in {"none", "expired", "refused", "failed"} \cup Good :
              LET d == [c EXCEPT !.answer = answer] IN
              /\ d.kind = c.kind /\ d.tab = c.tab /\ d.live = c.live
              /\ (c.kind = "login" => answer \in {"none", "refused", "failed"} \cup Token)
                 => d \in AnyCall
<1>1. c \in Callset /\ c.kind \in Kinds
  BY CallFields
<1>2. ASSUME NEW d, d = [c EXCEPT !.live = FALSE]
      PROVE  d \in AnyCall /\ d.kind = c.kind /\ d.tab = c.tab
  <2>1. d \in Callset
    BY <1>1, <1>2 DEF Callset
  <2>2. d.kind = c.kind /\ d.tab = c.tab /\ d.to = c.to /\ d.answer = c.answer
    BY <1>1, <1>2 DEF Callset
  <2> QED BY <2>1, <2>2, CallFields DEF AnyCall
<1>3. ASSUME NEW to \in Routes, NEW d, d = [c EXCEPT !.live = FALSE, !.to = to], c.kind = "login"
      PROVE  d \in AnyCall /\ d.kind = c.kind /\ d.tab = c.tab
  <2>1. d \in Callset
    BY <1>1, <1>3 DEF Callset
  <2>2. d.kind = c.kind /\ d.tab = c.tab /\ d.answer = c.answer
    BY <1>1, <1>3 DEF Callset
  <2>3. d.kind # "info"
    BY <1>3, <2>2
  <2> QED BY <2>1, <2>2, <2>3, CallFields DEF AnyCall
<1>4. ASSUME NEW answer \in {"none", "expired", "refused", "failed"} \cup Good,
             NEW d, d = [c EXCEPT !.answer = answer]
      PROVE  /\ d.kind = c.kind /\ d.tab = c.tab /\ d.live = c.live
             /\ (c.kind = "login" => answer \in {"none", "refused", "failed"} \cup Token)
                => d \in AnyCall
  <2>1. d \in Callset
    BY <1>1, <1>4 DEF Callset
  <2>2. d.kind = c.kind /\ d.tab = c.tab /\ d.to = c.to /\ d.answer = answer
    BY <1>1, <1>4 DEF Callset
  <2>3. d.live = c.live
    BY <1>1, <1>4 DEF Callset
  <2> QED BY <2>1, <2>2, <2>3, CallFields DEF AnyCall
<1> QED BY <1>2, <1>3, <1>4

-----------------------------------------------------------------------------
(* Navigation.                                                             *)

\* Only guards call in between, and a login goes on unless its page is left.
Goes(cs, new, t, left) ==
  /\ new \in Calls
  /\ \A u \in Tab : \A kind \in Kinds \ {"info"} : Of(new, u, kind) \subseteq Of(cs, u, kind)
  /\ \A u \in Tab : \A j \in Of(cs, u, "login") : cs[j].live =>
       j \in Of(new, u, "login") /\ (new[j].live \/ (u = t /\ left))

LEMMA GoesOn == ASSUME NEW cs \in Calls, NEW t, NEW left PROVE Goes(cs, cs, t, left)
BY DEF Goes

LEMMA SupersededGoes ==
  ASSUME NEW cs \in Calls, NEW t \in Tab, NEW left
  PROVE  Goes(cs, Superseded(cs, t), t, left)
<1> DEFINE new == Superseded(cs, t)
<1>1. ASSUME NEW j \in Slot
      PROVE  \/ new[j] = cs[j]
             \/ /\ j \in Of(cs, t, "info") /\ cs[j] \in AnyCall
                /\ new[j] = [cs[j] EXCEPT !.live = FALSE]
  <2>1. j \in Of(cs, t, "info") => cs[j] \in AnyCall
    BY DEF Of, Calls
  <2> QED BY <2>1 DEF Superseded
<1>2. ASSUME NEW j \in Slot
      PROVE  \/ new[j] = cs[j]
             \/ /\ cs[j] \in AnyCall /\ new[j] \in AnyCall /\ new[j] # NoCall
                /\ cs[j].kind = "info" /\ new[j].kind = "info"
  <2>1. CASE j \in Of(cs, t, "info") /\ cs[j] \in AnyCall /\ new[j] = [cs[j] EXCEPT !.live = FALSE]
    <3>1. cs[j].kind = "info"
      BY <2>1 DEF Of
    <3>2. new[j] \in AnyCall /\ new[j].kind = cs[j].kind
      BY <2>1, CallChanged
    <3> QED BY <2>1, <3>1, <3>2, CallFields
  <2> QED BY <1>1, <2>1
<1>3. new \in Calls
  <2>1. new = [j \in Slot |-> new[j]]
    BY DEF Superseded
  <2>2. \A j \in Slot : new[j] \in AnyCall \cup {NoCall}
    BY <1>2 DEF Calls
  <2> HIDE DEF new
  <2> QED BY <2>1, <2>2 DEF Calls
<1> HIDE DEF new
<1>4. \A u \in Tab : \A kind \in Kinds \ {"info"} : Of(new, u, kind) \subseteq Of(cs, u, kind)
  BY <1>2 DEF Of
<1>5. \A u \in Tab : \A j \in Of(cs, u, "login") : j \in Of(new, u, "login") /\ new[j] = cs[j]
  BY <1>2 DEF Of
<1> QED BY <1>3, <1>4, <1>5 DEF Goes, new

LEMMA LeftLoginGoes ==
  ASSUME Typed, NEW cs \in Calls, NEW t \in Tab, NEW to
  PROVE  Goes(cs, LeftLogin(cs, t, to), t, route[t].path = "login" /\ to.path # "login")
<1> DEFINE new == LeftLogin(cs, t, to)
           left == route[t].path = "login" /\ to.path # "login"
<1>1. route[t] \in Routes
  BY DEF Typed
<1>2. ASSUME NEW j \in Slot
      PROVE  \/ new[j] = cs[j]
             \/ /\ j \in Of(cs, t, "login") /\ left
                /\ cs[j] \in AnyCall
                /\ new[j] = [cs[j] EXCEPT !.live = FALSE, !.to = route[t]]
  <2>1. j \in Of(cs, t, "login") => cs[j] \in AnyCall
    BY DEF Of, Calls
  <2> QED BY <2>1 DEF LeftLogin
<1>3. ASSUME NEW j \in Slot
      PROVE  \/ new[j] = cs[j]
             \/ /\ cs[j] \in AnyCall /\ new[j] \in AnyCall /\ new[j] # NoCall /\ left
                /\ cs[j].kind = "login" /\ new[j].kind = "login" /\ cs[j].tab = t /\ new[j].tab = t
  <2>1. CASE /\ j \in Of(cs, t, "login") /\ left /\ cs[j] \in AnyCall
             /\ new[j] = [cs[j] EXCEPT !.live = FALSE, !.to = route[t]]
    <3>1. cs[j].kind = "login" /\ cs[j].tab = t
      BY <2>1 DEF Of
    <3> HIDE DEF new
    <3>2. \A to1 \in Routes : LET d == [cs[j] EXCEPT !.live = FALSE, !.to = to1] IN
            d \in AnyCall /\ d.kind = cs[j].kind /\ d.tab = cs[j].tab
      BY <2>1, <3>1, CallChanged
    <3>3. new[j] \in AnyCall /\ new[j].kind = cs[j].kind /\ new[j].tab = cs[j].tab
      BY <1>1, <2>1, <3>2
    <3> QED BY <2>1, <3>1, <3>3, CallFields
  <2> QED BY <1>2, <2>1
<1>4. new \in Calls
  <2>1. new = [j \in Slot |-> new[j]]
    BY DEF LeftLogin
  <2>2. \A j \in Slot : new[j] \in AnyCall \cup {NoCall}
    BY <1>3 DEF Calls
  <2> HIDE DEF new
  <2> QED BY <2>1, <2>2 DEF Calls
<1> HIDE DEF new, left
<1>5. \A u \in Tab : \A kind \in Kinds \ {"info"} : Of(new, u, kind) \subseteq Of(cs, u, kind)
  <2>1. \A j \in Slot : new[j] # NoCall =>
          cs[j] # NoCall /\ new[j].kind = cs[j].kind /\ new[j].tab = cs[j].tab
    BY <1>3, CallFields
  <2> QED BY <2>1 DEF Of
<1>6. \A u \in Tab : \A j \in Of(cs, u, "login") : cs[j].live =>
        j \in Of(new, u, "login") /\ (new[j].live \/ (u = t /\ left))
  BY <1>3 DEF Of
<1> QED BY <1>4, <1>5, <1>6 DEF Goes, new, left

\* What a navigation of tab t does to the tabs, with the calls cs.
Continues(t, cs) ==
  /\ route' \in [Tab -> Routes] /\ box' \in [Tab -> BOOLEAN]
  /\ \A u \in Tab : /\ route'[u] = route[u] \/ (u = t /\ route'[u] \in Shown)
                    /\ box'[u] => box[u]
  /\ Goes(cs, calls', t, route[t].path = "login" /\ route'[t].path # "login")

LEMMA StayContinues ==
  ASSUME Typed, NEW t \in Tab, NEW cs \in Calls, NEW new \in Calls, Stay(new),
         \A left \in BOOLEAN : Goes(cs, new, t, left)
  PROVE  Continues(t, cs)
<1>1. calls' = new /\ route' = route /\ box' = box
  BY DEF Stay
<1>2. (route[t].path = "login" /\ route'[t].path # "login") \in BOOLEAN
  OBVIOUS
<1> QED BY <1>1, <1>2 DEF Continues, Typed

LEMMA ArriveContinues ==
  ASSUME Typed, NEW t \in Tab, NEW to \in Shown, NEW cs \in Calls, NEW older \in Calls,
         Arrive(t, to, older), \A left \in BOOLEAN : Goes(cs, older, t, left)
  PROVE  Continues(t, cs)
<1>1. route' = [route EXCEPT ![t] = to] /\ calls' = LeftLogin(older, t, to)
  BY DEF Arrive
<1>2. route' \in [Tab -> Routes] /\ route'[t] = to
  BY <1>1, RoutesShown DEF Typed
<1>3. box' \in [Tab -> BOOLEAN] /\ \A u \in Tab : box'[u] => box[u]
  BY DEF Arrive, Typed
<1>4. PICK left \in BOOLEAN : left = (route[t].path = "login" /\ to.path # "login")
  OBVIOUS
<1>5. Goes(older, calls', t, left) /\ Goes(cs, older, t, left)
  <2>1. Goes(older, LeftLogin(older, t, to), t, route[t].path = "login" /\ to.path # "login")
    BY LeftLoginGoes
  <2> QED BY <1>1, <1>4, <2>1
<1>6. Goes(cs, calls', t, left)
  BY <1>5 DEF Goes
<1>7. \A u \in Tab : route'[u] = route[u] \/ (u = t /\ route'[u] \in Shown)
  BY <1>1, <1>2 DEF Typed
<1> QED BY <1>2, <1>3, <1>4, <1>6, <1>7 DEF Continues

LEMMA NavigateContinues ==
  ASSUME Typed, NEW t \in Tab, NEW to \in Shown, NEW i \in Slot, NEW cs \in Calls, cs[i] = NoCall,
         NEW ck, NEW tk \in Token \cup {None}, NEW nm, Navigate(t, to, i, cs, ck, tk, nm)
  PROVE  Continues(t, cs)
<1> DEFINE dest == Destination(to, ck)
           older == Superseded(cs, t)
           asked == [older EXCEPT ![i] = Call("info", t, tk, dest)]
<1>1. dest \in Shown /\ dest \in Routes
  BY DestinationShown, RoutesShown
<1>2. older \in Calls /\ \A left \in BOOLEAN : Goes(cs, older, t, left)
  BY SupersededGoes DEF Goes
<1>3. asked \in Calls /\ \A left \in BOOLEAN : Goes(cs, asked, t, left)
  <2> DEFINE c == Call("info", t, tk, dest)
  <2>1. c \in AnyCall /\ c.kind = "info"
    BY <1>1, NewCall DEF Kinds
  <2> HIDE DEF c, older, dest
  <2>2. asked \in Calls
    BY <1>2, <2>1 DEF Calls, c
  <2>3. asked[i] = c /\ \A j \in Slot : j # i => asked[j] = older[j]
    BY <1>2, <2>1 DEF Calls, c
  <2> HIDE DEF asked
  <2>4. SUFFICES ASSUME NEW left \in BOOLEAN PROVE Goes(cs, asked, t, left)
    BY <2>2
  <2>5. Goes(cs, older, t, left)
    BY <1>2
  <2>6. \A u \in Tab : \A kind \in Kinds \ {"info"} : Of(asked, u, kind) \subseteq Of(older, u, kind)
    BY <2>1, <2>3 DEF Of
  <2>7. \A u \in Tab : \A j \in Of(cs, u, "login") :
          j \in Of(older, u, "login") => j \in Of(asked, u, "login") /\ asked[j] = older[j]
    <3>1. \A u \in Tab : i \notin Of(cs, u, "login")
      BY DEF Of
    <3>2. \A u \in Tab : \A j \in Of(cs, u, "login") : j \in Slot /\ asked[j] = older[j]
      BY <2>3, <3>1 DEF Of
    <3> QED BY <3>2 DEF Of
  <2> QED BY <2>2, <2>5, <2>6, <2>7 DEF Goes
<1>4. Stay(cs) \/ Stay(older) \/ Stay(asked) \/ Arrive(t, dest, older)
  BY DEF Navigate
<1>5. \A left \in BOOLEAN : Goes(cs, cs, t, left)
  BY GoesOn
<1> HIDE DEF dest, older, asked
<1> QED BY <1>1, <1>2, <1>3, <1>4, <1>5, StayContinues, ArriveContinues

-----------------------------------------------------------------------------
(* What a step keeps.                                                      *)

LEMMA PagesKept ==
  ASSUME TypeInv, NEW t \in Tab, NEW cs, Continues(t, cs),
         \A u \in Tab : \A kind \in Kinds : Of(cs, u, kind) \subseteq Of(calls, u, kind)
  PROVE  \A u \in Tab : ShowsPage(u)'
<1> SUFFICES ASSUME NEW u \in Tab PROVE ShowsPage(u)'
  OBVIOUS
<1>1. ShowsPage(u) /\ (route[u] \in Shown => route'[u] \in Shown) /\ (box'[u] => box[u])
  BY DEF TypeInv, Continues
<1>2. \A kind \in Kinds \ {"info"} : Of(calls', u, kind) \subseteq Of(calls, u, kind)
  BY DEF Continues, Goes
<1> QED BY <1>1, <1>2 DEF ShowsPage

\* The button of tab t spins on only if a live login is left.
LEMMA SpinsKept ==
  ASSUME Inv, NEW t \in Tab, NEW cs, Continues(t, cs), NEW on \in BOOLEAN, Spins(t, on),
         on => \E j \in Of(cs, t, "login") : cs[j].live,
         \A u \in Tab \ {t} : \A j \in Of(calls, u, "login") :
           j \in Of(cs, u, "login") /\ cs[j] = calls[j]
  PROVE  loading' \in [Tab -> BOOLEAN] /\ \A u \in Tab : Spinning(u)'
<1>1. loading \in [Tab -> BOOLEAN]
  BY DEF Inv, TypeInv, Typed
<1>2. loading' = [loading EXCEPT ![t] = on /\ route[t].path = "login" /\ route'[t].path = "login"]
  BY DEF Spins
<1>3. loading' \in [Tab -> BOOLEAN]
  BY <1>1, <1>2
<1>4. ASSUME NEW u \in Tab, loading'[u] PROVE Spinning(u)'
  <2>1. CASE u = t
    <3>1. on /\ route[t].path = "login" /\ route'[t].path = "login"
      BY <1>1, <1>2, <1>4, <2>1
    <3>2. PICK j \in Of(cs, t, "login") : cs[j].live
      BY <3>1
    <3>3. j \in Of(calls', t, "login") /\ calls'[j].live
      BY <3>1, <3>2 DEF Continues, Goes
    <3> QED BY <2>1, <3>1, <3>3 DEF Spinning
  <2>2. CASE u # t
    <3>1. loading[u] /\ route'[u] = route[u]
      BY <1>1, <1>2, <1>4, <2>2 DEF Continues
    <3>2. PICK j \in Of(calls, u, "login") : calls[j].live
      BY <3>1 DEF Inv, Spinning
    <3>3. j \in Of(cs, u, "login") /\ cs[j].live
      BY <2>2, <3>2
    <3>4. j \in Of(calls', u, "login") /\ calls'[j].live
      BY <2>2, <3>3 DEF Continues, Goes
    <3>5. route[u].path = "login"
      BY <3>1 DEF Inv, Spinning
    <3> QED BY <3>1, <3>4, <3>5 DEF Spinning
  <2> QED BY <2>1, <2>2
<1>5. \A u \in Tab : Spinning(u)'
  BY <1>4 DEF Spinning
<1> QED BY <1>3, <1>5

LEMMA DoneFacts ==
  ASSUME Typed, NEW i \in Slot
  PROVE  /\ Done(i) \in Calls /\ Done(i)[i] = NoCall
         /\ \A j \in Slot : j # i => Done(i)[j] = calls[j]
         /\ \A u \in Tab : \A kind \in Kinds : Of(Done(i), u, kind) = Of(calls, u, kind) \ {i}
<1>1. Done(i) \in Calls /\ Done(i)[i] = NoCall /\ \A j \in Slot : j # i => Done(i)[j] = calls[j]
  BY DEF Done, Typed, Calls
<1> QED BY <1>1 DEF Of

LEMMA WithoutFacts ==
  ASSUME Typed, NEW t \in Tab
  PROVE  /\ CallsWithout(t) \in Calls
         /\ \A kind \in Kinds : Of(CallsWithout(t), t, kind) = {}
         /\ \A u \in Tab \ {t} : \A kind \in Kinds :
              /\ Of(CallsWithout(t), u, kind) = Of(calls, u, kind)
              /\ \A j \in Of(calls, u, kind) : CallsWithout(t)[j] = calls[j]
<1> DEFINE cs == CallsWithout(t)
<1>1. \A j \in Slot : cs[j] = IF calls[j] # NoCall /\ calls[j].tab = t THEN NoCall ELSE calls[j]
  BY DEF CallsWithout
<1>2. cs \in Calls
  BY DEF CallsWithout, Typed, Calls
<1> HIDE DEF cs
<1>3. \A kind \in Kinds : Of(cs, t, kind) = {}
  BY <1>1 DEF Of
<1>4. \A u \in Tab \ {t} : \A kind \in Kinds :
        Of(cs, u, kind) = Of(calls, u, kind) /\ \A j \in Of(calls, u, kind) : cs[j] = calls[j]
  BY <1>1 DEF Of
<1> QED BY <1>2, <1>3, <1>4 DEF cs

\* The store of a tab that loads a page is built from the cookie.
LEMMA LoadInv ==
  ASSUME Inv, cookie' \in Token \cup {None}, users' \in [Token -> {"none", "named", "nameless"}],
         moves' \in 0..MaxMoves, NEW t \in Tab, NEW to \in Shown, Load(t, to, CallsWithout(t))
  PROVE  Inv'
<1>1. PICK i \in Slot :
        LET dest == Destination(to, cookie')
        IN  /\ CallsWithout(t)[i] = NoCall
            /\ IF cookie' = None
               THEN route' = [route EXCEPT ![t] = dest] /\ calls' = CallsWithout(t)
               ELSE /\ route' = [route EXCEPT ![t] = Closed]
                    /\ calls' = [CallsWithout(t) EXCEPT ![i] = Call("info", t, cookie', dest)]
  BY DEF Load
<1>2. PICK cs \in Calls : cs = CallsWithout(t)
  BY WithoutFacts DEF Inv, TypeInv
<1>3. PICK dest \in Shown : dest = Destination(to, cookie')
  BY DestinationShown
<1>4. PICK c \in AnyCall : c = Call("info", t, cookie', dest)
  BY <1>3, NewCall, RoutesShown DEF Kinds
<1>5. c.kind = "info" /\ cs[i] = NoCall
  BY <1>1, <1>2, <1>4 DEF Call
<1>6. \/ route' = [route EXCEPT ![t] = dest] /\ calls' = cs
      \/ route' = [route EXCEPT ![t] = Closed] /\ calls' = [cs EXCEPT ![i] = c]
  BY <1>1, <1>2, <1>3, <1>4
<1>7. /\ route' \in [Tab -> Routes] /\ calls' \in Calls
      /\ \A u \in Tab \ {t} : route'[u] = route[u]
      /\ \A u \in Tab : \A kind \in Kinds \ {"info"} :
           /\ Of(calls', u, kind) = Of(cs, u, kind)
           /\ \A j \in Of(cs, u, kind) : calls'[j] = cs[j]
  <2>1. route' \in [Tab -> Routes] /\ \A u \in Tab \ {t} : route'[u] = route[u]
    BY <1>6, RoutesShown DEF Inv, TypeInv, Typed
  <2>2. calls' \in Calls
    BY <1>6 DEF Calls
  <2>3. \A j \in Slot : calls'[j] = cs[j] \/ (cs[j] = NoCall /\ calls'[j].kind = "info" /\ calls'[j] # NoCall)
    BY <1>5, <1>6, CallFields DEF Calls
  <2>4. \A u \in Tab : \A kind \in Kinds \ {"info"} :
          /\ Of(calls', u, kind) = Of(cs, u, kind)
          /\ \A j \in Of(cs, u, kind) : calls'[j] = cs[j]
    BY <2>3 DEF Of
  <2> QED BY <2>1, <2>2, <2>4
<1>8. /\ token' = [token EXCEPT ![t] = cookie'] /\ name' = [name EXCEPT ![t] = FALSE]
      /\ loading' = [loading EXCEPT ![t] = FALSE] /\ box' = [box EXCEPT ![t] = FALSE]
  BY DEF Load
<1>9. Typed'
  BY <1>7, <1>8 DEF Inv, TypeInv, Typed
<1>10. CookieHasOwner'
  <2>1. token'[t] = cookie'
    BY <1>8 DEF Inv, TypeInv, Typed
  <2> QED BY <2>1 DEF CookieHasOwner
<1>11. ASSUME NEW u \in Tab PROVE ShowsPage(u)' /\ Spinning(u)'
  <2>0. box \in [Tab -> BOOLEAN] /\ loading \in [Tab -> BOOLEAN] /\ ShowsPage(u) /\ Spinning(u)
        /\ Typed
    BY DEF Inv, TypeInv, Typed
  <2>1. CASE u = t
    <3>1. ~ box'[u] /\ ~ loading'[u]
      BY <1>8, <2>0, <2>1
    <3>2. \A kind \in Kinds \ {"info"} : Of(calls', u, kind) = {}
      BY <1>2, <1>7, <2>0, <2>1, WithoutFacts
    <3> QED BY <3>1, <3>2 DEF ShowsPage, Spinning
  <2>2. CASE u # t
    <3>1. box'[u] = box[u] /\ loading'[u] = loading[u] /\ route'[u] = route[u]
      BY <1>7, <1>8, <2>0, <2>2
    <3>2. \A kind \in Kinds \ {"info"} :
            Of(calls', u, kind) = Of(calls, u, kind) /\ \A j \in Of(calls, u, kind) : calls'[j] = calls[j]
      BY <1>2, <1>7, <2>0, <2>2, WithoutFacts
    <3>3. "login" \in Kinds \ {"info"}
      BY DEF Kinds
    <3> QED BY <2>0, <3>1, <3>2, <3>3 DEF ShowsPage, Spinning
  <2> QED BY <2>1, <2>2
<1> QED BY <1>9, <1>10, <1>11 DEF Inv, TypeInv

-----------------------------------------------------------------------------
(* The users.                                                              *)

LEMMA InitInv == Init => Inv
<1> SUFFICES ASSUME Init PROVE Inv
  OBVIOUS
<1>1. Typed /\ cookie = None
  BY RoutesShown, SessionConstants DEF Init, Typed, Calls
<1>2. \A t \in Tab : ~ box[t] /\ ~ loading[t] /\ \A kind \in Kinds : Of(calls, t, kind) = {}
  BY DEF Init, Of
<1> QED BY <1>1, <1>2 DEF Inv, TypeInv, CookieHasOwner, ShowsPage, Spinning

LEMMA MoveTyped == ASSUME Typed, Move PROVE moves' \in 0..MaxMoves
BY SessionConstants DEF Typed, Move

LEMMA OpenInv ==
  ASSUME Inv, NEW t \in Tab, NEW to \in Shown, Open(t, to) PROVE Inv'
<1>1. /\ cookie' \in Token \cup {None} /\ users' \in [Token -> {"none", "named", "nameless"}]
      /\ moves' \in 0..MaxMoves
  BY MoveTyped DEF Inv, TypeInv, Typed, Open
<1> QED BY <1>1, LoadInv DEF Open

LEMMA ReloginInv ==
  ASSUME Inv, NEW t \in Tab, Relogin(t) PROVE Inv'
<1>1. /\ cookie' \in Token \cup {None} /\ users' \in [Token -> {"none", "named", "nameless"}]
      /\ moves' \in 0..MaxMoves
  BY DEF Inv, TypeInv, Typed, Relogin
<1>2. route[t] \in Shown
  BY DEF Inv, TypeInv, ShowsPage, Relogin
<1> QED BY <1>1, <1>2, LoadInv DEF Relogin

LEMMA VisitInv ==
  ASSUME Inv, NEW t \in Tab, NEW to \in Shown, Visit(t, to) PROVE Inv'
<1>1. PICK i \in Slot : calls[i] = NoCall /\ Navigate(t, to, i, calls, cookie, token[t], name[t])
  BY DEF Visit, Free
<1>2. /\ Typed /\ calls \in Calls /\ token[t] \in Token \cup {None} /\ loading[t] \in BOOLEAN
      /\ Spins(t, loading[t]) /\ UNCHANGED <<cookie, users, token, name>>
  BY DEF Inv, TypeInv, Typed, Visit
<1>3. Continues(t, calls)
  BY <1>1, <1>2, NavigateContinues
<1>4. \A u \in Tab : ShowsPage(u)'
  BY <1>3, PagesKept DEF Inv
<1>5. loading' \in [Tab -> BOOLEAN] /\ \A u \in Tab : Spinning(u)'
  <2>1. loading[t] => \E j \in Of(calls, t, "login") : calls[j].live
    BY DEF Inv, Spinning
  <2> QED BY <1>2, <1>3, <2>1, SpinsKept
<1>6. Typed' /\ CookieHasOwner'
  <2>1. moves' \in 0..MaxMoves
    BY <1>2, MoveTyped DEF Visit
  <2> QED BY <1>2, <1>3, <1>5, <2>1 DEF Inv, Typed, Continues, Goes, CookieHasOwner
<1> QED BY <1>4, <1>5, <1>6 DEF Inv, TypeInv

LEMMA SendInv ==
  ASSUME Inv, NEW t \in Tab, NEW kind \in Kinds \ {"info"}, NEW arg \in Token \cup {None},
         Send(kind, t, arg), route[t] \in Shown,
         UNCHANGED <<cookie, users, token, name, route, box>>,
         \/ UNCHANGED loading
         \/ /\ kind = "login" /\ route[t].path = "login"
            /\ loading' = [loading EXCEPT ![t] = TRUE]
  PROVE  Inv'
<1>1. PICK i \in Slot : /\ calls[i] = NoCall
                        /\ calls' = [calls EXCEPT ![i] = Call(kind, t, arg, route[t])]
  BY DEF Send, Free
<1>2. PICK c : c = Call(kind, t, arg, route[t])
  OBVIOUS
<1>3. c \in AnyCall /\ c.kind = kind /\ c.tab = t /\ c.live /\ c # NoCall
  BY <1>2, NewCall, CallFields, RoutesShown
<1>4. /\ calls' \in Calls /\ calls'[i] = c
      /\ \A j \in Slot : j # i => calls'[j] = calls[j]
  BY <1>1, <1>2, <1>3 DEF Inv, TypeInv, Typed, Calls
<1>5. loading' \in [Tab -> BOOLEAN]
  BY DEF Inv, TypeInv, Typed
<1>6. Typed'
  BY <1>4, <1>5, MoveTyped DEF Inv, TypeInv, Typed, Send
<1>7. \A u \in Tab : \A k \in Kinds :
        /\ \A j \in Of(calls, u, k) : j \in Of(calls', u, k) /\ calls'[j] = calls[j]
        /\ Of(calls', u, k) # Of(calls, u, k) => u = t /\ k = kind
  <2>1. \A u \in Tab : \A k \in Kinds :
          \A j \in Of(calls, u, k) : j \in Of(calls', u, k) /\ calls'[j] = calls[j]
    BY <1>1, <1>4 DEF Of
  <2>2. \A u \in Tab : \A k \in Kinds :
          \A j \in Of(calls', u, k) : j \in Of(calls, u, k) \/ (u = t /\ k = kind)
    BY <1>3, <1>4 DEF Of
  <2> QED BY <2>1, <2>2
<1>8. ASSUME NEW u \in Tab PROVE ShowsPage(u)' /\ Spinning(u)'
  <2>1. ShowsPage(u) /\ Spinning(u) /\ loading \in [Tab -> BOOLEAN]
    BY DEF Inv, TypeInv, Typed
  <2>2. ShowsPage(u)'
    BY <1>7, <2>1 DEF ShowsPage
  <2>3. CASE loading'[u] /\ ~ loading[u]
    <3>1. u = t /\ kind = "login" /\ route[t].path = "login"
      BY <2>1, <2>3
    <3>2. i \in Of(calls', t, "login") /\ calls'[i].live
      BY <1>3, <1>4, <3>1 DEF Of
    <3> QED BY <2>2, <3>1, <3>2 DEF Spinning
  <2>4. CASE loading[u]
    <3>1. PICK j \in Of(calls, u, "login") : calls[j].live
      BY <2>1, <2>4 DEF Spinning
    <3>2. j \in Of(calls', u, "login") /\ calls'[j].live
      BY <1>7, <3>1 DEF Kinds
    <3> QED BY <2>1, <2>2, <2>4, <3>2 DEF Spinning
  <2>5. CASE ~ loading'[u]
    BY <2>2, <2>5 DEF Spinning
  <2> QED BY <2>3, <2>4, <2>5
<1>9. CookieHasOwner'
  BY DEF Inv, CookieHasOwner
<1> QED BY <1>6, <1>8, <1>9 DEF Inv, TypeInv

LEMMA CancelBoxInv ==
  ASSUME Inv, NEW t \in Tab, CancelBox(t) PROVE Inv'
<1>1. /\ box' = [box EXCEPT ![t] = FALSE]
      /\ UNCHANGED <<cookie, users, token, name, route, calls, loading, moves>>
  BY DEF CancelBox
<1>2. box' \in [Tab -> BOOLEAN] /\ \A u \in Tab : box'[u] => box[u]
  BY <1>1 DEF Inv, TypeInv, Typed
<1>3. Typed' /\ CookieHasOwner'
  BY <1>1, <1>2 DEF Inv, TypeInv, Typed, CookieHasOwner
<1>4. \A u \in Tab : ShowsPage(u)' /\ Spinning(u)'
  BY <1>1, <1>2 DEF Inv, TypeInv, ShowsPage, Spinning
<1> QED BY <1>3, <1>4 DEF Inv, TypeInv

LEMMA UserInv ==
  ASSUME Inv, NEW t \in Tab
  PROVE  /\ \A to \in {Login(None)} \cup {At(p) : p \in Page} : Open(t, to) \/ Visit(t, to) => Inv'
         /\ Submit(t) \/ Logout(t) \/ Request(t) \/ Relogin(t) \/ CancelBox(t) => Inv'
<1>1. ASSUME NEW to \in {Login(None)} \cup {At(p) : p \in Page}
      PROVE  to \in Shown
  BY <1>1, RoutesShown
<1>2. route[t] \in Routes /\ Header(t) \in Token \cup {None}
  BY DEF Inv, TypeInv, Typed, Header
<1>3. (route[t].path \in Page \/ route[t].path = "login") => route[t] \in Shown
  BY <1>2, PathsOfRoutes DEF Paths
<1>4. CASE Submit(t)
  BY <1>3, <1>4, SendInv DEF Submit, Kinds
<1>5. CASE Logout(t)
  BY <1>3, <1>5, SendInv DEF Logout, Kinds
<1>6. CASE Request(t)
  BY <1>2, <1>3, <1>6, SendInv DEF Request, Kinds
<1> QED BY <1>1, <1>4, <1>5, <1>6, OpenInv, VisitInv, ReloginInv, CancelBoxInv

-----------------------------------------------------------------------------
(* The server.                                                             *)

LEMMA AnsweredInv ==
  ASSUME Inv, NEW i \in Slot, calls[i] # NoCall,
         NEW answer \in {"none", "expired", "refused", "failed"} \cup Good,
         calls[i].kind = "login" => answer \in {"refused"} \cup Token, Answered(i, answer),
         users' \in [Token -> {"none", "named", "nameless"}],
         UNCHANGED <<cookie, token, name, route, box, loading, moves>>
  PROVE  Inv'
<1>1. PICK a \in {"none", "expired", "refused", "failed"} \cup Good :
        /\ calls[i].kind = "login" => a \in {"refused", "failed"} \cup Token
        /\ calls' = [calls EXCEPT ![i].answer = a]
  BY DEF Answered
<1>2. calls[i] \in AnyCall
  BY DEF Inv, TypeInv, Typed, Calls
<1>3. PICK d : d = [calls[i] EXCEPT !.answer = a]
  OBVIOUS
<1>4. d \in AnyCall /\ d.kind = calls[i].kind /\ d.tab = calls[i].tab /\ d.live = calls[i].live
  BY <1>1, <1>2, <1>3, CallChanged
<1>5. calls' \in Calls /\ calls'[i] = d /\ \A j \in Slot : j # i => calls'[j] = calls[j]
  BY <1>1, <1>3, <1>4 DEF Inv, TypeInv, Typed, Calls
<1>6. \A j \in Slot : /\ calls'[j] # NoCall <=> calls[j] # NoCall
                      /\ calls[j] # NoCall => /\ calls'[j].kind = calls[j].kind
                                              /\ calls'[j].tab = calls[j].tab
                                              /\ calls'[j].live = calls[j].live
  BY <1>4, <1>5, CallFields
<1>7. \A u \in Tab : \A kind \in Kinds :
        /\ Of(calls', u, kind) = Of(calls, u, kind)
        /\ \A j \in Of(calls, u, kind) : calls'[j].live = calls[j].live
  BY <1>6 DEF Of
<1>8. Typed' /\ CookieHasOwner'
  BY <1>5 DEF Inv, TypeInv, Typed, CookieHasOwner
<1>9. \A u \in Tab : ShowsPage(u)' /\ Spinning(u)'
  BY <1>7 DEF Inv, TypeInv, ShowsPage, Spinning, Kinds
<1> QED BY <1>8, <1>9 DEF Inv, TypeInv

LEMMA ServeInv ==
  ASSUME Inv, NEW i \in Slot, Serve(i)
  PROVE  Inv'
<1>1. /\ users \in [Token -> {"none", "named", "nameless"}] /\ calls[i] # NoCall
      /\ UNCHANGED <<cookie, token, name, route, box, loading, moves>>
  BY DEF Inv, TypeInv, Typed, Serve, ServeLogin, ServeRead, ServeLogout, ServeUpdate,
       Unserved, NoCall
<1>2. {"named", "nameless", "success"} \cup Token \subseteq Good
  BY DEF Good
<1>3. CASE ServeLogin(i)
  <2>1. CASE Answered(i, "refused") /\ UNCHANGED users
    BY <1>1, <2>1, AnsweredInv
  <2>2. CASE \E k \in Token : users' = [users EXCEPT ![k] = "named"] /\ Answered(i, k)
    <3>1. PICK k \in Token : users' = [users EXCEPT ![k] = "named"] /\ Answered(i, k)
      BY <2>2
    <3>2. users' \in [Token -> {"none", "named", "nameless"}]
      BY <1>1, <3>1
    <3> QED BY <1>1, <1>2, <3>1, <3>2, AnsweredInv
  <2> QED BY <1>3, <2>1, <2>2 DEF ServeLogin
<1>4. CASE ServeRead(i)
  <2>1. PICK answer : answer = IF Known(calls[i].arg) THEN users[calls[i].arg] ELSE "expired"
    OBVIOUS
  <2>2. answer \in {"none", "expired", "refused", "failed"} \cup Good
    BY <1>1, <1>2, <2>1 DEF Known
  <2>3. calls[i].kind # "login" /\ Answered(i, answer) /\ UNCHANGED users
    BY <1>4, <2>1 DEF ServeRead, Unserved
  <2> QED BY <1>1, <2>2, <2>3, AnsweredInv
<1>5. CASE ServeLogout(i)
  <2>1. calls[i].kind # "login" /\ Answered(i, "success") /\ UNCHANGED users
    BY <1>5 DEF ServeLogout, Unserved
  <2> QED BY <1>1, <1>2, <2>1, AnsweredInv
<1>6. CASE ServeUpdate(i)
  <2>1. calls[i].kind # "login"
    BY <1>6 DEF ServeUpdate, Unserved
  <2>2. users' \in [Token -> {"none", "named", "nameless"}]
    BY <1>1, <1>6 DEF ServeUpdate
  <2>3. Answered(i, "success") \/ Answered(i, "refused") \/ Answered(i, "expired")
    BY <1>6 DEF ServeUpdate
  <2> QED BY <1>1, <1>2, <2>1, <2>2, <2>3, AnsweredInv
<1> QED BY <1>3, <1>4, <1>5, <1>6 DEF Serve

-----------------------------------------------------------------------------
(* The answers.                                                            *)

\* A delivery to tab t, of call i, that navigates.
LEMMA NavigatedInv ==
  ASSUME Inv, NEW i \in Slot, NEW t \in Tab, Continues(t, Done(i)), calls[i].tab = t,
         NEW on \in BOOLEAN, Spins(t, on),
         on => loading[t] /\ (calls[i].kind = "login" => ~ calls[i].live),
         cookie' \in Token \cup {None}, token' \in [Tab -> Token \cup {None}],
         name' \in [Tab -> BOOLEAN], CookieHasOwner', UNCHANGED <<users, moves>>
  PROVE  Inv'
<1>1. Typed
  BY DEF Inv, TypeInv
<1>2. \A u \in Tab : ShowsPage(u)'
  <2>1. \A u \in Tab : \A kind \in Kinds : Of(Done(i), u, kind) \subseteq Of(calls, u, kind)
    BY <1>1, DoneFacts
  <2> QED BY <2>1, PagesKept DEF Inv
<1>3. on => \E j \in Of(Done(i), t, "login") : Done(i)[j].live
  <2> SUFFICES ASSUME on PROVE \E j \in Of(Done(i), t, "login") : Done(i)[j].live
    OBVIOUS
  <2>1. PICK j \in Of(calls, t, "login") : calls[j].live
    BY DEF Inv, Spinning
  <2>2. j # i
    BY <2>1 DEF Of
  <2>3. j \in Of(Done(i), t, "login") /\ Done(i)[j] = calls[j]
    BY <1>1, <2>1, <2>2, DoneFacts DEF Of, Kinds
  <2> QED BY <2>1, <2>3
<1>4. \A u \in Tab \ {t} : \A j \in Of(calls, u, "login") :
        j \in Of(Done(i), u, "login") /\ Done(i)[j] = calls[j]
  <2> SUFFICES ASSUME NEW u \in Tab \ {t}, NEW j \in Of(calls, u, "login")
               PROVE  j \in Of(Done(i), u, "login") /\ Done(i)[j] = calls[j]
    OBVIOUS
  <2>1. j # i /\ j \in Slot
    BY DEF Of
  <2> QED BY <1>1, <2>1, DoneFacts DEF Kinds
<1>5. loading' \in [Tab -> BOOLEAN] /\ \A u \in Tab : Spinning(u)'
  BY <1>3, <1>4, SpinsKept
<1>6. Typed'
  BY <1>1, <1>5 DEF Typed, Continues, Goes
<1> QED BY <1>2, <1>5, <1>6 DEF Inv, TypeInv

LEMMA DeliverInv ==
  ASSUME Inv, NEW i \in Slot, Deliver(i)
  PROVE  Inv'
<1>1. Typed /\ UNCHANGED <<users, moves>>
  BY DEF Inv, TypeInv, Deliver, InfoSucceeds, InfoFails, LoginSucceeds, LoginFails,
       LogoutSucceeds, OtherAnswer
<1>2. calls[i] \in AnyCall
  BY <1>1 DEF Deliver, InfoSucceeds, InfoFails, LoginSucceeds, LoginFails,
       LogoutSucceeds, OtherAnswer, Answer, Typed, Calls, NoCall
<1>3. PICK t \in Tab : t = calls[i].tab
  BY <1>2, CallFields
<1>4. /\ Done(i) \in Calls /\ Done(i)[i] = NoCall /\ route[t] \in Routes
      /\ calls[i].live \in BOOLEAN /\ loading[t] \in BOOLEAN
      /\ token \in [Tab -> Token \cup {None}] /\ name \in [Tab -> BOOLEAN]
      /\ cookie \in Token \cup {None}
  BY <1>1, <1>2, DoneFacts, CallFields DEF Typed
<1>5. \A kind \in Kinds \ {"info"} : calls[i].kind = kind => route[t] \in Shown
  <2>1. \A kind \in Kinds : calls[i].kind = kind => i \in Of(calls, t, kind)
    BY <1>2, <1>3, CallFields DEF Of
  <2> QED BY <2>1 DEF Inv, TypeInv, ShowsPage
<1>6. CASE InfoSucceeds(i)
  <2>1. calls[i].kind = "info" /\ calls[i].to \in Shown
    BY <1>2, <1>6, CallFields DEF InfoSucceeds, Answer
  <2>2. Continues(t, Done(i))
    <3>1. Arrive(t, calls[i].to, Done(i)) \/ Stay(Done(i))
      BY <1>3, <1>6 DEF InfoSucceeds
    <3>2. \A left \in BOOLEAN : Goes(Done(i), Done(i), t, left)
      BY <1>4, GoesOn
    <3> QED BY <1>1, <1>4, <2>1, <3>1, <3>2, ArriveContinues, StayContinues
  <2>3. name' \in [Tab -> BOOLEAN]
    <3>1. name' = [name EXCEPT ![t] = calls[i].answer = "named"]
      BY <1>3, <1>6 DEF InfoSucceeds
    <3> QED BY <1>4, <3>1
  <2>4. Spins(t, loading[t]) /\ UNCHANGED <<cookie, token>>
    BY <1>3, <1>6 DEF InfoSucceeds
  <2>5. CookieHasOwner'
    BY <2>4 DEF Inv, CookieHasOwner
  <2> QED BY <1>1, <1>3, <1>4, <2>1, <2>2, <2>3, <2>4, <2>5, NavigatedInv
<1>7. CASE InfoFails(i) \/ LogoutSucceeds(i)
  <2>1. ResetToken(t) /\ Spins(t, loading[t]) /\ calls[i].kind # "login" /\ UNCHANGED name
    BY <1>3, <1>7 DEF InfoFails, LogoutSucceeds, Answer
  <2>2. cookie' = None /\ token' \in [Tab -> Token \cup {None}] /\ token'[t] \in Token \cup {None}
    BY <1>4, <2>1 DEF ResetToken
  <2>3. PICK to \in Shown : Navigate(t, to, i, Done(i), cookie', token'[t], name[t])
    <3>1. CASE InfoFails(i)
      <4>1. calls[i].kind = "info" /\ calls[i].to \in Shown
        BY <1>2, <3>1, CallFields DEF InfoFails, Answer
      <4>2. Login(calls[i].to.path) \in Shown
        BY <4>1, PathsOfRoutes, RoutesShown
      <4> QED BY <1>3, <3>1, <4>2 DEF InfoFails
    <3>2. CASE LogoutSucceeds(i)
      <4>1. route[t] \in Shown
        BY <1>5, <3>2 DEF LogoutSucceeds, Answer, Kinds
      <4>2. Login(route[t].path) \in Shown
        BY <4>1, PathsOfRoutes, RoutesShown
      <4> QED BY <1>3, <3>2, <4>2 DEF LogoutSucceeds
    <3> QED BY <1>7, <3>1, <3>2
  <2>4. Continues(t, Done(i))
    BY <1>1, <1>4, <2>2, <2>3, NavigateContinues
  <2>5. CookieHasOwner'
    BY <2>2 DEF CookieHasOwner
  <2> QED BY <1>1, <1>3, <1>4, <2>1, <2>2, <2>4, <2>5, NavigatedInv
<1>8. CASE LoginSucceeds(i)
  <2>1. calls[i].kind = "login" /\ calls[i].answer \in Good /\ calls[i].answer # "none"
    BY <1>8 DEF LoginSucceeds, Answer
  <2>2. calls[i].answer \in Token
    BY <1>2, <2>1, CallFields DEF Good
  <2>3. cookie' = calls[i].answer /\ token' = [token EXCEPT ![t] = calls[i].answer] /\ UNCHANGED name
    BY <1>3, <1>8 DEF LoginSucceeds
  <2>4. token' \in [Tab -> Token \cup {None}] /\ token'[t] = cookie' /\ cookie' \in Token \cup {None}
    BY <1>4, <2>2, <2>3
  <2>5. PICK redirect \in Paths \cup {None} :
          Navigate(t, Target(redirect), i, Done(i), cookie', token'[t], name[t])
    <3>1. /\ route[t].redirect \in Paths \cup {None}
          /\ calls[i].to.redirect \in Paths \cup {None}
      BY <1>2, <1>4, CallFields, PathsOfRoutes
    <3>2. (IF calls[i].live THEN route[t].redirect ELSE calls[i].to.redirect) \in Paths \cup {None}
      BY <3>1
    <3> QED BY <1>3, <1>8, <3>2 DEF LoginSucceeds
  <2>6. Continues(t, Done(i))
    BY <1>1, <1>4, <2>4, <2>5, RoutesShown, NavigateContinues
  <2>7. PICK on \in BOOLEAN : on = (loading[t] /\ ~ calls[i].live)
    OBVIOUS
  <2>8. Spins(t, on)
    BY <1>3, <1>8, <2>7 DEF LoginSucceeds
  <2>9. CookieHasOwner'
    BY <2>4 DEF CookieHasOwner
  <2> QED BY <1>1, <1>3, <1>4, <2>3, <2>4, <2>6, <2>7, <2>8, <2>9, NavigatedInv
<1>9. CASE LoginFails(i) \/ OtherAnswer(i)
  <2>1. UNCHANGED <<cookie, token, name, route>> /\ calls' = Done(i)
    BY <1>9 DEF LoginFails, OtherAnswer
  <2>2. box' \in [Tab -> BOOLEAN] /\ \A u \in Tab : box'[u] => box[u] \/ (u = t /\ route[t] \in Shown)
    <3>1. CASE LoginFails(i)
      BY <1>1, <3>1 DEF LoginFails, Typed
    <3>2. CASE OtherAnswer(i)
      <4>1. route[t] \in Shown
        BY <1>5, <3>2 DEF OtherAnswer, Answer, Kinds
      <4>2. box' = [box EXCEPT ![t] = box[t] \/ calls[i].answer = "expired"]
        BY <1>3, <3>2 DEF OtherAnswer
      <4> QED BY <1>1, <4>1, <4>2 DEF Typed
    <3> QED BY <1>9, <3>1, <3>2
  <2>3. /\ loading' \in [Tab -> BOOLEAN] /\ \A u \in Tab : loading'[u] => loading[u]
        /\ calls[i].kind = "login" /\ calls[i].live => ~ loading'[t]
    <3>1. CASE LoginFails(i)
      BY <1>1, <1>3, <1>4, <3>1 DEF LoginFails, Typed
    <3>2. CASE OtherAnswer(i)
      BY <1>1, <3>2 DEF OtherAnswer, Answer, Typed
    <3> QED BY <1>9, <3>1, <3>2
  <2>4. Typed' /\ CookieHasOwner'
    BY <1>1, <1>4, <2>1, <2>2, <2>3 DEF Inv, Typed, CookieHasOwner
  <2>5. ASSUME NEW u \in Tab PROVE ShowsPage(u)'
    <3>1. \A kind \in Kinds : Of(calls', u, kind) \subseteq Of(calls, u, kind)
      BY <1>1, <2>1, DoneFacts
    <3> QED BY <2>1, <2>2, <3>1 DEF Inv, TypeInv, ShowsPage
  <2>6. ASSUME NEW u \in Tab, loading'[u] PROVE Spinning(u)'
    <3>1. PICK j \in Of(calls, u, "login") : calls[j].live
      BY <2>3, <2>6 DEF Inv, Spinning
    <3>2. j # i /\ j \in Slot
      BY <1>3, <2>3, <2>6, <3>1 DEF Of
    <3>3. j \in Of(calls', u, "login") /\ calls'[j].live
      BY <1>1, <2>1, <3>1, <3>2, DoneFacts DEF Kinds
    <3>4. route[u].path = "login"
      BY <2>3, <2>6 DEF Inv, Spinning
    <3> QED BY <2>1, <3>3, <3>4 DEF Spinning
  <2>7. \A u \in Tab : Spinning(u)'
    BY <2>6 DEF Spinning
  <2> QED BY <2>4, <2>5, <2>7 DEF Inv, TypeInv
<1> QED BY <1>6, <1>7, <1>8, <1>9 DEF Deliver

LEMMA NextInv == Inv /\ [Next]_vars => Inv'
<1> SUFFICES ASSUME Inv, [Next]_vars PROVE Inv'
  OBVIOUS
<1>1. ASSUME NEW k \in Token, Expire(k) PROVE Inv'
  <2>1. UNCHANGED <<cookie, token, name, route, calls, box, loading, moves>>
    BY <1>1 DEF Expire
  <2>2. users' \in [Token -> {"none", "named", "nameless"}]
    BY <1>1 DEF Expire, Inv, TypeInv, Typed
  <2> QED BY <2>1, <2>2 DEF Inv, TypeInv, Typed, CookieHasOwner, ShowsPage, Spinning
<1>2. ASSUME UNCHANGED vars PROVE Inv'
  BY <1>2 DEF vars, Inv, TypeInv, Typed, CookieHasOwner, ShowsPage, Spinning
<1> QED BY <1>1, <1>2, UserInv, ServeInv, DeliverInv DEF Next

\* Of any number of tabs none is ever pushed to a path that does not exist, and
\* a login answers with a token: every variable stays in its type.
THEOREM SessionTypeCorrect == Spec => []SessionTypeOK
<1>1. Inv => SessionTypeOK
  <2> SUFFICES ASSUME Inv PROVE SessionTypeOK
    OBVIOUS
  <2>1. calls \in [Slot -> Callset \cup {NoCall}]
    <3>1. AnyCall \subseteq Callset
      BY DEF AnyCall
    <3> QED BY <3>1 DEF Inv, TypeInv, Typed, Calls
  <2> QED BY <2>1 DEF Inv, TypeInv, Typed, SessionTypeOK
<1> QED BY <1>1, InitInv, NextInv, PTL DEF Spec

\* No order of logins, logouts, failed guards and late answers in any number of
\* tabs leaves the browser with a cookie that no tab sends (auth.js, user.js).
THEOREM CookieAlwaysHasOwner == Spec => []CookieHasOwner
<1>1. Inv => CookieHasOwner
  BY DEF Inv
<1> QED BY <1>1, InitInv, NextInv, PTL DEF Spec

\* However often Enter was pressed and wherever a tab was sent meanwhile, its
\* login button spins only while a login of that page is on its way.
THEOREM SpinningHasLogin == Spec => []LoadingHasLogin
<1>1. Inv => LoadingHasLogin
  BY DEF Inv, Spinning, LoadingHasLogin
<1> QED BY <1>1, InitInv, NextInv, PTL DEF Spec

=============================================================================
