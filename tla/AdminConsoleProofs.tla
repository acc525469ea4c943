-------------------------- MODULE AdminConsoleProofs --------------------------
(***************************************************************************)
(* Proofs about AdminConsole for any clusters, servers, instances, pages,  *)
(* calls in flight and administrators: no configuration is ever owned by a *)
(* cluster and by a server, no list stays masked without a fetch on its    *)
(* way, and creations never carry the identity of a row.                   *)
(*                                                                         *)
(* The services keep the first only for forms that name one owner at most, *)
(* and a form is filled on one page, sent with a call that outlives it,    *)
(* and saved when the table has changed: so its invariant Inv is about the *)
(* table, the form on the page and every form that is on its way.  The     *)
(* second part of the module types what the page shows, what it sends and  *)
(* what comes back (TypedInv).                                             *)
(***************************************************************************)
EXTENDS AdminConsole, TLAPS

ConfigsOK(d) ==
  /\ {"clusters", "servers", "configs", "instances", "used", "up"} = DOMAIN d
  /\ \A k \in DOMAIN d.configs :
       {"server", "cluster"} \subseteq DOMAIN d.configs[k] /\ OwnedOnce(d.configs[k])

FormOK(f) == {"server", "cluster", "owner", "text"} \subseteq DOMAIN f /\ OwnedOnce(f)

Reads == ListPages \cup {"active", "config", "instance", "template"}

CallOK(c) ==
  \/ c = NoCall
  \/ /\ {"op", "arg", "live", "served", "ok", "data"} \subseteq DOMAIN c
     /\ c.op \in Reads \cup Writes
     /\ c.op = "saveConfig" => FormOK(c.arg)

CallsOK(cs) == DOMAIN cs = Slot /\ \A i \in Slot : CallOK(cs[i])

UiOK(u) ==
  /\ {"form", "question"} \subseteq DOMAIN u
  /\ FormOK(u.form)
  /\ u.question = NoQuestion \/ u.question.op \in Writes

\* The page of a new instance has nothing to fetch, and no call that would.
AddOK(v, u, cs) ==
  v.page = "add" =>
    /\ u.question.op \in {"none", "addInstance"}
    /\ \A i \in Slot : cs[i] = NoCall \/ ~cs[i].live \/ cs[i].op \in {"addInstance", "template"}

Inv ==
  /\ ConfigsOK(db) /\ CallsOK(calls) /\ UiOK(ui)
  /\ view.page \in ListPages \cup Editors
  /\ AddOK(view, ui, calls)

-----------------------------------------------------------------------------
(* The services: whatever they answer, the table is as it was, or one row  *)
(* of it is new, changed or gone.                                          *)

Keeps(outcomes) == \A o \in outcomes : ConfigsOK(o.db)

LEMMA Answers ==
  ASSUME NEW d, ConfigsOK(d), NEW data
  PROVE  Outcome(d, data).db = d /\ Keeps(Success(d)) /\ Keeps(Refused(d))
BY DEF Outcome, Failure, Success, Refused, Keeps

\* The other tables do not matter.
LEMMA OtherTables ==
  ASSUME NEW d, ConfigsOK(d), NEW v, NEW w
  PROVE  /\ ConfigsOK([d EXCEPT !.clusters = v])
         /\ ConfigsOK([d EXCEPT !.clusters = v, !.used = w])
         /\ ConfigsOK([d EXCEPT !.servers = v])
         /\ ConfigsOK([d EXCEPT !.servers = v, !.used = w])
         /\ ConfigsOK([d EXCEPT !.instances = v])
         /\ ConfigsOK([d EXCEPT !.instances = v, !.used = w])
         /\ ConfigsOK([d EXCEPT !.up = v])
BY DEF ConfigsOK

TableOK(t) ==
  \A k \in DOMAIN t : {"server", "cluster"} \subseteq DOMAIN t[k] /\ OwnedOnce(t[k])

LEMMA ConfigsReplaced ==
  ASSUME NEW d, ConfigsOK(d), NEW t, TableOK(t), NEW v
  PROVE  /\ ConfigsOK([d EXCEPT !.configs = t])
         /\ ConfigsOK([d EXCEPT !.configs = t, !.used = v])
         /\ ConfigsOK([d EXCEPT !.servers = v, !.configs = t])
BY DEF ConfigsOK, TableOK

LEMMA RowInserted ==
  ASSUME NEW d, ConfigsOK(d), NEW k, NEW server, NEW cluster, server = None \/ cluster = None
  PROVE  TableOK(With(d.configs, k, [server |-> server, cluster |-> cluster]))
<1> DEFINE row == [server |-> server, cluster |-> cluster]
<1>1. {"server", "cluster"} \subseteq DOMAIN row /\ OwnedOnce(row)
  BY DEF OwnedOnce
<1> HIDE DEF row
<1>2. TableOK(With(d.configs, k, row))
  BY <1>1 DEF ConfigsOK, TableOK, With
<1>3. QED
  BY <1>2 DEF row

LEMMA ClustersKept ==
  ASSUME NEW d, ConfigsOK(d), NEW c
  PROVE  Keeps(AddCluster(d)) /\ Keeps(DeleteCluster(d, c))
BY Answers, OtherTables DEF AddCluster, DeleteCluster

LEMMA ServersKept ==
  ASSUME NEW d, ConfigsOK(d), NEW m, NEW s, NEW on
  PROVE  /\ Keeps(AddServer(d, m)) /\ Keeps(UpdateServer(d, m))
         /\ Keeps(DeleteServer(d, s)) /\ Keeps(SwitchServer(d, s, on))
<1>1. Keeps(AddServer(d, m))
  <2> DEFINE new == Unused(d, Server)
             k == Unused(d, Config)
             saved == [d EXCEPT !.servers = With(@, new, [address |-> m.address, cluster |-> m.cluster]),
                                !.used = @ \cup {new}]
             configured == [saved EXCEPT !.configs = With(@, k, [server |-> new, cluster |-> None]),
                                         !.used = @ \cup {k}]
  <2>1. ConfigsOK(saved)
    BY OtherTables
  <2>2. ConfigsOK(configured)
    <3> HIDE DEF saved, new, k
    <3>1. TableOK(With(saved.configs, k, [server |-> new, cluster |-> None]))
      BY <2>1, RowInserted
    <3>2. QED
      BY <2>1, <3>1, ConfigsReplaced
  <2>3. AddServer(d, m) \in {Refused(d), Success(saved), Refused(saved), Success(configured)}
    BY DEF AddServer
  <2> HIDE DEF saved, configured
  <2>4. QED
    BY <2>1, <2>2, <2>3, Answers
<1>2. Keeps(UpdateServer(d, m))
  BY Answers, OtherTables DEF UpdateServer
<1>3. Keeps(DeleteServer(d, s))
  <2> DEFINE rest == Without(d.configs, ConfigOfServer(d, s))
  <2>1. TableOK(rest)
    BY DEF Without, Restrict, ConfigsOK, TableOK
  <2>2. ConfigsOK([d EXCEPT !.servers = Without(@, {s}), !.configs = rest])
    <3> HIDE DEF rest
    <3>1. QED
      BY <2>1, ConfigsReplaced
  <2>3. QED
    BY <2>2, Answers DEF DeleteServer
<1>4. Keeps(SwitchServer(d, s, on))
  <2>1. ConfigsOK([d EXCEPT !.up = IF on THEN @ \cup {s} ELSE @ \ {s}])
    BY OtherTables
  <2>2. QED
    BY <2>1, Answers DEF SwitchServer, Keeps
<1>5. QED
  BY <1>1, <1>2, <1>3, <1>4

\* A form that was loaded for a server and saved for a row of a cluster keeps
\* the server out of it.
LEMMA ConfigKept ==
  ASSUME NEW d, ConfigsOK(d), NEW form, FormOK(form)
  PROVE  Keeps(UpdateConfig(d, form))
<1> DEFINE server == ServerOfForm(d, form)
           k == Unused(d, Config)
           row == [server |-> server, cluster |-> form.cluster]
           added == [d EXCEPT !.configs = With(@, k, row), !.used = @ \cup {k}]
           changed == [d EXCEPT !.configs[form.id].server = server]
<1>1. server = None \/ form.cluster = None
  BY DEF ServerOfForm, FormOK, OwnedOnce
<1>2. ConfigsOK(added)
  <2> HIDE DEF server, k
  <2>1. TableOK(With(d.configs, k, row))
    BY <1>1, RowInserted
  <2>2. QED
    BY <2>1, ConfigsReplaced
<1>3. ASSUME form.id \in DOMAIN d.configs
      PROVE  ConfigsOK(changed)
  <2> DEFINE old == d.configs[form.id]
             new == [old EXCEPT !.server = server]
  <2>1. {"server", "cluster"} \subseteq DOMAIN old /\ OwnedOnce(old)
    BY <1>3 DEF ConfigsOK
  <2>2. server = None \/ old.cluster = None
    BY <1>3 DEF ServerOfForm
  <2>3. {"server", "cluster"} \subseteq DOMAIN new /\ OwnedOnce(new)
    <3> HIDE DEF old, server
    <3>1. QED
      BY <2>1, <2>2 DEF OwnedOnce
  <2>4. changed = [d EXCEPT !.configs = [@ EXCEPT ![form.id] = new]]
    OBVIOUS
  <2> HIDE DEF new
  <2>5. TableOK([d.configs EXCEPT ![form.id] = new])
    BY <2>3 DEF ConfigsOK, TableOK
  <2>6. QED
    BY <2>4, <2>5, ConfigsReplaced
<1>4. Keeps(UpdateConfig(d, form))
  <2>1. \/ UpdateConfig(d, form) \in {Refused(d), Success(d), Success(added)}
        \/ form.id \in DOMAIN d.configs /\ UpdateConfig(d, form) = Success(changed)
    BY DEF UpdateConfig
  <2> HIDE DEF added, changed
  <2>2. QED
    BY <1>2, <1>3, <2>1, Answers
<1>5. QED
  BY <1>4

LEMMA ConfigRead ==
  ASSUME NEW d, ConfigsOK(d), NEW owner
  PROVE  Keeps(GetConfig(d, owner))
BY Answers DEF GetConfig, Keeps, Refused, Failure, Outcome

LEMMA InstancesKept ==
  ASSUME NEW d, ConfigsOK(d), NEW i, NEW owner, NEW s, NEW on
  PROVE  /\ Keeps(AddInstance(d, owner)) /\ Keeps(GetInstance(d, i))
         /\ Keeps(UpdateInstance(d, i, owner)) /\ Keeps(DeleteInstance(d, i))
         /\ Keeps(SwitchInstance(d, i, on)) /\ Keeps(SwitchInstanceOn(d, i, s, on))
         /\ Keeps(ActiveInstances(d, s))
<1>1. Keeps(AddInstance(d, owner))
  <2> DEFINE new == Unused(d, Instance)
  <2>1. ConfigsOK([d EXCEPT !.instances = With(@, new, [owner |-> owner, status |-> TRUE]),
                            !.used = @ \cup {new}])
    BY OtherTables
  <2>2. QED
    BY <2>1, Answers DEF AddInstance, Keeps
<1>2. Keeps(GetInstance(d, i))
  BY Answers DEF GetInstance, Keeps, Refused, Failure, Outcome
<1>3. Keeps(UpdateInstance(d, i, owner))
  <2>1. ConfigsOK([d EXCEPT !.instances[i].owner = owner])
    BY DEF ConfigsOK
  <2>2. QED
    BY <2>1, Answers DEF UpdateInstance
<1>4. Keeps(DeleteInstance(d, i))
  BY OtherTables, Answers DEF DeleteInstance
<1>5. Keeps(SwitchInstance(d, i, on))
  <2>1. ConfigsOK([d EXCEPT !.instances[i].status = on])
    BY DEF ConfigsOK
  <2>2. QED
    BY <2>1, Answers DEF SwitchInstance, Keeps
<1>6. Keeps(SwitchInstanceOn(d, i, s, on))
  BY <1>5, Answers DEF SwitchInstanceOn, Keeps
<1>7. Keeps(ActiveInstances(d, s))
  BY Answers DEF ActiveInstances, Keeps, Outcome
<1>8. QED
  BY <1>1, <1>2, <1>3, <1>4, <1>5, <1>6, <1>7

LEMMA ServiceKeeps ==
  ASSUME ConfigsOK(db), NEW call, CallOK(call), call # NoCall
  PROVE  Keeps(Service(call))
<1>1. call.op \in Reads \cup Writes /\ (call.op = "saveConfig" => FormOK(call.arg))
  BY DEF CallOK
<1>2. CASE call.op \in {"clusters", "servers", "instances", "template"}
  <2>1. \E data : Service(call) = {Outcome(db, data)}
    BY <1>2 DEF Service, Success
  <2>2. QED
    BY <2>1, Answers DEF Keeps
<1>3. CASE call.op \in {"config", "saveConfig"}
  <2>1. CASE call.op = "config"
    BY <2>1, ConfigRead DEF Service
  <2>2. CASE call.op = "saveConfig"
    BY <1>1, <2>2, ConfigKept DEF Service
  <2>3. QED
    BY <1>3, <2>1, <2>2
<1>4. CASE call.op \in {"addCluster", "updateCluster", "deleteCluster"}
  BY <1>4, ClustersKept, Answers DEF Service
<1>5. CASE call.op \in {"addServer", "updateServer", "deleteServer", "startServer", "stopServer"}
  BY <1>5, ServersKept DEF Service
<1>6. CASE call.op \in {"active", "instance", "addInstance", "saveInstance", "deleteInstance"}
  BY <1>6, InstancesKept DEF Service
<1>7. CASE call.op \in {"instanceStart", "instanceStop", "startInstance", "stopInstance"}
  BY <1>7, InstancesKept DEF Service
<1>8. QED
  BY <1>1, <1>2, <1>3, <1>4, <1>5, <1>6, <1>7 DEF Reads, Writes, ListPages

-----------------------------------------------------------------------------
(* Calls and pages.                                                        *)

\* Only saveConfig sends a form of a configuration.
LEMMA CallMade ==
  ASSUME NEW op \in Reads \cup Writes, NEW arg, op = "saveConfig" => FormOK(arg)
  PROVE  CallOK(Call(op, arg))
BY DEF CallOK, Call

LEMMA FetchMade ==
  ASSUME NEW v, v.page \in ListPages \cup Editors, v.page # "add", NEW query
  PROVE  CallOK(Fetch(v, query))
<1>1. \/ Fetch(v, query) = Call("servers", query)
      \/ Fetch(v, query) = Call("config", v.id)
      \/ Fetch(v, query) = Call("instance", v.id)
      \/ v.page \in {"clusters", "instances"} /\ Fetch(v, query) = Call(v.page, None)
  BY DEF Fetch, ListPages, Editors
<1>2. \A op \in {"servers", "config", "instance", "clusters", "instances"} :
        op \in Reads /\ op # "saveConfig"
  BY DEF Reads, ListPages
<1>3. QED
  BY <1>1, <1>2, CallMade

\* The call of one slot.
LEMMA CallReplaced ==
  ASSUME NEW cs, CallsOK(cs), NEW i \in Slot, NEW c, CallOK(c)
  PROVE  CallsOK([cs EXCEPT ![i] = c])
BY DEF CallsOK

LEMMA CallSent ==
  ASSUME CallsOK(calls), NEW c, CallOK(c), Send(c)
  PROVE  CallsOK(calls')
<1>1. PICK i \in Slot : calls' = [calls EXCEPT ![i] = c]
  BY DEF Send, Free
<1>2. QED
  BY <1>1, CallReplaced

LEMMA NoCallOK == CallOK(NoCall)
BY DEF CallOK

LEMMA CallServed ==
  ASSUME CallsOK(calls), AddOK(view, ui, calls), NEW i \in Slot, calls[i] # NoCall, NEW ok, NEW data
  PROVE  LET served == [calls EXCEPT ![i].served = TRUE, ![i].ok = ok, ![i].data = data]
         IN  CallsOK(served) /\ AddOK(view, ui, served)
<1> DEFINE c == calls[i]
           d == [c EXCEPT !.served = TRUE, !.ok = ok, !.data = data]
<1>1. CallOK(d) /\ d.live = c.live /\ d.op = c.op
  <2>1. CallOK(c) /\ c # NoCall
    BY DEF CallsOK
  <2> HIDE DEF c
  <2>2. QED
    BY <2>1, Zenon DEF CallOK
<1>2. [calls EXCEPT ![i].served = TRUE, ![i].ok = ok, ![i].data = data] = [calls EXCEPT ![i] = d]
  BY DEF CallsOK
<1> HIDE DEF d
<1>3. CallsOK([calls EXCEPT ![i] = d])
  BY <1>1, CallReplaced
<1>4. AddOK(view, ui, [calls EXCEPT ![i] = d])
  BY <1>1, Zenon DEF AddOK, CallsOK
<1>5. QED
  BY <1>2, <1>3, <1>4

LEMMA OrphansOK ==
  ASSUME NEW cs, CallsOK(cs)
  PROVE  CallsOK(Orphaned(cs))
<1>1. ASSUME NEW i \in Slot, cs[i] # NoCall
      PROVE  CallOK([cs[i] EXCEPT !.live = FALSE])
  <2>1. CallOK(cs[i])
    BY DEF CallsOK
  <2>2. QED
    BY <1>1, <2>1 DEF CallOK
<1>2. QED
  BY <1>1, NoCallOK DEF CallsOK, Orphaned

LEMMA OrphansDead ==
  ASSUME NEW cs, CallsOK(cs), NEW i \in Slot
  PROVE  Orphaned(cs)[i] = NoCall \/ ~Orphaned(cs)[i].live
<1>1. CASE cs[i] = NoCall
  BY <1>1 DEF Orphaned
<1>2. CASE cs[i] # NoCall
  <2>1. "live" \in DOMAIN cs[i]
    BY <1>2 DEF CallsOK, CallOK
  <2>2. Orphaned(cs)[i] = [cs[i] EXCEPT !.live = FALSE]
    BY <1>2 DEF Orphaned
  <2>3. QED
    BY <2>1, <2>2, Zenon
<1>3. QED
  BY <1>1, <1>2

LEMMA FreshOK ==
  ASSUME NEW v
  PROVE  UiOK(Fresh(v)) /\ Fresh(v).question = NoQuestion
BY DEF UiOK, Fresh, FormOK, NoForm, OwnedOnce

LEMMA QuestionAsked ==
  ASSUME NEW u, UiOK(u), NEW q, q = NoQuestion \/ q.op \in Writes
  PROVE  UiOK([u EXCEPT !.question = q]) /\ [u EXCEPT !.question = q].question = q
BY DEF UiOK

\* Another state of the page with an owned form, and the same question.
Same(u, w) == UiOK(w) /\ w.question = u.question

LEMMA UiKept ==
  ASSUME NEW u, UiOK(u), NEW v, NEW w, NEW x
  PROVE  /\ Same(u, [u EXCEPT !.dialog = v])
         /\ Same(u, [u EXCEPT !.dialog.shown = v])
         /\ Same(u, [u EXCEPT !.dialog.model = v])
         /\ Same(u, [u EXCEPT !.details.shown = v])
         /\ Same(u, [u EXCEPT !.details.shown = v, !.details.loading = w])
         /\ Same(u, [u EXCEPT !.details.server = v, !.details.shown = w, !.details.loading = x])
         /\ Same(u, [u EXCEPT !.details.list = v, !.details.loading = w])
         /\ Same(u, [u EXCEPT !.listLoading = v, !.query = w])
         /\ Same(u, [u EXCEPT !.listLoading = v, !.dialog.shown = w])
         /\ Same(u, [u EXCEPT !.list = v, !.listLoading = w])
BY DEF UiOK, Same

\* The text or the owner of an instance changes, or the form is loaded.
LEMMA FormKept ==
  ASSUME NEW u, UiOK(u), NEW v, NEW f
  PROVE  /\ Same(u, [u EXCEPT !.form.text = v]) /\ Same(u, [u EXCEPT !.form.owner = v])
         /\ FormOK(f) => Same(u, [u EXCEPT !.form = f])
BY DEF UiOK, FormOK, OwnedOnce, Same

\* The page of a new instance stays what it is while no question but its own
\* is asked, and no call but its own is sent.
LEMMA AddKept ==
  ASSUME NEW v, NEW u, NEW cs, CallsOK(cs), AddOK(v, u, cs), NEW w, w.question = u.question, NEW i \in Slot
  PROVE  /\ AddOK(v, w, cs)
         /\ AddOK(v, w, [cs EXCEPT ![i] = NoCall])
         /\ \A op \in {"addInstance", "template"} : \A arg : AddOK(v, w, [cs EXCEPT ![i] = Call(op, arg)])
<1>1. AddOK(v, w, cs)
  BY DEF AddOK
<1>2. ASSUME NEW c, c = NoCall \/ c.op \in {"addInstance", "template"}
      PROVE  AddOK(v, w, [cs EXCEPT ![i] = c])
  BY <1>1, <1>2 DEF AddOK, CallsOK
<1>3. AddOK(v, w, [cs EXCEPT ![i] = NoCall])
  BY <1>2
<1>4. ASSUME NEW op \in {"addInstance", "template"}, NEW arg
      PROVE  AddOK(v, w, [cs EXCEPT ![i] = Call(op, arg)])
  <2>1. Call(op, arg).op \in {"addInstance", "template"}
    BY DEF Call
  <2>2. QED
    BY <1>2, <2>1
<1>5. QED
  BY <1>1, <1>3, <1>4

LEMMA GoInv ==
  ASSUME Inv, NEW v, v.page \in ListPages \cup Editors, NEW cs, CallsOK(cs), AddOK(view, ui, cs), Go(v, cs)
  PROVE  /\ CallsOK(calls') /\ UiOK(ui') /\ view'.page \in ListPages \cup Editors
         /\ AddOK(view', ui', calls')
<1>1. view' = v
  BY DEF Go
<1>2. CASE v.page = view.page
  <2>1. UiOK(ui') /\ ui'.question = NoQuestion /\ calls' = cs
    <3>1. ui' = [ui EXCEPT !.question = NoQuestion] /\ calls' = cs
      BY <1>2 DEF Go
    <3>2. UiOK([ui EXCEPT !.question = NoQuestion])
          /\ [ui EXCEPT !.question = NoQuestion].question = NoQuestion
      BY QuestionAsked DEF Inv
    <3>3. QED
      BY <3>1, <3>2
  <2>2. AddOK(view', ui', calls')
    BY <1>1, <1>2, <2>1 DEF AddOK, NoQuestion
  <2>3. QED
    BY <1>1, <2>1, <2>2
<1>3. CASE v.page # view.page
  <2>1. ui' = Fresh(v)
    BY <1>3 DEF Go
  <2>2. CASE v.page = "add"
    <3>1. calls' = Orphaned(cs)
      BY <1>3, <2>2 DEF Go
    <3>2. \A i \in Slot : calls'[i] = NoCall \/ ~calls'[i].live
      BY <3>1, OrphansDead
    <3>3. AddOK(view', ui', calls')
      BY <2>1, <3>2, FreshOK DEF AddOK, NoQuestion
    <3>4. QED
      BY <1>1, <2>1, <3>1, <3>3, FreshOK, OrphansOK
  <2>3. CASE v.page # "add"
    <3>1. PICK i \in Slot : calls' = [Orphaned(cs) EXCEPT ![i] = Fetch(v, ui'.query)]
      BY <1>3, <2>3 DEF Go, Free
    <3>2. CallOK(Fetch(v, ui'.query))
      BY <2>3, FetchMade
    <3>3. CallsOK(calls')
      BY <3>1, <3>2, OrphansOK, CallReplaced
    <3>4. QED
      BY <1>1, <2>1, <2>3, <3>3, FreshOK DEF AddOK
  <2>4. QED
    BY <2>2, <2>3
<1>4. QED
  BY <1>2, <1>3

-----------------------------------------------------------------------------
(* The steps.                                                              *)

LEMMA InitInv == Init => Inv
<1> SUFFICES ASSUME Init PROVE Inv
  OBVIOUS
<1>1. ConfigsOK(db)
  BY ConsoleConstants DEF Init, TypeOfDb, ConfigsOK
<1>2. view.page \in ListPages \cup Editors
  BY ConsoleConstants DEF Init
<1>3. UiOK(ui) /\ ui.question = NoQuestion
  BY FreshOK DEF Init
<1>4. PICK i \in Slot :
        calls = [j \in Slot |-> IF j = i /\ view.page # "add" THEN Fetch(view, ui.query) ELSE NoCall]
  BY DEF Init
<1>5. view.page # "add" => CallOK(Fetch(view, ui.query))
  BY <1>2, FetchMade
<1>6. CallsOK(calls)
  BY <1>4, <1>5, NoCallOK DEF CallsOK
<1>7. AddOK(view, ui, calls)
  BY <1>3, <1>4 DEF AddOK, NoQuestion
<1>8. QED
  BY <1>1, <1>2, <1>3, <1>6, <1>7 DEF Inv

\* What the user does with a list or the editor of something that is there.
LEMMA PageInv ==
  ASSUME Inv, view.page # "add", db' = db, view' = view, CallsOK(calls'), UiOK(ui')
  PROVE  Inv'
BY DEF Inv, AddOK

LEMMA UserInv ==
  ASSUME Inv, User
  PROVE  Inv'
<1>1. /\ ConfigsOK(db) /\ CallsOK(calls) /\ UiOK(ui) /\ view.page \in ListPages \cup Editors
      /\ AddOK(view, ui, calls)
  BY DEF Inv
<1>2. ASSUME NEW v \in Views, Leave(v)
      PROVE  Inv'
  <2>1. v.page \in ListPages \cup Editors
    BY ConsoleConstants
  <2>2. Go(v, calls) /\ db' = db
    BY <1>2 DEF Leave
  <2>3. QED
    BY <1>1, <2>1, <2>2, GoInv DEF Inv
<1>3. CASE Refresh
  <2>1. view.page # "add" /\ db' = db /\ view' = view
    BY <1>3 DEF Refresh, UserStep
  <2>2. PICK query : /\ Send(Fetch(view, query))
                     /\ ui' = [ui EXCEPT !.listLoading = TRUE, !.query = query]
    BY <1>3 DEF Refresh
  <2>3. CallsOK(calls')
    BY <1>1, <2>1, <2>2, FetchMade, CallSent
  <2>4. UiOK(ui')
    BY <1>1, <2>2, UiKept DEF Same
  <2>5. QED
    BY <2>1, <2>3, <2>4, PageInv
<1>4. CASE HandleCreate \/ HandleUpdate
  <2>1. view.page # "add" /\ db' = db /\ view' = view /\ calls' = calls
    BY <1>4 DEF HandleCreate, HandleUpdate, UserStep
  <2>2. PICK dialog : ui' = [ui EXCEPT !.dialog = dialog]
    BY <1>4 DEF HandleCreate, HandleUpdate
  <2>3. UiOK(ui')
    BY <1>1, <2>2, UiKept DEF Same
  <2>4. QED
    BY <1>1, <2>1, <2>3, PageInv
<1>5. CASE DataOperation
  <2>1. view.page # "add" /\ db' = db /\ view' = view
    BY <1>5 DEF DataOperation, UserStep
  <2>2. PICK model : /\ ui' = [ui EXCEPT !.dialog.model = model]
                     /\ \E op \in DialogOps : Send(Call(op, model))
    BY <1>5 DEF DataOperation, DialogOps, Operation
  <2>3. PICK op \in DialogOps : Send(Call(op, model))
    BY <2>2
  <2>4. CallOK(Call(op, model))
    BY CallMade DEF DialogOps, Writes
  <2>5. CallsOK(calls') /\ UiOK(ui')
    BY <1>1, <2>2, <2>3, <2>4, CallSent, UiKept DEF Same
  <2>6. QED
    BY <2>1, <2>5, PageInv
<1>6. CASE HandleInstances
  <2>1. view.page # "add" /\ db' = db /\ view' = view
    BY <1>6 DEF HandleInstances, UserStep
  <2>2. PICK server : ShowInstances(server)
    BY <1>6 DEF HandleInstances
  <2>3. CallOK(Call("active", server))
    BY CallMade DEF Reads
  <2>4. CallsOK(calls')
    BY <1>1, <2>2, <2>3, CallSent DEF ShowInstances
  <2>5. UiOK(ui')
    BY <1>1, <2>2, UiKept DEF ShowInstances, Same
  <2>6. QED
    BY <2>1, <2>4, <2>5, PageInv
<1>7. CASE HandleRow \/ HandleInstanceRow \/ OnSubmit
  <2>1. db' = db /\ view' = view
    BY <1>7 DEF HandleRow, HandleInstanceRow, OnSubmit, UserStep
  <2>2. PICK op, id : op \in Writes /\ Ask(op, id) /\ (view.page = "add" => op = "addInstance")
    <3>1. CASE HandleRow
      BY <3>1 DEF HandleRow, ListPages, Writes
    <3>2. CASE HandleInstanceRow
      BY <3>2 DEF HandleInstanceRow, Writes
    <3>3. CASE OnSubmit
      BY <3>3 DEF OnSubmit, Writes
    <3>4. QED
      BY <1>7, <3>1, <3>2, <3>3
  <2>3. calls' = calls /\ ui' = [ui EXCEPT !.question = [op |-> op, id |-> id]]
    BY <2>2 DEF Ask
  <2>4. UiOK(ui') /\ ui'.question.op = op
    <3> DEFINE question == [op |-> op, id |-> id]
    <3>1. question.op = op /\ ui' = [ui EXCEPT !.question = question]
      BY <2>3
    <3> HIDE DEF question
    <3>2. QED
      BY <1>1, <2>2, <3>1, QuestionAsked
  <2>5. AddOK(view', ui', calls')
    BY <1>1, <2>1, <2>2, <2>3, <2>4 DEF AddOK
  <2>6. QED
    BY <1>1, <2>1, <2>3, <2>4, <2>5 DEF Inv
<1>8. CASE Confirm
  <2>1. db' = db /\ view' = view /\ ui' = [ui EXCEPT !.question = NoQuestion]
    BY <1>8 DEF Confirm
  <2>2. ui.question.op \in Writes /\ ui.question.op # "none"
    BY <1>1, <1>8 DEF Confirm, UiOK, Writes
  <2>3. ui.question.op = "saveConfig" => FormOK(Confirmed)
    BY <1>1 DEF Confirmed, UiOK
  <2>4. CallOK(Call(ui.question.op, Confirmed))
    BY <2>2, <2>3, CallMade
  <2>5. PICK i \in Slot : calls' = [calls EXCEPT ![i] = Call(ui.question.op, Confirmed)]
    BY <1>8 DEF Confirm, Send, Free
  <2>6. CallsOK(calls') /\ UiOK(ui') /\ ui'.question = NoQuestion
    BY <1>1, <2>1, <2>4, <2>5, CallReplaced, QuestionAsked
  <2>7. AddOK(view', ui', calls')
    <3>1. CASE view.page # "add"
      BY <2>1, <3>1 DEF AddOK
    <3>2. CASE view.page = "add"
      <4>1. ui.question.op = "addInstance"
        BY <1>1, <2>2, <3>2 DEF AddOK
      <4>2. AddOK(view, ui, calls')
        BY <1>1, <2>5, <4>1, AddKept
      <4>3. QED
        BY <2>1, <2>6, <4>2 DEF AddOK, NoQuestion
    <3>3. QED
      BY <3>1, <3>2
  <2>8. QED
    BY <1>1, <2>1, <2>6, <2>7 DEF Inv
<1>9. CASE CancelDialog \/ CloseInstances \/ Edit
  <2>1. db' = db /\ view' = view /\ calls' = calls
    BY <1>9 DEF CancelDialog, CloseInstances, Edit, UserStep
  <2>2. \E v : \/ ui' = [ui EXCEPT !.dialog.shown = v] \/ ui' = [ui EXCEPT !.details.shown = v]
               \/ ui' = [ui EXCEPT !.form.text = v] \/ ui' = [ui EXCEPT !.form.owner = v]
    BY <1>9 DEF CancelDialog, CloseInstances, Edit
  <2>3. UiOK(ui') /\ ui'.question = ui.question
    <3>1. ASSUME NEW v, ui' = [ui EXCEPT !.dialog.shown = v] PROVE Same(ui, ui')
      BY <1>1, <3>1, UiKept
    <3>2. ASSUME NEW v, ui' = [ui EXCEPT !.details.shown = v] PROVE Same(ui, ui')
      BY <1>1, <3>2, UiKept
    <3>3. ASSUME NEW v, ui' = [ui EXCEPT !.form.text = v] PROVE Same(ui, ui')
      BY <1>1, <3>3, FormKept
    <3>4. ASSUME NEW v, ui' = [ui EXCEPT !.form.owner = v] PROVE Same(ui, ui')
      BY <1>1, <3>4, FormKept
    <3>5. QED
      BY <2>2, <3>1, <3>2, <3>3, <3>4, Zenon DEF Same
  <2>4. AddOK(view', ui', calls')
    BY <1>1, <2>1, <2>3 DEF AddOK
  <2>5. QED
    BY <1>1, <2>1, <2>3, <2>4 DEF Inv
<1>10. CASE CancelQuestion
  <2>1. db' = db /\ view' = view /\ calls' = calls /\ ui' = [ui EXCEPT !.question = NoQuestion]
    BY <1>10 DEF CancelQuestion
  <2>2. UiOK(ui') /\ ui'.question = NoQuestion
    BY <1>1, <2>1, QuestionAsked
  <2>3. AddOK(view', ui', calls')
    BY <1>1, <2>1, <2>2 DEF AddOK, NoQuestion
  <2>4. QED
    BY <1>1, <2>1, <2>2, <2>3 DEF Inv
<1>11. CASE Reload
  <2>1. db' = db /\ view' = view /\ ui' = ui
    BY <1>11 DEF Reload, UserStep
  <2>2. CASE view.page # "add" /\ Send(Fetch(view, ui.query))
    <3>1. CallsOK(calls')
      BY <1>1, <2>2, FetchMade, CallSent
    <3>2. QED
      BY <1>1, <2>1, <2>2, <3>1, PageInv
  <2>3. CASE Send(Call("template", None))
    <3>1. CallOK(Call("template", None))
      BY CallMade DEF Reads
    <3>2. PICK i \in Slot : calls' = [calls EXCEPT ![i] = Call("template", None)]
      BY <2>3 DEF Send, Free
    <3>3. CallsOK(calls') /\ AddOK(view, ui, calls')
      BY <1>1, <3>1, <3>2, CallReplaced, AddKept
    <3>4. QED
      BY <1>1, <2>1, <3>3 DEF Inv
  <2>4. QED
    BY <1>11, <2>2, <2>3 DEF Reload
<1>12. QED
  BY <1>2, <1>3, <1>4, <1>5, <1>6, <1>7, <1>8, <1>9, <1>10, <1>11 DEF User

\* A served call, one that is lost, and the work of others.
LEMMA ServerInv ==
  ASSUME Inv, Other \/ \E i \in Slot : Serve(i) \/ Fail(i)
  PROVE  Inv'
<1>1. /\ ConfigsOK(db) /\ CallsOK(calls) /\ UiOK(ui) /\ view.page \in ListPages \cup Editors
      /\ AddOK(view, ui, calls)
  BY DEF Inv
<1>2. CASE Other
  <2>1. calls' = calls /\ ui' = ui /\ view' = view
    BY <1>2 DEF Other
  <2>2. PICK outcome :
          /\ db' = outcome.db
          /\ \/ \E s : outcome \in DeleteServer(db, s)
             \/ \E i : outcome \in DeleteInstance(db, i)
             \/ \E i, s : outcome \in UpdateInstance(db, i, s)
             \/ \E s, on : outcome \in SwitchServer(db, s, on)
    BY <1>2, SMT DEF Other
  <2>3. ConfigsOK(outcome.db)
    BY <1>1, <2>2, ServersKept, InstancesKept DEF Keeps
  <2>4. ConfigsOK(db')
    BY <2>2, <2>3
  <2>5. QED
    BY <1>1, <2>1, <2>4 DEF Inv
<1>3. ASSUME NEW i \in Slot, Serve(i)
      PROVE  Inv'
  <2>1. ui' = ui /\ view' = view /\ calls[i] # NoCall
    BY <1>3 DEF Serve, Waiting
  <2>2. PICK outcome \in Service(calls[i]) :
          /\ db' = outcome.db
          /\ calls' = [calls EXCEPT ![i].served = TRUE, ![i].ok = outcome.ok, ![i].data = outcome.data]
    BY <1>3 DEF Serve
  <2>3. CallOK(calls[i])
    BY <1>1 DEF CallsOK
  <2>4. ConfigsOK(db')
    BY <1>1, <2>1, <2>2, <2>3, ServiceKeeps DEF Keeps
  <2>5. CallsOK(calls') /\ AddOK(view, ui, calls')
    BY <1>1, <2>1, <2>2, CallServed
  <2>6. QED
    BY <1>1, <2>1, <2>4, <2>5 DEF Inv
<1>4. ASSUME NEW i \in Slot, Fail(i)
      PROVE  Inv'
  <2>1. CallsOK(calls') /\ AddOK(view, ui, calls')
    BY <1>1, <1>4, CallServed DEF Fail
  <2>2. QED
    BY <1>1, <1>4, <2>1 DEF Inv, Fail
<1>5. QED
  BY <1>2, <1>3, <1>4

\* The forms that come with answers name one owner, that of the address.
LEMMA DeliverInv ==
  ASSUME Inv, NEW i \in Slot, Deliver(i)
  PROVE  Inv'
<1>1. /\ ConfigsOK(db) /\ CallsOK(calls) /\ UiOK(ui) /\ view.page \in ListPages \cup Editors
      /\ AddOK(view, ui, calls)
  BY DEF Inv
<1>2. CallsOK(Done(i)) /\ \A w : w.question = ui.question => AddOK(view, w, Done(i))
  BY <1>1, NoCallOK, CallReplaced, AddKept DEF Done
<1>3. \A c : CallOK(c) => CallsOK(Then(i, c))
  BY <1>1, CallReplaced DEF Then
<1>4. ASSUME calls' = Done(i), db' = db, view' = view, UiOK(ui'), ui'.question = ui.question
      PROVE  Inv'
  BY <1>1, <1>2, <1>4 DEF Inv
\* A live call of another kind was not sent by that page.
<1>5. ASSUME calls[i] # NoCall, calls[i].live, calls[i].op \notin {"addInstance", "template"}
      PROVE  view.page # "add"
  BY <1>1, <1>5 DEF AddOK
<1>6. CASE DeliverList(i) \/ DeliverActive(i) \/ DeliverNothing(i) \/ DeliverTemplate(i)
  <2>1. calls' = Done(i) /\ db' = db /\ view' = view
    BY <1>6 DEF DeliverList, DeliverActive, DeliverNothing, DeliverTemplate, Change
  <2>2. \/ ui' = ui
        \/ \E v, w : \/ ui' = [ui EXCEPT !.list = v, !.listLoading = w]
                     \/ ui' = [ui EXCEPT !.details.list = v, !.details.loading = w]
                     \/ ui' = [ui EXCEPT !.form.text = v]
    <3>1. CASE DeliverList(i)
      BY <3>1 DEF DeliverList, Change
    <3>2. CASE DeliverActive(i)
      BY <3>2 DEF DeliverActive, Change
    <3>3. CASE DeliverNothing(i) \/ DeliverTemplate(i)
      BY <3>3 DEF DeliverNothing, DeliverTemplate, Change
    <3>4. QED
      BY <1>6, <3>1, <3>2, <3>3
  <2>3. UiOK(ui') /\ ui'.question = ui.question
    <3>1. ASSUME NEW v, NEW w, ui' = [ui EXCEPT !.list = v, !.listLoading = w]
          PROVE  Same(ui, ui')
      BY <1>1, <3>1, UiKept
    <3>2. ASSUME NEW v, NEW w, ui' = [ui EXCEPT !.details.list = v, !.details.loading = w]
          PROVE  Same(ui, ui')
      BY <1>1, <3>2, UiKept
    <3>3. ASSUME NEW v, ui' = [ui EXCEPT !.form.text = v] PROVE Same(ui, ui')
      BY <1>1, <3>3, FormKept
    <3>4. ui' = ui => Same(ui, ui')
      BY <1>1 DEF Same
    <3>5. QED
      BY <2>2, <3>1, <3>2, <3>3, <3>4, Zenon DEF Same
  <2>4. QED
    BY <1>4, <2>1, <2>3
<1>7. CASE DeliverOperation(i)
  <2>1. PICK shown : ui' = [ui EXCEPT !.listLoading = TRUE, !.dialog.shown = shown]
    BY <1>7 DEF DeliverOperation, Change
  <2>2. calls' = Then(i, Fetch(view, ui.query)) /\ db' = db /\ view' = view
    BY <1>7 DEF DeliverOperation, Change
  <2>3. view.page # "add"
    BY <1>5, <1>7 DEF DeliverOperation, Succeeds, Answered, Writes
  <2>4. CallsOK(calls')
    BY <1>1, <1>3, <2>2, <2>3, FetchMade
  <2>5. UiOK(ui')
    BY <1>1, <2>1, UiKept DEF Same
  <2>6. QED
    BY <2>2, <2>3, <2>4, <2>5, PageInv
<1>8. CASE DeliverInstanceSwitch(i)
  <2>1. view.page # "add"
    BY <1>5, <1>8 DEF DeliverInstanceSwitch, Succeeds, Answered
  <2>2. CallOK(Call("active", ui.details.server))
    BY CallMade DEF Reads
  <2>3. CallsOK(calls') /\ UiOK(ui') /\ db' = db /\ view' = view
    BY <1>1, <1>3, <1>8, <2>2, UiKept DEF DeliverInstanceSwitch, Change, Same
  <2>4. QED
    BY <2>1, <2>3, PageInv
<1>9. CASE DeliverConfig(i)
  <2>1. calls' = Done(i) /\ db' = db /\ view' = view
    BY <1>9 DEF DeliverConfig, Change
  <2> DEFINE k == calls[i].data
             form == [id |-> k, text |-> k # None, owner |-> None,
                      server |-> IF view.id \in Server THEN view.id ELSE None,
                      cluster |-> IF view.id \in Cluster THEN view.id ELSE None]
  <2>2. FormOK(form)
    <3>1. view.id \notin Server \/ view.id \notin Cluster
      BY ConsoleConstants
    <3>2. QED
      BY <3>1 DEF FormOK, OwnedOnce
  <2>3. ui' = [ui EXCEPT !.form = form]
    BY <1>9 DEF DeliverConfig, Change
  <2> HIDE DEF form
  <2>4. UiOK(ui') /\ ui'.question = ui.question
    BY <1>1, <2>2, <2>3, FormKept DEF Same
  <2>5. QED
    BY <1>4, <2>1, <2>4
<1>10. CASE DeliverInstance(i)
  <2>1. calls' = Done(i) /\ db' = db /\ view' = view
    BY <1>10 DEF DeliverInstance, Change
  <2> DEFINE form == [NoForm EXCEPT !.id = calls[i].arg, !.owner = calls[i].data, !.text = TRUE]
  <2>2. FormOK(form)
    BY DEF FormOK, OwnedOnce, NoForm
  <2>3. ui' = [ui EXCEPT !.form = form]
    BY <1>10 DEF DeliverInstance, Change
  <2> HIDE DEF form
  <2>4. UiOK(ui') /\ ui'.question = ui.question
    BY <1>1, <2>2, <2>3, FormKept DEF Same
  <2>5. QED
    BY <1>4, <2>1, <2>4
<1>11. CASE DeliverSave(i)
  <2>1. calls' = Then(i, Fetch(view, ui.query)) /\ db' = db /\ view' = view /\ ui' = ui
    BY <1>11 DEF DeliverSave, Change
  <2>2. view.page # "add"
    BY <1>5, <1>11 DEF DeliverSave, Succeeds, Answered
  <2>3. CallsOK(calls')
    BY <1>1, <1>3, <2>1, <2>2, FetchMade
  <2>4. QED
    BY <1>1, <2>1, <2>2, <2>3, PageInv
<1>12. CASE DeliverAdded(i)
  <2> DEFINE v == [page |-> "instances", id |-> None]
  <2>1. db' = db
    BY <1>12 DEF DeliverAdded
  <2>2. CASE view = v
    <3>1. calls' = Done(i) /\ view' = view /\ ui' = ui
      BY <1>12, <2>2 DEF DeliverAdded
    <3>2. QED
      BY <1>1, <1>4, <2>1, <3>1
  <2>3. CASE view # v
    <3>1. Go(v, Done(i)) /\ v.page \in ListPages
      BY <1>12, <2>3 DEF DeliverAdded, ListPages
    <3> HIDE DEF v
    <3>2. QED
      BY <1>1, <1>2, <2>1, <3>1, GoInv DEF Inv
  <2>4. QED
    BY <2>2, <2>3
<1>13. QED
  BY <1>6, <1>7, <1>8, <1>9, <1>10, <1>11, <1>12 DEF Deliver

LEMMA NextInv == Inv /\ [Next]_vars => Inv'
<1> SUFFICES ASSUME Inv, [Next]_vars PROVE Inv'
  OBVIOUS
<1>1. CASE User
  BY <1>1, UserInv
<1>2. CASE Other \/ \E i \in Slot : Serve(i) \/ Fail(i)
  BY <1>2, ServerInv
<1>3. CASE \E i \in Slot : Deliver(i)
  BY <1>3, DeliverInv
<1>4. CASE UNCHANGED vars
  BY <1>4 DEF Inv, vars
<1>5. QED
  BY <1>1, <1>2, <1>3, <1>4 DEF Next

\* Whatever pages a configuration is loaded on and saved from, and whoever
\* changes or deletes rows between the two, no configuration gets a second
\* owner (CanalConfig.vue, CanalConfigServiceImpl.updateContent).
THEOREM ConfigAlwaysOwnedOnce == Spec => []ConfigOwnedOnce
<1>1. Init => Inv
  BY InitInv
<1>2. Inv /\ [Next]_vars => Inv'
  BY NextInv
<1>3. Inv => ConfigOwnedOnce
  BY DEF Inv, ConfigsOK, ConfigOwnedOnce
<1>4. QED
  BY <1>1, <1>2, <1>3, PTL DEF Spec

-----------------------------------------------------------------------------
(* What the page shows, what was sent from it, and what comes back to it.  *)
(* Dialogs are opened on rows that were listed, and rows are listed from   *)
(* answers, so identities are followed from the tables through the answers *)
(* and the rows into the dialogs and the calls that these send; a table    *)
(* may lose a row, but never takes an identity back.                       *)

DbOK(d) == TypeOfDb(d) /\ RowsUsed(d)

AddedView == [page |-> "instances", id |-> None]
ViewOK(v) == v \in Views \cup {AddedView}

Owner == Cluster \cup Server

UiShape(u) ==
  /\ DOMAIN u = {"query", "list", "listLoading", "dialog", "details", "form", "question"}
  /\ DOMAIN u.dialog = {"shown", "status", "model"}
  /\ DOMAIN u.details = {"shown", "server", "list", "loading"}
  /\ DOMAIN u.form = {"id", "server", "cluster", "owner", "text"}

FlagsOK(u) ==
  /\ u.query \in Queries
  /\ {u.listLoading, u.dialog.shown, u.details.shown, u.details.loading} \subseteq BOOLEAN

FormTyped(f) ==
  /\ f.id \in Config \cup Instance \cup {None}
  /\ f.server \in Server \cup {None} /\ f.cluster \in Cluster \cup {None}
  /\ f.owner \in Owner \cup {None} /\ f.text \in BOOLEAN

\* The rows of the servers' page carry the cluster that their dialog shows.
RowsOK(page, rows, used) ==
  \A row \in rows : row.id \in used /\ (page = "servers" => row.cluster \in Cluster \cup {None})

DialogOK(dialog, used) ==
  /\ dialog.model.cluster \in Cluster \cup {None}
  /\ \/ dialog.status = "create" /\ dialog.model.id = None
     \/ dialog.status = "update" /\ dialog.model.id \in used

\* A new instance has an owner by the time it is asked for.
QuestionOK(v, u) ==
  /\ u.question.op \in {"none"} \cup (Writes \ DialogOps)
  /\ u.question.op = "addInstance" => v.page = "add" /\ u.form.owner \in Owner

ArgOK(c, used) ==
  /\ c.op \in {"addServer", "updateServer"} => c.arg.address \in Address /\ c.arg.cluster \in Cluster \cup {None}
  /\ c.op \in {"addServer", "addCluster"} => c.arg.id = None
  /\ c.op \in {"updateServer", "updateCluster"} => c.arg.id \in used
  /\ c.op \in {"saveConfig", "saveInstance"} => FormTyped(c.arg)
  /\ c.op = "addInstance" => c.arg.owner \in Owner
  /\ c.op = "instance" => c.arg \in Instance \cup {None}

DataOK(c, used) ==
  c.ok = TRUE =>
    /\ c.op \in ListPages => RowsOK(c.op, c.data, used)
    /\ c.op = "config" => c.data \in Config \cup {None}
    /\ c.op = "instance" => c.data \in Owner

TypedCalls(cs, used) == \A i \in Slot : cs[i] # NoCall => ArgOK(cs[i], used) /\ DataOK(cs[i], used)

\* Calls for a list that somebody waits for are those of its page.
Runs(c, ops) == c # NoCall /\ c.live = TRUE /\ c.op \in ops
ListsOfPage(v, cs) == \A i \in Slot : Runs(cs[i], ListPages) => cs[i].op = v.page

Masked(v, u, cs) ==
  /\ v.page \in ListPages /\ u.listLoading = TRUE => \E i \in Slot : Runs(cs[i], ListPages)
  /\ u.details.shown = TRUE /\ u.details.loading = TRUE => \E i \in Slot : Runs(cs[i], {"active"})

PageOK(v, u, used) ==
  /\ UiShape(u) /\ FlagsOK(u) /\ FormTyped(u.form)
  /\ RowsOK(v.page, u.list, used) /\ DialogOK(u.dialog, used) /\ QuestionOK(v, u)

TypedInv ==
  /\ Inv
  /\ DbOK(db) /\ ViewOK(view)
  /\ PageOK(view, ui, db.used)
  /\ TypedCalls(calls, db.used)
  /\ ListsOfPage(view, calls)
  /\ Masked(view, ui, calls)

-----------------------------------------------------------------------------
(* The services again: tables keep their types and take no identity back.  *)

Grows(d, outcomes) == \A o \in outcomes : DbOK(o.db) /\ d.used \subseteq o.db.used

ServerTable(t) ==
  /\ DOMAIN t \subseteq Server
  /\ \A s \in DOMAIN t : t[s] \in [address : Address, cluster : Cluster \cup {None}]
ConfigTable(t) ==
  /\ DOMAIN t \subseteq Config
  /\ \A k \in DOMAIN t : t[k] \in [server : Server \cup {None}, cluster : Cluster \cup {None}]
InstanceTable(t) ==
  /\ DOMAIN t \subseteq Instance
  /\ \A i \in DOMAIN t : t[i] \in [owner : Owner, status : BOOLEAN]

Identity == Cluster \cup Server \cup Config \cup Instance

LEMMA DbTables ==
  ASSUME NEW d
  PROVE  DbOK(d) <=>
           /\ DOMAIN d = {"clusters", "servers", "configs", "instances", "used", "up"}
           /\ d.clusters \subseteq Cluster /\ ServerTable(d.servers)
           /\ ConfigTable(d.configs) /\ InstanceTable(d.instances)
           /\ d.used \subseteq Identity /\ d.up \subseteq Server
           /\ d.clusters \cup DOMAIN d.servers \cup DOMAIN d.configs \cup DOMAIN d.instances \subseteq d.used
BY DEF DbOK, TypeOfDb, RowsUsed, ServerTable, ConfigTable, InstanceTable, Identity, Owner

LEMMA TableWith ==
  ASSUME NEW t, NEW id, NEW row
  PROVE  /\ DOMAIN With(t, id, row) = DOMAIN t \cup {id}
         /\ ServerTable(t) /\ id \in Server /\ row \in [address : Address, cluster : Cluster \cup {None}]
              => ServerTable(With(t, id, row))
         /\ ConfigTable(t) /\ id \in Config
            /\ row \in [server : Server \cup {None}, cluster : Cluster \cup {None}]
              => ConfigTable(With(t, id, row))
         /\ InstanceTable(t) /\ id \in Instance /\ row \in [owner : Owner, status : BOOLEAN]
              => InstanceTable(With(t, id, row))
<1>1. /\ DOMAIN With(t, id, row) = DOMAIN t \cup {id}
      /\ \A i \in DOMAIN t \cup {id} : With(t, id, row)[i] \in {row, t[i]} /\ (i = id \/ i \in DOMAIN t)
      /\ \A i \in DOMAIN t \cup {id} : With(t, id, row)[i] = IF i = id THEN row ELSE t[i]
  BY DEF With
<1>2. QED
  BY <1>1 DEF ServerTable, ConfigTable, InstanceTable

LEMMA TableWithout ==
  ASSUME NEW t, NEW ids
  PROVE  /\ DOMAIN Without(t, ids) \subseteq DOMAIN t
         /\ ServerTable(t) => ServerTable(Without(t, ids))
         /\ ConfigTable(t) => ConfigTable(Without(t, ids))
         /\ InstanceTable(t) => InstanceTable(Without(t, ids))
BY DEF Without, Restrict, ServerTable, ConfigTable, InstanceTable

\* A row goes, changes, or comes with a new identity.
LEMMA DbChanged ==
  ASSUME NEW d, DbOK(d), NEW t
  PROVE  /\ t \subseteq d.clusters => DbOK([d EXCEPT !.clusters = t])
         /\ t \subseteq Server => DbOK([d EXCEPT !.up = t])
         /\ ServerTable(t) /\ DOMAIN t \subseteq DOMAIN d.servers => DbOK([d EXCEPT !.servers = t])
         /\ ConfigTable(t) /\ DOMAIN t \subseteq DOMAIN d.configs => DbOK([d EXCEPT !.configs = t])
         /\ InstanceTable(t) /\ DOMAIN t \subseteq DOMAIN d.instances => DbOK([d EXCEPT !.instances = t])
BY DbTables

LEMMA DbExtended ==
  ASSUME NEW d, DbOK(d), NEW t, NEW id
  PROVE  /\ id \in Cluster => DbOK([d EXCEPT !.clusters = @ \cup {id}, !.used = @ \cup {id}])
         /\ id \in Server /\ ServerTable(t) /\ DOMAIN t = DOMAIN d.servers \cup {id}
              => DbOK([d EXCEPT !.servers = t, !.used = @ \cup {id}])
         /\ id \in Config /\ ConfigTable(t) /\ DOMAIN t = DOMAIN d.configs \cup {id}
              => DbOK([d EXCEPT !.configs = t, !.used = @ \cup {id}])
         /\ id \in Instance /\ InstanceTable(t) /\ DOMAIN t = DOMAIN d.instances \cup {id}
              => DbOK([d EXCEPT !.instances = t, !.used = @ \cup {id}])
BY DbTables DEF Identity

LEMMA UnusedThere ==
  ASSUME NEW d, NEW ids, ~NoneLeft(d, ids)
  PROVE  Unused(d, ids) \in ids
<1>1. \E id \in ids : id \notin d.used
  BY DEF NoneLeft
<1>2. QED
  BY <1>1 DEF Unused

LEMMA AnswersGrow ==
  ASSUME NEW d, DbOK(d)
  PROVE  Grows(d, Success(d)) /\ Grows(d, Refused(d)) /\ \A data : Grows(d, {Outcome(d, data)})
BY DEF Grows, Success, Refused, Outcome, Failure

LEMMA SuccessGrows ==
  ASSUME NEW d, NEW e, DbOK(e), d.used \subseteq e.used
  PROVE  Grows(d, Success(e)) /\ Grows(d, Refused(e))
BY DEF Grows, Success, Refused, Outcome, Failure

LEMMA ClustersGrow ==
  ASSUME NEW d, DbOK(d), NEW c
  PROVE  Grows(d, AddCluster(d)) /\ Grows(d, DeleteCluster(d, c))
<1>0. DOMAIN d = {"clusters", "servers", "configs", "instances", "used", "up"}
  BY DbTables
<1>1. Grows(d, AddCluster(d))
  <2> DEFINE id == Unused(d, Cluster)
             e == [d EXCEPT !.clusters = @ \cup {id}, !.used = @ \cup {id}]
  <2>1. CASE NoneLeft(d, Cluster)
    BY <2>1, AnswersGrow DEF AddCluster
  <2>2. CASE ~NoneLeft(d, Cluster)
    <3>1. id \in Cluster
      BY <2>2, UnusedThere
    <3>2. e.used = d.used \cup {id}
      BY <1>0
    <3>3. AddCluster(d) = Success(e)
      BY <2>2 DEF AddCluster
    <3> HIDE DEF id
    <3>4. DbOK(e)
      BY <3>1, DbExtended
    <3> HIDE DEF e
    <3>5. QED
      BY <3>2, <3>3, <3>4, SuccessGrows
  <2>3. QED
    BY <2>1, <2>2
<1>2. Grows(d, DeleteCluster(d, c))
  <2> DEFINE e == [d EXCEPT !.clusters = @ \ {c}]
  <2>1. DbOK(e) /\ e.used = d.used
    BY <1>0, DbChanged
  <2>2. DeleteCluster(d, c) = Refused(d) \/ DeleteCluster(d, c) = Success(e)
    BY DEF DeleteCluster
  <2> HIDE DEF e
  <2>3. QED
    BY <2>1, <2>2, SuccessGrows, AnswersGrow
<1>3. QED
  BY <1>1, <1>2

LEMMA ServersGrow ==
  ASSUME NEW d, DbOK(d), NEW m, NEW s, NEW on
  PROVE  /\ m.address \in Address /\ m.cluster \in Cluster \cup {None}
              => Grows(d, AddServer(d, m)) /\ Grows(d, UpdateServer(d, m))
         /\ Grows(d, DeleteServer(d, s)) /\ Grows(d, SwitchServer(d, s, on))
<1>0. /\ DOMAIN d = {"clusters", "servers", "configs", "instances", "used", "up"}
      /\ ServerTable(d.servers) /\ ConfigTable(d.configs) /\ d.up \subseteq Server
  BY DbTables
<1> DEFINE row == [address |-> m.address, cluster |-> m.cluster]
<1>1. ASSUME m.address \in Address, m.cluster \in Cluster \cup {None}
      PROVE  Grows(d, AddServer(d, m))
  <2> DEFINE new == Unused(d, Server)
             k == Unused(d, Config)
             t == With(d.servers, new, row)
             saved == [d EXCEPT !.servers = t, !.used = @ \cup {new}]
             own == [server |-> new, cluster |-> None]
             u == With(saved.configs, k, own)
             configured == [saved EXCEPT !.configs = u, !.used = @ \cup {k}]
  <2>1. CASE NoneLeft(d, Server)
    BY <2>1, AnswersGrow DEF AddServer
  <2>2. CASE ~NoneLeft(d, Server)
    <3>1. new \in Server
      BY <2>2, UnusedThere
    <3>2. row \in [address : Address, cluster : Cluster \cup {None}]
      BY <1>1
    <3>3. ServerTable(t) /\ DOMAIN t = DOMAIN d.servers \cup {new}
      <4> HIDE DEF new, row
      <4>1. QED
        BY <1>0, <3>1, <3>2, TableWith
    <3>4. saved.used = d.used \cup {new} /\ saved.configs = d.configs
      BY <1>0
    <3>5. DbOK(saved)
      <4> HIDE DEF new, t
      <4>1. QED
        BY <3>1, <3>3, DbExtended
    <3>6. \/ AddServer(d, m) \in {Refused(d), Success(saved), Refused(saved)}
          \/ ~NoneLeft(d, Config) /\ AddServer(d, m) = Success(configured)
      BY DEF AddServer
    <3>7. ASSUME ~NoneLeft(d, Config)
          PROVE  DbOK(configured) /\ configured.used = saved.used \cup {k}
      <4>1. k \in Config
        BY <3>7, UnusedThere
      <4>2. own \in [server : Server \cup {None}, cluster : Cluster \cup {None}]
        BY <3>1
      <4> HIDE DEF own, k
      <4>3. ConfigTable(u) /\ DOMAIN u = DOMAIN saved.configs \cup {k}
        <5>1. ConfigTable(saved.configs)
          BY <1>0, <3>4
        <5> HIDE DEF saved
        <5>2. QED
          BY <4>1, <4>2, <5>1, TableWith
      <4> HIDE DEF u
      <4>4. configured.used = saved.used \cup {k}
        <5>1. DOMAIN saved = DOMAIN d
          OBVIOUS
        <5> HIDE DEF saved
        <5>2. QED
          BY <1>0, <5>1
      <4> HIDE DEF saved
      <4>5. DbOK(configured)
        BY <3>5, <4>1, <4>3, DbExtended
      <4>6. QED
        BY <4>4, <4>5
    <3> HIDE DEF saved, configured
    <3>8. Grows(d, Success(saved)) /\ Grows(d, Refused(saved))
      BY <3>4, <3>5, SuccessGrows
    <3>9. ~NoneLeft(d, Config) => Grows(d, Success(configured))
      BY <3>4, <3>7, SuccessGrows
    <3>10. QED
      BY <3>6, <3>8, <3>9, AnswersGrow
  <2>3. QED
    BY <2>1, <2>2
<1>2. ASSUME m.address \in Address, m.cluster \in Cluster \cup {None}
      PROVE  Grows(d, UpdateServer(d, m))
  <2> DEFINE t == [d.servers EXCEPT ![m.id] = row]
             e == [d EXCEPT !.servers = t]
  <2>1. ServerTable(t) /\ DOMAIN t = DOMAIN d.servers
    BY <1>0, <1>2 DEF ServerTable
  <2>2. UpdateServer(d, m) \in {Refused(d), Success(d), Success(e)}
    BY DEF UpdateServer
  <2> HIDE DEF t
  <2>3. DbOK(e) /\ e.used = d.used
    BY <1>0, <2>1, DbChanged
  <2> HIDE DEF e
  <2>4. QED
    BY <2>2, <2>3, SuccessGrows, AnswersGrow
<1>3. Grows(d, DeleteServer(d, s))
  <2> DEFINE rest == Without(d.servers, {s})
             configs == Without(d.configs, ConfigOfServer(d, s))
             e == [d EXCEPT !.servers = rest, !.configs = configs]
  <2>1. DeleteServer(d, s) \in {Refused(d), Success(d), Success(e)}
    BY DEF DeleteServer
  <2>2. /\ ServerTable(rest) /\ DOMAIN rest \subseteq DOMAIN d.servers
        /\ ConfigTable(configs) /\ DOMAIN configs \subseteq DOMAIN d.configs
    BY <1>0, TableWithout
  <2> HIDE DEF rest, configs
  <2>3. DbOK(e) /\ e.used = d.used
    BY <2>2, DbTables
  <2> HIDE DEF e
  <2>4. QED
    BY <2>1, <2>3, SuccessGrows, AnswersGrow
<1>4. Grows(d, SwitchServer(d, s, on))
  <2> DEFINE up == IF on THEN d.up \cup {s} ELSE d.up \ {s}
             e == [d EXCEPT !.up = up]
  <2>1. \/ SwitchServer(d, s, on) = {Outcome(d, FALSE)} \cup {}
        \/ s \in DOMAIN d.servers /\ SwitchServer(d, s, on) = {Outcome(d, FALSE)} \cup Success(e)
    BY DEF SwitchServer
  <2>2. s \in DOMAIN d.servers => up \subseteq Server
    BY <1>0 DEF ServerTable
  <2> HIDE DEF up
  <2>3. s \in DOMAIN d.servers => DbOK(e) /\ e.used = d.used
    BY <1>0, <2>2, DbChanged
  <2> HIDE DEF e
  <2>4. s \in DOMAIN d.servers => Grows(d, Success(e))
    BY <2>3, SuccessGrows
  <2>5. QED
    BY <2>1, <2>4, AnswersGrow DEF Grows
<1>5. QED
  BY <1>1, <1>2, <1>3, <1>4

LEMMA ConfigGrows ==
  ASSUME NEW d, DbOK(d), NEW form, FormTyped(form)
  PROVE  Grows(d, UpdateConfig(d, form))
<1> DEFINE server == ServerOfForm(d, form)
           k == Unused(d, Config)
           row == [server |-> server, cluster |-> form.cluster]
           t == With(d.configs, k, row)
           added == [d EXCEPT !.configs = t, !.used = @ \cup {k}]
           u == [d.configs EXCEPT ![form.id] = [@ EXCEPT !.server = server]]
           changed == [d EXCEPT !.configs = u]
<1>0. DOMAIN d = {"clusters", "servers", "configs", "instances", "used", "up"} /\ ConfigTable(d.configs)
  BY DbTables
<1>1. server \in Server \cup {None}
  BY DEF ServerOfForm, FormTyped
<1>2. \/ UpdateConfig(d, form) \in {Refused(d), Success(d), Success(changed)}
      \/ ~NoneLeft(d, Config) /\ UpdateConfig(d, form) = Success(added)
  BY DEF UpdateConfig
<1>3. ASSUME ~NoneLeft(d, Config)
      PROVE  DbOK(added) /\ added.used = d.used \cup {k}
  <2>1. k \in Config
    BY <1>3, UnusedThere
  <2>2. row \in [server : Server \cup {None}, cluster : Cluster \cup {None}]
    <3> HIDE DEF server
    <3>1. QED
      BY <1>1 DEF FormTyped
  <2> HIDE DEF row, k
  <2>3. ConfigTable(t) /\ DOMAIN t = DOMAIN d.configs \cup {k}
    BY <1>0, <2>1, <2>2, TableWith
  <2> HIDE DEF t
  <2>4. QED
    BY <1>0, <2>1, <2>3, DbExtended
<1>4. DbOK(changed) /\ changed.used = d.used
  <2>1. ConfigTable(u) /\ DOMAIN u = DOMAIN d.configs
    <3> HIDE DEF server
    <3>1. QED
      BY <1>0, <1>1 DEF ConfigTable
  <2> HIDE DEF u
  <2>2. QED
    BY <1>0, <2>1, DbChanged
<1> HIDE DEF added, changed
<1>5. Grows(d, Success(changed)) /\ (~NoneLeft(d, Config) => Grows(d, Success(added)))
  BY <1>3, <1>4, SuccessGrows
<1>6. QED
  BY <1>2, <1>5, AnswersGrow

LEMMA InstancesGrow ==
  ASSUME NEW d, DbOK(d), NEW i, NEW owner, NEW s, NEW on \in BOOLEAN
  PROVE  /\ owner \in Owner => Grows(d, AddInstance(d, owner))
         /\ owner \in Owner \cup {None} => Grows(d, UpdateInstance(d, i, owner))
         /\ Grows(d, GetInstance(d, i)) /\ Grows(d, DeleteInstance(d, i))
         /\ Grows(d, SwitchInstance(d, i, on)) /\ Grows(d, SwitchInstanceOn(d, i, s, on))
         /\ Grows(d, ActiveInstances(d, s))
<1>0. /\ DOMAIN d = {"clusters", "servers", "configs", "instances", "used", "up"}
      /\ InstanceTable(d.instances)
  BY DbTables
<1>1. ASSUME owner \in Owner
      PROVE  Grows(d, AddInstance(d, owner))
  <2> DEFINE new == Unused(d, Instance)
             row == [owner |-> owner, status |-> TRUE]
             t == With(d.instances, new, row)
             e == [d EXCEPT !.instances = t, !.used = @ \cup {new}]
  <2>1. CASE NoneLeft(d, Instance)
    BY <2>1, AnswersGrow DEF AddInstance
  <2>2. CASE ~NoneLeft(d, Instance)
    <3>1. new \in Instance /\ row \in [owner : Owner, status : BOOLEAN]
      BY <1>1, <2>2, UnusedThere
    <3>2. AddInstance(d, owner) = Refused(d) \cup Success(e)
      BY <2>2 DEF AddInstance
    <3> HIDE DEF row, new
    <3>3. InstanceTable(t) /\ DOMAIN t = DOMAIN d.instances \cup {new}
      BY <1>0, <3>1, TableWith
    <3> HIDE DEF t
    <3>4. DbOK(e) /\ e.used = d.used \cup {new}
      BY <1>0, <3>1, <3>3, DbExtended
    <3> HIDE DEF e
    <3>5. QED
      BY <3>2, <3>4, SuccessGrows, AnswersGrow DEF Grows
  <2>3. QED
    BY <2>1, <2>2
<1>2. ASSUME owner \in Owner \cup {None}
      PROVE  Grows(d, UpdateInstance(d, i, owner))
  <2> DEFINE t == [d.instances EXCEPT ![i] = [@ EXCEPT !.owner = owner]]
             e == [d EXCEPT !.instances = t]
  <2>1. CASE owner = None \/ i \notin DOMAIN d.instances
    BY <2>1, AnswersGrow DEF UpdateInstance
  <2>2. CASE owner # None /\ i \in DOMAIN d.instances
    <3>1. UpdateInstance(d, i, owner) \in {Refused(d), Success(e)}
      BY <2>2 DEF UpdateInstance
    <3>2. InstanceTable(t) /\ DOMAIN t = DOMAIN d.instances
      BY <1>0, <1>2, <2>2 DEF InstanceTable
    <3> HIDE DEF t
    <3>3. DbOK(e) /\ e.used = d.used
      BY <1>0, <3>2, DbChanged
    <3> HIDE DEF e
    <3>4. QED
      BY <3>1, <3>3, SuccessGrows, AnswersGrow
  <2>3. QED
    BY <2>1, <2>2
<1>3. Grows(d, GetInstance(d, i))
  BY AnswersGrow DEF GetInstance
<1>4. Grows(d, DeleteInstance(d, i))
  <2> DEFINE t == Without(d.instances, {i})
             e == [d EXCEPT !.instances = t]
  <2>1. InstanceTable(t) /\ DOMAIN t \subseteq DOMAIN d.instances
    BY <1>0, TableWithout
  <2>2. DeleteInstance(d, i) = Success(e)
    BY DEF DeleteInstance
  <2> HIDE DEF t
  <2>3. DbOK(e) /\ e.used = d.used
    BY <1>0, <2>1, DbChanged
  <2> HIDE DEF e
  <2>4. QED
    BY <2>2, <2>3, SuccessGrows
<1>5. Grows(d, SwitchInstance(d, i, on))
  <2> DEFINE t == [d.instances EXCEPT ![i] = [@ EXCEPT !.status = on]]
             e == [d EXCEPT !.instances = t]
  <2>1. CASE i \notin DOMAIN d.instances
    BY <2>1, AnswersGrow DEF SwitchInstance
  <2>2. CASE i \in DOMAIN d.instances
    <3>1. SwitchInstance(d, i, on) = Success(e)
      BY <2>2 DEF SwitchInstance
    <3>2. InstanceTable(t) /\ DOMAIN t = DOMAIN d.instances
      BY <1>0, <2>2 DEF InstanceTable
    <3> HIDE DEF t
    <3>3. DbOK(e) /\ e.used = d.used
      BY <1>0, <3>2, DbChanged
    <3> HIDE DEF e
    <3>4. QED
      BY <3>1, <3>3, SuccessGrows
  <2>3. QED
    BY <2>1, <2>2
<1>6. Grows(d, SwitchInstanceOn(d, i, s, on))
  BY <1>5, AnswersGrow DEF SwitchInstanceOn, Grows
<1>7. Grows(d, ActiveInstances(d, s))
  BY AnswersGrow DEF ActiveInstances, Grows
<1>8. QED
  BY <1>1, <1>2, <1>3, <1>4, <1>5, <1>6, <1>7

LEMMA ServiceGrows ==
  ASSUME DbOK(db), NEW call, call.op \in Reads \cup Writes, ArgOK(call, db.used)
  PROVE  Grows(db, Service(call))
<1>1. CASE call.op \in {"clusters", "servers", "instances", "template", "updateCluster"}
  <2>1. \E data : Service(call) = {Outcome(db, data)}
    BY <1>1 DEF Service, Success
  <2>2. QED
    BY <2>1, AnswersGrow
<1>2. CASE call.op = "config"
  <2>1. Service(call) = GetConfig(db, call.arg)
    BY <1>2 DEF Service
  <2>2. QED
    BY <2>1, AnswersGrow DEF GetConfig, Grows
<1>3. CASE call.op = "saveConfig"
  BY <1>3, ConfigGrows DEF Service, ArgOK
<1>4. CASE call.op \in {"addCluster", "deleteCluster"}
  BY <1>4, ClustersGrow DEF Service
<1>5. CASE call.op \in {"addServer", "updateServer"}
  BY <1>5, ServersGrow DEF Service, ArgOK
<1>6. CASE call.op \in {"deleteServer", "startServer", "stopServer"}
  BY <1>6, ServersGrow DEF Service
<1>7. CASE call.op \in {"active", "instance", "deleteInstance"}
  BY <1>7, InstancesGrow DEF Service
<1>8. CASE call.op = "addInstance"
  BY <1>8, InstancesGrow DEF Service, ArgOK
<1>9. CASE call.op = "saveInstance"
  <2>1. call.arg.owner \in Owner \cup {None}
    BY <1>9 DEF ArgOK, FormTyped
  <2>2. QED
    BY <1>9, <2>1, InstancesGrow DEF Service
<1>10. CASE call.op \in {"instanceStart", "instanceStop", "startInstance", "stopInstance"}
  BY <1>10, InstancesGrow DEF Service
<1>11. QED
  BY <1>1, <1>2, <1>3, <1>4, <1>5, <1>6, <1>7, <1>8, <1>9, <1>10 DEF Reads, Writes, ListPages

\* What is listed and loaded was in the tables.
LEMMA ServiceAnswers ==
  ASSUME DbOK(db), NEW call, NEW o \in Service(call), o.ok = TRUE
  PROVE  /\ call.op \in ListPages => RowsOK(call.op, o.data, db.used)
         /\ call.op = "config" => o.data \in Config \cup {None}
         /\ call.op = "instance" => o.data \in Owner
<1>0. /\ db.clusters \cup DOMAIN db.servers \cup DOMAIN db.configs \cup DOMAIN db.instances \subseteq db.used
      /\ ServerTable(db.servers) /\ ConfigTable(db.configs) /\ InstanceTable(db.instances)
  BY DbTables
<1>1. ASSUME call.op = "clusters"
      PROVE  RowsOK(call.op, o.data, db.used)
  <2>1. o.data = {[id |-> c] : c \in db.clusters}
    BY <1>1 DEF Service, Outcome
  <2>2. \A row \in o.data : row.id \in db.used
    BY <1>0, <2>1
  <2>3. QED
    BY <1>1, <2>2 DEF RowsOK
<1>2. ASSUME call.op = "servers"
      PROVE  RowsOK(call.op, o.data, db.used)
  <2>1. o.data = ServerRows(db, call.arg)
    BY <1>2 DEF Service, Outcome
  <2>2. \A row \in ServerRows(db, call.arg) :
          \E s \in DOMAIN db.servers : row.id = s /\ row.cluster = db.servers[s].cluster
    BY DEF ServerRows, ServersOf
  <2>3. QED
    BY <1>0, <2>1, <2>2 DEF RowsOK, ServerTable
<1>3. ASSUME call.op = "instances"
      PROVE  RowsOK(call.op, o.data, db.used)
  <2>1. o.data = InstanceRowsOf
    BY <1>3 DEF Service, Outcome
  <2>2. \A row \in InstanceRowsOf : row.id \in DOMAIN db.instances
    BY DEF InstanceRowsOf
  <2>3. QED
    BY <1>0, <1>3, <2>1, <2>2 DEF RowsOK
<1>4. ASSUME call.op = "config"
      PROVE  o.data \in Config \cup {None}
  <2>1. o \in GetConfig(db, call.arg)
    BY <1>4 DEF Service
  <2>2. PICK found \in SUBSET DOMAIN db.configs :
          o \in Refused(db) \cup {Outcome(db, k) : k \in IF found = {} THEN {None} ELSE found}
    <3> DEFINE own == IF call.arg \in Cluster THEN ConfigOfCluster(db, call.arg) ELSE ConfigOfServer(db, call.arg)
               shared == IF call.arg \in DOMAIN db.servers /\ db.servers[call.arg].cluster # None
                         THEN ConfigOfCluster(db, db.servers[call.arg].cluster) ELSE {}
               found == IF own # {} THEN own ELSE shared
    <3>1. found \subseteq DOMAIN db.configs
      BY DEF ConfigOfCluster, ConfigOfServer
    <3>2. \/ o \in Refused(db)
          \/ o \in {Outcome(db, k) : k \in IF found = {} THEN {None} ELSE found}
      BY <2>1 DEF GetConfig
    <3> HIDE DEF found
    <3>3. QED
      BY <3>1, <3>2
  <2>3. PICK k \in Config \cup {None} : o = Outcome(db, k)
    BY <1>0, <2>2 DEF Refused, Failure, ConfigTable
  <2>4. QED
    BY <2>3 DEF Outcome
<1>5. ASSUME call.op = "instance"
      PROVE  o.data \in Owner
  <2>1. o \in GetInstance(db, call.arg)
    BY <1>5 DEF Service
  <2>2. call.arg \in DOMAIN db.instances /\ o = Outcome(db, db.instances[call.arg].owner)
    BY <2>1 DEF GetInstance, Refused, Failure
  <2>3. QED
    BY <1>0, <2>2 DEF InstanceTable, Outcome
<1>6. QED
  BY <1>1, <1>2, <1>3, <1>4, <1>5 DEF ListPages

-----------------------------------------------------------------------------
(* Slots.                                                                  *)

\* Identities that were given out stay so.
LEMMA TypedLater ==
  ASSUME NEW used, NEW more, used \subseteq more, NEW cs, TypedCalls(cs, used)
  PROVE  TypedCalls(cs, more)
BY DEF TypedCalls, ArgOK, DataOK, RowsOK

LEMMA PageLater ==
  ASSUME NEW used, NEW more, used \subseteq more, NEW v, NEW u, PageOK(v, u, used)
  PROVE  PageOK(v, u, more)
BY DEF PageOK, RowsOK, DialogOK

LEMMA TypedReplaced ==
  ASSUME NEW cs, CallsOK(cs), NEW used, TypedCalls(cs, used), NEW i \in Slot,
         NEW c, c # NoCall => ArgOK(c, used) /\ DataOK(c, used)
  PROVE  TypedCalls([cs EXCEPT ![i] = c], used)
BY DEF TypedCalls, CallsOK

LEMMA OfPageReplaced ==
  ASSUME NEW cs, CallsOK(cs), NEW v, ListsOfPage(v, cs), NEW i \in Slot,
         NEW c, Runs(c, ListPages) => c.op = v.page
  PROVE  ListsOfPage(v, [cs EXCEPT ![i] = c])
BY DEF ListsOfPage, CallsOK

\* A mask stays answered for while the calls it waits for do.
LEMMA MaskedReplaced ==
  ASSUME NEW cs, CallsOK(cs), NEW v, NEW u, Masked(v, u, cs), NEW i \in Slot, NEW c,
         Runs(cs[i], ListPages) => Runs(c, ListPages),
         Runs(cs[i], {"active"}) => Runs(c, {"active"})
  PROVE  Masked(v, u, [cs EXCEPT ![i] = c])
<1>1. \A j \in Slot : [cs EXCEPT ![i] = c][j] = IF j = i THEN c ELSE cs[j]
  BY DEF CallsOK
<1>2. ASSUME NEW ops, Runs(cs[i], ops) => Runs(c, ops), \E j \in Slot : Runs(cs[j], ops)
      PROVE  \E j \in Slot : Runs([cs EXCEPT ![i] = c][j], ops)
  BY <1>1, <1>2
<1>3. QED
  BY <1>2 DEF Masked

LEMMA CallFields ==
  ASSUME NEW op, NEW arg
  PROVE  /\ Call(op, arg) # NoCall /\ Call(op, arg).op = op /\ Call(op, arg).arg = arg
         /\ Call(op, arg).live = TRUE /\ Call(op, arg).ok = FALSE
BY DEF Call, NoCall

LEMMA FetchFields ==
  ASSUME NEW v, v.page \in ListPages \cup Editors, v.page # "add", NEW query
  PROVE  /\ \E op, arg :
              /\ op \in Reads \ {"active", "template"}
              /\ Fetch(v, query) = Call(op, arg)
              /\ op \in ListPages <=> v.page \in ListPages
              /\ op \in ListPages => op = v.page
              /\ op = "instance" => v.page = "modify" /\ arg = v.id
<1>1. \/ v.page = "servers" /\ Fetch(v, query) = Call("servers", query)
      \/ v.page = "config" /\ Fetch(v, query) = Call("config", v.id)
      \/ v.page = "modify" /\ Fetch(v, query) = Call("instance", v.id)
      \/ v.page \in {"clusters", "instances"} /\ Fetch(v, query) = Call(v.page, None)
  BY DEF Fetch, ListPages, Editors
<1>2. QED
  BY <1>1 DEF Reads, ListPages

-----------------------------------------------------------------------------
(* The page.                                                               *)

\* Nothing that a mask hangs on changes.
SameMasks(u, w) == w.listLoading = u.listLoading /\ w.details = u.details

LEMMA MasksKept ==
  ASSUME NEW v, NEW cs, NEW u, Masked(v, u, cs), NEW w, SameMasks(u, w)
  PROVE  Masked(v, w, cs)
BY DEF Masked, SameMasks

\* The parts of the page that are assigned: a state of it with one of them new.
LEMMA PartSet ==
  ASSUME NEW u, UiShape(u), NEW x
  PROVE  LET w == [u EXCEPT !.dialog = x]
         IN  /\ DOMAIN w = DOMAIN u /\ w.dialog = x /\ w.details = u.details /\ w.form = u.form
             /\ w.query = u.query /\ w.list = u.list /\ w.listLoading = u.listLoading /\ w.question = u.question
BY DEF UiShape

LEMMA DialogSet ==
  ASSUME NEW v, NEW u, NEW used, PageOK(v, u, used), NEW d,
         DOMAIN d = {"shown", "status", "model"}, d.shown \in BOOLEAN, DialogOK(d, used)
  PROVE  PageOK(v, [u EXCEPT !.dialog = d], used) /\ SameMasks(u, [u EXCEPT !.dialog = d])
<1> DEFINE w == [u EXCEPT !.dialog = d]
<1>1. /\ DOMAIN w = DOMAIN u /\ w.dialog = d /\ w.details = u.details /\ w.form = u.form
      /\ w.query = u.query /\ w.list = u.list /\ w.listLoading = u.listLoading /\ w.question = u.question
  BY PartSet DEF PageOK
<1> HIDE DEF w
<1>2. PageOK(v, w, used) /\ SameMasks(u, w)
  BY <1>1 DEF PageOK, UiShape, FlagsOK, QuestionOK, SameMasks
<1>3. QED
  BY <1>2 DEF w

\* A dialog is hidden by cancelling, or by the answer to its call.
LEMMA DialogHidden ==
  ASSUME NEW v, NEW u, NEW used, PageOK(v, u, used), NEW shown \in BOOLEAN
  PROVE  PageOK(v, [u EXCEPT !.dialog.shown = shown], used) /\ SameMasks(u, [u EXCEPT !.dialog.shown = shown])
<1> DEFINE d == [u.dialog EXCEPT !.shown = shown]
<1>1. /\ DOMAIN d = {"shown", "status", "model"} /\ d.shown = shown
      /\ d.status = u.dialog.status /\ d.model = u.dialog.model
  BY DEF PageOK, UiShape
<1>2. [u EXCEPT !.dialog.shown = shown] = [u EXCEPT !.dialog = d]
  OBVIOUS
<1> HIDE DEF d
<1>3. DialogOK(d, used)
  BY <1>1 DEF PageOK, DialogOK
<1>4. QED
  BY <1>1, <1>2, <1>3, DialogSet

LEMMA ModelSet ==
  ASSUME NEW v, NEW u, NEW used, PageOK(v, u, used), NEW m,
         m.id = u.dialog.model.id, m.cluster \in Cluster \cup {None}
  PROVE  PageOK(v, [u EXCEPT !.dialog.model = m], used) /\ SameMasks(u, [u EXCEPT !.dialog.model = m])
<1> DEFINE d == [u.dialog EXCEPT !.model = m]
<1>1. /\ DOMAIN d = {"shown", "status", "model"} /\ d.shown = u.dialog.shown
      /\ d.status = u.dialog.status /\ d.model = m
  BY DEF PageOK, UiShape
<1>2. [u EXCEPT !.dialog.model = m] = [u EXCEPT !.dialog = d]
  OBVIOUS
<1> HIDE DEF d
<1>3. DialogOK(d, used) /\ d.shown \in BOOLEAN
  BY <1>1 DEF PageOK, DialogOK, FlagsOK
<1>4. QED
  BY <1>1, <1>2, <1>3, DialogSet

\* The details of a server, with the mask over them on or off.
LEMMA DetailsSet ==
  ASSUME NEW v, NEW u, NEW used, PageOK(v, u, used), NEW d,
         DOMAIN d = {"shown", "server", "list", "loading"}, d.shown \in BOOLEAN, d.loading \in BOOLEAN
  PROVE  LET w == [u EXCEPT !.details = d]
         IN  PageOK(v, w, used) /\ w.listLoading = u.listLoading /\ w.details = d
<1> DEFINE w == [u EXCEPT !.details = d]
<1>1. /\ DOMAIN w = DOMAIN u /\ w.dialog = u.dialog /\ w.details = d /\ w.form = u.form
      /\ w.query = u.query /\ w.list = u.list /\ w.listLoading = u.listLoading /\ w.question = u.question
  BY DEF PageOK, UiShape
<1> HIDE DEF w
<1>2. PageOK(v, w, used)
  BY <1>1 DEF PageOK, UiShape, FlagsOK, QuestionOK
<1>3. QED
  BY <1>1, <1>2 DEF w

\* The list of the page, its mask and the query it was fetched with.
LEMMA ListSet ==
  ASSUME NEW v, NEW u, NEW used, PageOK(v, u, used), NEW w, DOMAIN w = DOMAIN u,
         w.dialog = u.dialog, w.details = u.details, w.form = u.form, w.question = u.question,
         w.query \in Queries, RowsOK(v.page, w.list, used), w.listLoading \in BOOLEAN
  PROVE  PageOK(v, w, used)
BY DEF PageOK, UiShape, FlagsOK, QuestionOK

\* A form that is filled while a new instance waits for its confirmation has
\* an owner all the same.
LEMMA FormSet ==
  ASSUME NEW v, NEW u, NEW used, PageOK(v, u, used), NEW f,
         DOMAIN f = {"id", "server", "cluster", "owner", "text"}, FormTyped(f),
         u.question.op = "addInstance" => f.owner \in Owner
  PROVE  PageOK(v, [u EXCEPT !.form = f], used) /\ SameMasks(u, [u EXCEPT !.form = f])
<1> DEFINE w == [u EXCEPT !.form = f]
<1>1. /\ DOMAIN w = DOMAIN u /\ w.dialog = u.dialog /\ w.details = u.details /\ w.form = f
      /\ w.query = u.query /\ w.list = u.list /\ w.listLoading = u.listLoading /\ w.question = u.question
  BY DEF PageOK, UiShape
<1> HIDE DEF w
<1>2. PageOK(v, w, used) /\ SameMasks(u, w)
  BY <1>1 DEF PageOK, UiShape, FlagsOK, QuestionOK, SameMasks
<1>3. QED
  BY <1>2 DEF w

LEMMA QuestionSet ==
  ASSUME NEW v, NEW u, NEW used, PageOK(v, u, used), NEW q,
         q.op \in {"none"} \cup (Writes \ DialogOps),
         q.op = "addInstance" => v.page = "add" /\ u.form.owner \in Owner
  PROVE  PageOK(v, [u EXCEPT !.question = q], used) /\ SameMasks(u, [u EXCEPT !.question = q])
<1> DEFINE w == [u EXCEPT !.question = q]
<1>1. /\ DOMAIN w = DOMAIN u /\ w.dialog = u.dialog /\ w.details = u.details /\ w.form = u.form
      /\ w.query = u.query /\ w.list = u.list /\ w.listLoading = u.listLoading /\ w.question = q
  BY DEF PageOK, UiShape
<1> HIDE DEF w
<1>2. PageOK(v, w, used) /\ SameMasks(u, w)
  BY <1>1 DEF PageOK, UiShape, FlagsOK, QuestionOK, SameMasks
<1>3. QED
  BY <1>2 DEF w

LEMMA FreshTyped ==
  ASSUME NEW v, ViewOK(v), NEW used
  PROVE  PageOK(v, Fresh(v), used) /\ Fresh(v).details.shown = FALSE /\ Fresh(v).question.op = "none"
<1>1. Fresh(v).query \in Queries
  <2>1. CASE v \in Views
    BY <2>1, ConsoleConstants DEF Fresh, Queries
  <2>2. CASE v = AddedView
    BY <2>2 DEF Fresh, Queries, AddedView
  <2>3. QED
    BY <2>1, <2>2 DEF ViewOK
<1>2. UiShape(Fresh(v)) /\ FormTyped(Fresh(v).form)
  BY DEF UiShape, Fresh, NoForm, FormTyped
<1>3. /\ Fresh(v).listLoading = TRUE /\ Fresh(v).list = {}
      /\ Fresh(v).details = [shown |-> FALSE, server |-> None, list |-> {}, loading |-> TRUE]
      /\ Fresh(v).dialog = [shown |-> FALSE, status |-> "create", model |-> NoModel]
      /\ Fresh(v).question = NoQuestion
  BY DEF Fresh
<1>4. FlagsOK(Fresh(v))
  <2>1. /\ Fresh(v).dialog.shown = FALSE /\ Fresh(v).details.shown = FALSE
        /\ Fresh(v).details.loading = TRUE
    BY <1>3
  <2>2. QED
    BY <1>1, <1>3, <2>1, Zenon DEF FlagsOK
<1>5. RowsOK(v.page, Fresh(v).list, used) /\ DialogOK(Fresh(v).dialog, used)
  BY <1>3 DEF RowsOK, DialogOK, NoModel
<1>6. Fresh(v).question.op = "none" /\ Fresh(v).details.shown = FALSE
  BY <1>3 DEF NoQuestion
<1>7. QuestionOK(v, Fresh(v))
  BY <1>6 DEF QuestionOK
<1>8. QED
  BY <1>2, <1>4, <1>5, <1>6, <1>7 DEF PageOK

-----------------------------------------------------------------------------
(* Sending, and going to another page.                                     *)

LEMMA ViewPage ==
  ASSUME NEW v, ViewOK(v)
  PROVE  /\ v.page \in ListPages \cup Editors
         /\ v.page = "modify" => v.id \in Instance \cup {None}
BY ConsoleConstants DEF ViewOK, AddedView, ListPages

LEMMA FetchTyped ==
  ASSUME NEW v, ViewOK(v), v.page # "add", NEW query, NEW used
  PROVE  /\ ArgOK(Fetch(v, query), used) /\ DataOK(Fetch(v, query), used)
         /\ Runs(Fetch(v, query), ListPages) => Fetch(v, query).op = v.page
         /\ v.page \in ListPages => Runs(Fetch(v, query), ListPages)
<1>1. PICK op, arg :
        /\ op \in Reads \ {"active", "template"}
        /\ Fetch(v, query) = Call(op, arg)
        /\ op \in ListPages <=> v.page \in ListPages
        /\ op \in ListPages => op = v.page
        /\ op = "instance" => v.page = "modify" /\ arg = v.id
  BY ViewPage, FetchFields
<1>2. op = "instance" => arg \in Instance \cup {None}
  BY <1>1, ViewPage
<1> DEFINE c == Fetch(v, query)
<1>3. c.op = op /\ c.arg = arg /\ c.ok = FALSE /\ c.live = TRUE /\ c # NoCall
  <2> DEFINE e == Call(op, arg)
  <2>1. e.op = op /\ e.arg = arg /\ e.ok = FALSE /\ e.live = TRUE /\ e # NoCall
    BY DEF Call, NoCall
  <2>2. c = e
    BY <1>1
  <2> HIDE DEF c, e
  <2>3. QED
    BY <2>1, <2>2
<1> HIDE DEF c
<1>4. ArgOK(c, used)
  BY <1>1, <1>2, <1>3 DEF ArgOK, Reads, ListPages
<1>5. DataOK(c, used)
  BY <1>3 DEF DataOK
<1>6. /\ Runs(c, ListPages) => c.op = v.page
      /\ v.page \in ListPages => Runs(c, ListPages)
  BY <1>1, <1>3 DEF Runs
<1>7. QED
  BY <1>4, <1>5, <1>6 DEF c

\* A call in a free slot, or in that of one that nobody waits for, or of one
\* that its answer ends.
LEMMA CallPut ==
  ASSUME NEW cs, CallsOK(cs), NEW used, TypedCalls(cs, used), NEW v, ListsOfPage(v, cs),
         NEW u, Masked(v, u, cs), NEW i \in Slot, NEW c, ArgOK(c, used), DataOK(c, used),
         Runs(c, ListPages) => c.op = v.page,
         ~Runs(cs[i], ListPages), ~Runs(cs[i], {"active"})
  PROVE  /\ TypedCalls([cs EXCEPT ![i] = c], used) /\ ListsOfPage(v, [cs EXCEPT ![i] = c])
         /\ Masked(v, u, [cs EXCEPT ![i] = c]) /\ [cs EXCEPT ![i] = c][i] = c
<1>1. [cs EXCEPT ![i] = c][i] = c
  BY DEF CallsOK
<1>2. QED
  BY <1>1, TypedReplaced, OfPageReplaced, MaskedReplaced

LEMMA CallEnded ==
  ASSUME NEW cs, CallsOK(cs), NEW used, TypedCalls(cs, used), NEW v, ListsOfPage(v, cs), NEW i \in Slot
  PROVE  /\ TypedCalls([cs EXCEPT ![i] = NoCall], used) /\ ListsOfPage(v, [cs EXCEPT ![i] = NoCall])
         /\ \A u : Masked(v, u, cs) /\ ~Runs(cs[i], ListPages) /\ ~Runs(cs[i], {"active"})
              => Masked(v, u, [cs EXCEPT ![i] = NoCall])
<1>1. ~Runs(NoCall, ListPages)
  BY DEF Runs
<1>2. TypedCalls([cs EXCEPT ![i] = NoCall], used)
  BY DEF TypedCalls, CallsOK
<1>3. ListsOfPage(v, [cs EXCEPT ![i] = NoCall])
  BY <1>1, OfPageReplaced
<1>4. QED
  BY <1>2, <1>3, MaskedReplaced

LEMMA SentTyped ==
  ASSUME TypedInv, NEW op, NEW arg, Send(Call(op, arg)), ArgOK(Call(op, arg), db.used),
         op \in ListPages => op = view.page
  PROVE  /\ TypedCalls(calls', db.used) /\ ListsOfPage(view, calls') /\ Masked(view, ui, calls')
         /\ \E i \in Slot : calls'[i] = Call(op, arg)
<1> DEFINE c == Call(op, arg)
<1>1. PICK i \in Slot : calls[i] = NoCall /\ calls' = [calls EXCEPT ![i] = c]
  BY DEF Send, Free
<1>2. c.op = op /\ DataOK(c, db.used) /\ ArgOK(c, db.used)
  BY CallFields DEF DataOK
<1>3. ~Runs(calls[i], ListPages) /\ ~Runs(calls[i], {"active"})
  BY <1>1 DEF Runs
<1>4. Runs(c, ListPages) => c.op = view.page
  BY <1>2 DEF Runs
<1> HIDE DEF c
<1>5. CallsOK(calls) /\ TypedCalls(calls, db.used) /\ ListsOfPage(view, calls) /\ Masked(view, ui, calls)
  BY DEF TypedInv, Inv
<1>6. TypedCalls(calls', db.used) /\ ListsOfPage(view, calls') /\ Masked(view, ui, calls') /\ calls'[i] = c
  <2>1. calls'[i] = c
    BY <1>1, <1>5 DEF CallsOK
  <2>2. TypedCalls(calls', db.used)
    BY <1>1, <1>2, <1>5, TypedReplaced
  <2>3. ListsOfPage(view, calls')
    BY <1>1, <1>4, <1>5, OfPageReplaced
  <2>4. Masked(view, ui, calls')
    BY <1>1, <1>3, <1>5, MaskedReplaced
  <2>5. QED
    BY <2>1, <2>2, <2>3, <2>4
<1>7. QED
  BY <1>6 DEF c

\* Calls for lists and instances may be sent by pages that show them.
LEMMA FetchSent ==
  ASSUME TypedInv, view.page # "add", NEW query, Send(Fetch(view, query))
  PROVE  /\ TypedCalls(calls', db.used) /\ ListsOfPage(view, calls') /\ Masked(view, ui, calls')
         /\ view.page \in ListPages => \E i \in Slot : Runs(calls'[i], ListPages)
<1>1. ViewOK(view) /\ view.page \in ListPages \cup Editors
  BY ViewPage DEF TypedInv
<1>2. PICK op, arg :
        /\ op \in Reads \ {"active", "template"}
        /\ Fetch(view, query) = Call(op, arg)
        /\ op \in ListPages => op = view.page
  BY <1>1, FetchFields
<1>3. ArgOK(Call(op, arg), db.used)
  BY <1>1, <1>2, FetchTyped
<1>4. Send(Call(op, arg))
  BY <1>2
<1>5. /\ TypedCalls(calls', db.used) /\ ListsOfPage(view, calls') /\ Masked(view, ui, calls')
      /\ \E i \in Slot : calls'[i] = Call(op, arg)
  BY <1>2, <1>3, <1>4, SentTyped
<1>6. view.page \in ListPages => Runs(Call(op, arg), ListPages)
  BY <1>1, <1>2, FetchTyped
<1>7. QED
  BY <1>5, <1>6

LEMMA OrphansTyped ==
  ASSUME NEW cs, CallsOK(cs), NEW used, TypedCalls(cs, used)
  PROVE  /\ TypedCalls(Orphaned(cs), used)
         /\ \A i \in Slot : \A ops : ~Runs(Orphaned(cs)[i], ops)
<1>1. ASSUME NEW i \in Slot, Orphaned(cs)[i] # NoCall
      PROVE  /\ ArgOK(Orphaned(cs)[i], used) /\ DataOK(Orphaned(cs)[i], used)
             /\ Orphaned(cs)[i].live = FALSE
  <2> DEFINE c == cs[i]
             e == [c EXCEPT !.live = FALSE]
  <2>1. c # NoCall /\ Orphaned(cs)[i] = e
    BY <1>1 DEF Orphaned
  <2>2. CallOK(c) /\ ArgOK(c, used) /\ DataOK(c, used)
    BY <2>1 DEF CallsOK, TypedCalls
  <2> HIDE DEF c
  <2>3. e.op = c.op /\ e.arg = c.arg /\ e.ok = c.ok /\ e.data = c.data /\ e.live = FALSE
    BY <2>1, <2>2, Zenon DEF CallOK
  <2> HIDE DEF e
  <2>4. ArgOK(e, used) /\ DataOK(e, used)
    BY <2>2, <2>3 DEF ArgOK, DataOK
  <2>5. QED
    BY <2>1, <2>3, <2>4
<1>2. QED
  BY <1>1 DEF TypedCalls, Runs

LEMMA GoTyped ==
  ASSUME TypedInv, NEW v, ViewOK(v), NEW cs, CallsOK(cs), TypedCalls(cs, db.used),
         ListsOfPage(view, cs), Masked(view, ui, cs), Go(v, cs)
  PROVE  /\ ViewOK(view') /\ PageOK(view', ui', db.used) /\ TypedCalls(calls', db.used)
         /\ ListsOfPage(view', calls') /\ Masked(view', ui', calls')
<1>1. view' = v /\ PageOK(view, ui, db.used)
  BY DEF Go, TypedInv
<1>2. CASE v.page = view.page
  <2>1. ui' = [ui EXCEPT !.question = NoQuestion] /\ calls' = cs
    BY <1>2 DEF Go
  <2>2. PageOK(view, ui', db.used) /\ SameMasks(ui, ui')
    <3>1. NoQuestion.op = "none"
      BY DEF NoQuestion
    <3>2. QED
      BY <1>1, <2>1, <3>1, QuestionSet
  <2>3. PageOK(v, ui', db.used)
    BY <1>2, <2>2 DEF PageOK, QuestionOK
  <2>4. ListsOfPage(v, cs)
    BY <1>2 DEF ListsOfPage
  <2>5. Masked(v, ui', cs)
    BY <1>2, <2>2 DEF Masked, SameMasks
  <2>6. QED
    BY <1>1, <2>1, <2>3, <2>4, <2>5
<1>3. CASE v.page # view.page
  <2>1. ui' = Fresh(v)
    BY <1>3 DEF Go
  <2>2. PageOK(v, ui', db.used) /\ ui'.details.shown = FALSE
    BY <2>1, FreshTyped
  <2>3. /\ CallsOK(Orphaned(cs)) /\ TypedCalls(Orphaned(cs), db.used)
        /\ \A i \in Slot : \A ops : ~Runs(Orphaned(cs)[i], ops)
    BY OrphansOK, OrphansTyped
  <2>4. CASE v.page = "add"
    <3>1. calls' = Orphaned(cs)
      BY <1>3, <2>4 DEF Go
    <3>2. ListsOfPage(v, calls')
      BY <2>3, <3>1 DEF ListsOfPage
    <3>3. Masked(v, ui', calls')
      BY <2>2, <2>4 DEF Masked, ListPages
    <3>4. QED
      BY <1>1, <2>2, <2>3, <3>1, <3>2, <3>3
  <2>5. CASE v.page # "add"
    <3> DEFINE c == Fetch(v, ui'.query)
    <3>1. PICK i \in Slot : calls' = [Orphaned(cs) EXCEPT ![i] = c]
      BY <1>3, <2>5 DEF Go, Free
    <3>2. /\ ArgOK(c, db.used) /\ DataOK(c, db.used)
          /\ Runs(c, ListPages) => c.op = v.page
          /\ v.page \in ListPages => Runs(c, ListPages)
      BY <2>5, FetchTyped
    <3> HIDE DEF c
    <3>3. TypedCalls(calls', db.used)
      BY <2>3, <3>1, <3>2, TypedReplaced
    <3>4. ListsOfPage(v, calls')
      <4>1. ListsOfPage(v, Orphaned(cs))
        BY <2>3 DEF ListsOfPage
      <4>2. QED
        BY <2>3, <3>1, <3>2, <4>1, OfPageReplaced
    <3>5. Masked(v, ui', calls')
      <4>1. calls'[i] = c
        BY <2>3, <3>1 DEF CallsOK
      <4>2. QED
        BY <2>2, <3>2, <4>1 DEF Masked
    <3>6. QED
      BY <1>1, <2>2, <3>3, <3>4, <3>5
  <2>6. QED
    BY <2>4, <2>5
<1>4. QED
  BY <1>2, <1>3

-----------------------------------------------------------------------------
(* The user.                                                               *)

\* A step that only changes the page.
LEMMA PageStep ==
  ASSUME TypedInv, Inv', db' = db, view' = view, calls' = calls,
         PageOK(view, ui', db.used), SameMasks(ui, ui')
  PROVE  TypedInv'
<1>1. Masked(view, ui', calls)
  BY MasksKept DEF TypedInv
<1>2. QED
  BY <1>1 DEF TypedInv

\* A step that sends a call and leaves the masks as they are.
LEMMA SendStep ==
  ASSUME TypedInv, Inv', db' = db, view' = view, PageOK(view, ui', db.used), SameMasks(ui, ui'),
         TypedCalls(calls', db.used), ListsOfPage(view, calls'), Masked(view, ui, calls')
  PROVE  TypedInv'
<1>1. Masked(view, ui', calls')
  BY MasksKept
<1>2. QED
  BY <1>1 DEF TypedInv

LEMMA DialogTyped ==
  ASSUME TypedInv, Inv', HandleCreate \/ HandleUpdate \/ CancelDialog
  PROVE  TypedInv'
<1>0. PageOK(view, ui, db.used) /\ db' = db /\ view' = view /\ calls' = calls
  BY DEF TypedInv, HandleCreate, HandleUpdate, CancelDialog, UserStep
<1>1. CASE HandleCreate
  <2> DEFINE d == [shown |-> TRUE, status |-> "create", model |-> NoModel]
  <2>1. ui' = [ui EXCEPT !.dialog = d]
    BY <1>1 DEF HandleCreate
  <2>2. DOMAIN d = {"shown", "status", "model"} /\ d.shown \in BOOLEAN /\ DialogOK(d, db.used)
    BY DEF DialogOK, NoModel
  <2> HIDE DEF d
  <2>3. QED
    BY <1>0, <2>1, <2>2, DialogSet, PageStep
<1>2. CASE HandleUpdate
  <2>1. PICK row \in Rows :
          ui' = [ui EXCEPT !.dialog = [shown |-> TRUE, status |-> "update", model |-> ModelOf(row)]]
    BY <1>2 DEF HandleUpdate
  <2> DEFINE d == [shown |-> TRUE, status |-> "update", model |-> ModelOf(row)]
  <2>2. row.id \in db.used /\ (view.page = "servers" => row.cluster \in Cluster \cup {None})
    BY <1>0, <2>1 DEF Rows, PageOK, RowsOK
  <2>3. view.page \in {"clusters", "servers"}
    BY <1>2 DEF HandleUpdate
  <2>4. ModelOf(row).id = row.id /\ ModelOf(row).cluster \in Cluster \cup {None}
    BY <2>2, <2>3 DEF ModelOf, NoModel
  <2>5. DOMAIN d = {"shown", "status", "model"} /\ d.shown \in BOOLEAN /\ DialogOK(d, db.used)
    BY <2>2, <2>4 DEF DialogOK
  <2>6. ui' = [ui EXCEPT !.dialog = d]
    BY <2>1
  <2> HIDE DEF d
  <2>7. QED
    BY <1>0, <2>5, <2>6, DialogSet, PageStep
<1>3. CASE CancelDialog
  <2>1. ui' = [ui EXCEPT !.dialog.shown = FALSE]
    BY <1>3 DEF CancelDialog
  <2>2. QED
    BY <1>0, <2>1, DialogHidden, PageStep
<1>4. QED
  BY <1>1, <1>2, <1>3

\* A dialog that was opened for a creation sends one, and no other does.
LEMMA OperationTyped ==
  ASSUME TypedInv, Inv', DataOperation
  PROVE  TypedInv'
<1>0. PageOK(view, ui, db.used) /\ db' = db /\ view' = view /\ view.page \in {"clusters", "servers"}
  BY DEF TypedInv, DataOperation, UserStep
<1> DEFINE op == Operation
<1>1. DialogOK(ui.dialog, db.used)
  BY <1>0 DEF PageOK
<1>2. PICK model \in Filled : ui' = [ui EXCEPT !.dialog.model = model] /\ Send(Call(op, model))
  BY DEF DataOperation
<1>3. /\ model.id = ui.dialog.model.id /\ model.cluster \in Cluster \cup {None}
      /\ view.page = "servers" => model.address \in Address
  <2>1. CASE view.page = "clusters"
    BY <1>1, <2>1 DEF Filled, DialogOK
  <2>2. CASE view.page = "servers"
    <3> DEFINE clusters == IF Creates THEN Cluster \cup {None} ELSE {ui.dialog.model.cluster}
    <3>1. clusters \subseteq Cluster \cup {None}
      BY <1>1 DEF DialogOK
    <3>2. Filled = {[id |-> ui.dialog.model.id, address |-> a, cluster |-> c] : a \in Address, c \in clusters}
      BY <2>2, SMT DEF Filled
    <3> HIDE DEF clusters
    <3>3. PICK a \in Address, c \in clusters : model = [id |-> ui.dialog.model.id, address |-> a, cluster |-> c]
      BY <3>2
    <3>4. QED
      BY <3>1, <3>3
  <2>3. QED
    BY <1>0, <2>1, <2>2
<1>4. /\ op \in DialogOps /\ (op \in {"addServer", "updateServer"} => view.page = "servers")
      /\ op \in {"addServer", "addCluster"} => ui.dialog.model.id = None
      /\ op \in {"updateServer", "updateCluster"} => ui.dialog.model.id \in db.used
  BY <1>0, <1>1 DEF DialogOK, DialogOps, Operation, Creates
<1>5. ArgOK(Call(op, model), db.used) /\ op \notin ListPages
  <2> DEFINE c == Call(op, model)
  <2>1. c.op = op /\ c.arg = model
    BY DEF Call
  <2> HIDE DEF c
  <2>2. ArgOK(c, db.used)
    BY <1>3, <1>4, <2>1 DEF ArgOK, DialogOps
  <2>3. QED
    BY <1>4, <2>2 DEF c, DialogOps, ListPages
<1>6. TypedCalls(calls', db.used) /\ ListsOfPage(view, calls') /\ Masked(view, ui, calls')
  BY <1>2, <1>5, SentTyped
<1>7. PageOK(view, ui', db.used) /\ SameMasks(ui, ui')
  BY <1>0, <1>2, <1>3, ModelSet
<1>8. QED
  BY <1>0, <1>6, <1>7, SendStep

LEMMA RefreshTyped ==
  ASSUME TypedInv, Inv', Refresh
  PROVE  TypedInv'
<1>0. /\ PageOK(view, ui, db.used) /\ db' = db /\ view' = view /\ view.page \in {"servers", "instances"}
      /\ Masked(view, ui, calls)
  BY DEF TypedInv, Refresh, UserStep
<1>1. PICK query \in Queries : /\ Send(Fetch(view, query))
                               /\ ui' = [ui EXCEPT !.listLoading = TRUE, !.query = query]
  <2>1. None \in Queries
    BY DEF Queries
  <2>2. QED
    BY <2>1 DEF Refresh
<1>2. /\ TypedCalls(calls', db.used) /\ ListsOfPage(view, calls') /\ Masked(view, ui, calls')
      /\ \E i \in Slot : Runs(calls'[i], ListPages)
  BY <1>0, <1>1, FetchSent DEF ListPages
<1>3. PageOK(view, ui', db.used) /\ ui'.details = ui.details
  <2>1. RowsOK(view.page, ui.list, db.used) /\ UiShape(ui)
    BY <1>0 DEF PageOK
  <2>2. /\ DOMAIN ui' = DOMAIN ui /\ ui'.dialog = ui.dialog /\ ui'.details = ui.details
        /\ ui'.form = ui.form /\ ui'.question = ui.question
        /\ ui'.query = query /\ ui'.list = ui.list /\ ui'.listLoading = TRUE
    BY <1>1, <2>1 DEF UiShape
  <2>3. ui'.listLoading \in BOOLEAN
    BY <2>2
  <2>4. QED
    BY <1>0, <2>1, <2>2, <2>3, ListSet
<1>4. Masked(view, ui', calls')
  BY <1>2, <1>3 DEF Masked
<1>5. QED
  BY <1>0, <1>2, <1>3, <1>4 DEF TypedInv

LEMMA InstancesTyped ==
  ASSUME TypedInv, Inv', HandleInstances \/ CloseInstances
  PROVE  TypedInv'
<1>0. /\ PageOK(view, ui, db.used) /\ db' = db /\ view' = view /\ Masked(view, ui, calls)
      /\ TypedCalls(calls, db.used) /\ ListsOfPage(view, calls)
      /\ DOMAIN ui.details = {"shown", "server", "list", "loading"} /\ ui.details.loading \in BOOLEAN
  BY DEF TypedInv, HandleInstances, CloseInstances, UserStep, PageOK, UiShape, FlagsOK
<1>1. CASE HandleInstances
  <2>1. PICK server : ShowInstances(server)
    BY <1>1 DEF HandleInstances
  <2>2. ArgOK(Call("active", server), db.used)
    BY DEF ArgOK, Call
  <2>3. /\ TypedCalls(calls', db.used) /\ ListsOfPage(view, calls') /\ Masked(view, ui, calls')
        /\ \E i \in Slot : calls'[i] = Call("active", server)
    <3>1. Send(Call("active", server)) /\ "active" \notin ListPages
      BY <2>1 DEF ShowInstances, ListPages
    <3>2. QED
      BY <2>2, <3>1, SentTyped
  <2>4. \E i \in Slot : Runs(calls'[i], {"active"})
    <3>1. Runs(Call("active", server), {"active"})
      BY DEF Runs, Call, NoCall
    <3>2. QED
      BY <2>3, <3>1
  <2> DEFINE d == [ui.details EXCEPT !.server = server, !.shown = TRUE, !.loading = TRUE]
  <2>5. ui' = [ui EXCEPT !.details = d]
    BY <2>1 DEF ShowInstances
  <2>6. DOMAIN d = {"shown", "server", "list", "loading"} /\ d.shown = TRUE /\ d.loading = TRUE
    BY <1>0
  <2> HIDE DEF d
  <2>7. PageOK(view, ui', db.used) /\ ui'.listLoading = ui.listLoading
    <3>1. d.shown \in BOOLEAN /\ d.loading \in BOOLEAN
      BY <2>6
    <3>2. QED
      BY <1>0, <2>5, <2>6, <3>1, DetailsSet
  <2>8. Masked(view, ui', calls')
    BY <2>3, <2>4, <2>7 DEF Masked
  <2>9. QED
    BY <1>0, <2>3, <2>7, <2>8 DEF TypedInv
<1>2. CASE CloseInstances
  <2> DEFINE d == [ui.details EXCEPT !.shown = FALSE]
  <2>1. ui' = [ui EXCEPT !.details = d] /\ calls' = calls
    BY <1>2 DEF CloseInstances
  <2>2. DOMAIN d = {"shown", "server", "list", "loading"} /\ d.shown = FALSE /\ d.loading \in BOOLEAN
    BY <1>0
  <2> HIDE DEF d
  <2>3. PageOK(view, ui', db.used) /\ ui'.listLoading = ui.listLoading /\ ui'.details = d
    <3>1. d.shown \in BOOLEAN
      BY <2>2
    <3>2. QED
      BY <1>0, <2>1, <2>2, <3>1, DetailsSet
  <2>4. Masked(view, ui', calls')
    BY <1>0, <2>1, <2>2, <2>3 DEF Masked
  <2>5. QED
    BY <1>0, <2>1, <2>3, <2>4 DEF TypedInv
<1>3. QED
  BY <1>1, <1>2

LEMMA AskTyped ==
  ASSUME TypedInv, Inv', HandleRow \/ HandleInstanceRow \/ OnSubmit
  PROVE  TypedInv'
<1>0. PageOK(view, ui, db.used) /\ db' = db /\ view' = view
  BY DEF TypedInv, HandleRow, HandleInstanceRow, OnSubmit, UserStep
<1>1. PICK op, id :
        /\ op \in Writes \ DialogOps /\ Ask(op, id)
        /\ op = "addInstance" => view.page = "add" /\ ui.form.owner # None
  <2>1. CASE HandleRow
    <3>1. PICK op, id : /\ Ask(op, id)
                       /\ op \in {"deleteCluster", "deleteServer", "stopServer", "startServer",
                                  "deleteInstance", "instanceStart", "instanceStop"}
      BY <2>1 DEF HandleRow, ListPages
    <3>2. op \in Writes \ DialogOps /\ op # "addInstance"
      BY <3>1 DEF Writes, DialogOps
    <3>3. QED
      BY <3>1, <3>2
  <2>2. CASE HandleInstanceRow
    BY <2>2 DEF HandleInstanceRow, Writes, DialogOps
  <2>3. CASE OnSubmit
    BY <2>3 DEF OnSubmit, Writes, DialogOps
  <2>4. QED
    BY <2>1, <2>2, <2>3
<1>2. op = "addInstance" => ui.form.owner \in Owner
  BY <1>0, <1>1 DEF PageOK, FormTyped
<1> DEFINE q == [op |-> op, id |-> id]
<1>3. q.op = op /\ ui' = [ui EXCEPT !.question = q] /\ calls' = calls
  BY <1>1 DEF Ask
<1> HIDE DEF q
<1>4. PageOK(view, ui', db.used) /\ SameMasks(ui, ui')
  BY <1>0, <1>1, <1>2, <1>3, QuestionSet
<1>5. QED
  BY <1>0, <1>3, <1>4, PageStep

LEMMA QuestionGone ==
  ASSUME NEW v, NEW u, NEW used, PageOK(v, u, used)
  PROVE  /\ PageOK(v, [u EXCEPT !.question = NoQuestion], used)
         /\ SameMasks(u, [u EXCEPT !.question = NoQuestion])
<1>1. NoQuestion.op = "none"
  BY DEF NoQuestion
<1>2. QED
  BY <1>1, QuestionSet

LEMMA ConfirmTyped ==
  ASSUME TypedInv, Inv', Confirm \/ CancelQuestion
  PROVE  TypedInv'
<1>0. /\ PageOK(view, ui, db.used) /\ db' = db /\ view' = view
      /\ ui' = [ui EXCEPT !.question = NoQuestion]
  BY DEF TypedInv, Confirm, CancelQuestion
<1>1. PageOK(view, ui', db.used) /\ SameMasks(ui, ui')
  BY <1>0, QuestionGone
<1>2. CASE Confirm
  <2> DEFINE op == ui.question.op
  <2>1. op \in Writes \ DialogOps
    <3>1. ui.question # NoQuestion
      BY <1>2 DEF Confirm
    <3>2. op \in Writes /\ op # "none"
      BY <3>1 DEF TypedInv, Inv, UiOK, Writes
    <3>3. op \in {"none"} \cup (Writes \ DialogOps)
      BY <1>0 DEF PageOK, QuestionOK
    <3>4. QED
      BY <3>2, <3>3
  <2>2. /\ op \in {"saveConfig", "saveInstance", "addInstance"} => Confirmed = ui.form
        /\ FormTyped(ui.form)
        /\ op = "addInstance" => ui.form.owner \in Owner
    BY <1>0 DEF Confirmed, PageOK, QuestionOK
  <2>3. Send(Call(op, Confirmed))
    BY <1>2 DEF Confirm
  <2> HIDE DEF op
  <2>4. ArgOK(Call(op, Confirmed), db.used) /\ op \notin ListPages
    <3> DEFINE c == Call(op, Confirmed)
    <3>1. c.op = op /\ c.arg = Confirmed
      BY DEF Call
    <3> HIDE DEF c
    <3>2. ArgOK(c, db.used)
      BY <2>1, <2>2, <3>1 DEF ArgOK, DialogOps, Writes
    <3>3. QED
      BY <2>1, <3>2 DEF c, Writes, ListPages
  <2>5. TypedCalls(calls', db.used) /\ ListsOfPage(view, calls') /\ Masked(view, ui, calls')
    BY <2>3, <2>4, SentTyped
  <2>6. QED
    BY <1>0, <1>1, <2>5, SendStep
<1>3. CASE CancelQuestion
  BY <1>0, <1>1, <1>3, PageStep DEF CancelQuestion
<1>4. QED
  BY <1>2, <1>3

LEMMA EditTyped ==
  ASSUME TypedInv, Inv', Edit
  PROVE  TypedInv'
<1>0. PageOK(view, ui, db.used) /\ db' = db /\ view' = view /\ calls' = calls
  BY DEF TypedInv, Edit, UserStep
<1>1. ui.question.op # "addInstance"
  BY DEF Edit, Uncovered, NoQuestion
<1>2. PICK f : /\ ui' = [ui EXCEPT !.form = f]
               /\ DOMAIN f = {"id", "server", "cluster", "owner", "text"} /\ FormTyped(f)
  <2>1. /\ DOMAIN ui = {"query", "list", "listLoading", "dialog", "details", "form", "question"}
        /\ DOMAIN ui.form = {"id", "server", "cluster", "owner", "text"} /\ FormTyped(ui.form)
    BY <1>0 DEF PageOK, UiShape
  <2>2. \/ \E text \in BOOLEAN : ui' = [ui EXCEPT !.form.text = text]
        \/ \E o \in Owner : ui' = [ui EXCEPT !.form.owner = o]
    BY DEF Edit, Owner
  <2>3. ASSUME NEW text \in BOOLEAN, ui' = [ui EXCEPT !.form.text = text]
        PROVE  \E f : /\ ui' = [ui EXCEPT !.form = f]
                      /\ DOMAIN f = {"id", "server", "cluster", "owner", "text"} /\ FormTyped(f)
    <3> DEFINE f == [ui.form EXCEPT !.text = text]
    <3>1. /\ DOMAIN f = {"id", "server", "cluster", "owner", "text"}
          /\ f.id = ui.form.id /\ f.server = ui.form.server /\ f.cluster = ui.form.cluster
          /\ f.owner = ui.form.owner /\ f.text = text
      BY <2>1
    <3>2. ui' = [ui EXCEPT !.form = f]
      BY <2>3
    <3> HIDE DEF f
    <3>3. FormTyped(f)
      BY <2>1, <3>1 DEF FormTyped
    <3>4. QED
      BY <3>1, <3>2, <3>3
  <2>4. ASSUME NEW o \in Owner, ui' = [ui EXCEPT !.form.owner = o]
        PROVE  \E f : /\ ui' = [ui EXCEPT !.form = f]
                      /\ DOMAIN f = {"id", "server", "cluster", "owner", "text"} /\ FormTyped(f)
    <3> DEFINE f == [ui.form EXCEPT !.owner = o]
    <3>1. /\ DOMAIN f = {"id", "server", "cluster", "owner", "text"}
          /\ f.id = ui.form.id /\ f.server = ui.form.server /\ f.cluster = ui.form.cluster
          /\ f.owner = o /\ f.text = ui.form.text
      BY <2>1
    <3>2. ui' = [ui EXCEPT !.form = f]
      BY <2>4
    <3> HIDE DEF f
    <3>3. FormTyped(f)
      BY <2>1, <3>1 DEF FormTyped
    <3>4. QED
      BY <3>1, <3>2, <3>3
  <2>5. QED
    BY <2>2, <2>3, <2>4
<1>3. PageOK(view, ui', db.used) /\ SameMasks(ui, ui')
  BY <1>0, <1>1, <1>2, FormSet
<1>4. QED
  BY <1>0, <1>3, PageStep

LEMMA ReloadTyped ==
  ASSUME TypedInv, Inv', Reload
  PROVE  TypedInv'
<1>0. PageOK(view, ui, db.used) /\ db' = db /\ view' = view /\ ui' = ui
  BY DEF TypedInv, Reload, UserStep
<1>1. TypedCalls(calls', db.used) /\ ListsOfPage(view, calls') /\ Masked(view, ui, calls')
  <2>1. CASE view.page \in {"config", "modify"} /\ Send(Fetch(view, ui.query))
    BY <2>1, FetchSent
  <2>2. CASE Send(Call("template", None))
    <3>1. ArgOK(Call("template", None), db.used) /\ "template" \notin ListPages
      BY DEF ArgOK, Call, ListPages
    <3>2. QED
      BY <2>2, <3>1, SentTyped
  <2>3. QED
    BY <2>1, <2>2 DEF Reload
<1>2. SameMasks(ui, ui')
  BY <1>0 DEF SameMasks
<1>3. QED
  BY <1>0, <1>1, <1>2, SendStep

LEMMA UserTyped ==
  ASSUME TypedInv, Inv', User
  PROVE  TypedInv'
<1>1. ASSUME NEW v \in Views, Leave(v)
      PROVE  TypedInv'
  <2>1. ViewOK(v) /\ Go(v, calls) /\ db' = db
    BY <1>1 DEF Leave, ViewOK
  <2>2. /\ ViewOK(view') /\ PageOK(view', ui', db.used) /\ TypedCalls(calls', db.used)
        /\ ListsOfPage(view', calls') /\ Masked(view', ui', calls')
    BY <2>1, GoTyped DEF TypedInv, Inv
  <2>3. QED
    BY <2>1, <2>2 DEF TypedInv
<1>2. QED
  BY <1>1, RefreshTyped, DialogTyped, OperationTyped, InstancesTyped, AskTyped, ConfirmTyped,
     EditTyped, ReloadTyped DEF User

-----------------------------------------------------------------------------
(* The server, and the answers.                                            *)

\* Serving or losing a call changes what it brings back, and nothing else.
LEMMA AnswerPut ==
  ASSUME TypedInv, NEW i \in Slot, calls[i] # NoCall, NEW ok, NEW data, NEW used,
         db.used \subseteq used,
         ok = TRUE => /\ calls[i].op \in ListPages => RowsOK(calls[i].op, data, used)
                      /\ calls[i].op = "config" => data \in Config \cup {None}
                      /\ calls[i].op = "instance" => data \in Owner
  PROVE  LET served == [calls EXCEPT ![i].served = TRUE, ![i].ok = ok, ![i].data = data]
         IN  TypedCalls(served, used) /\ ListsOfPage(view, served) /\ Masked(view, ui, served)
<1> DEFINE c == calls[i]
           d == [c EXCEPT !.served = TRUE, !.ok = ok, !.data = data]
<1>0. CallsOK(calls) /\ TypedCalls(calls, used) /\ ListsOfPage(view, calls) /\ Masked(view, ui, calls)
  BY TypedLater DEF TypedInv, Inv
<1>1. [calls EXCEPT ![i].served = TRUE, ![i].ok = ok, ![i].data = data] = [calls EXCEPT ![i] = d]
  BY <1>0 DEF CallsOK
<1>2. CallOK(c) /\ ArgOK(c, used) /\ (Runs(c, ListPages) => c.op = view.page)
  BY <1>0 DEF CallsOK, TypedCalls, ListsOfPage
<1>3. d.op = c.op /\ d.arg = c.arg /\ d.live = c.live /\ d.ok = ok /\ d.data = data /\ d # NoCall
  <2>1. c # NoCall /\ CallOK(c)
    BY <1>2
  <2>2. "live" \in DOMAIN d /\ "live" \notin DOMAIN NoCall
    <3> HIDE DEF c
    <3>1. QED
      BY <2>1 DEF CallOK, NoCall
  <2> HIDE DEF c
  <2>3. d.op = c.op /\ d.arg = c.arg /\ d.live = c.live /\ d.ok = ok /\ d.data = data
    BY <2>1, Zenon DEF CallOK
  <2>4. QED
    BY <2>2, <2>3
<1>4. DataOK(d, used)
  BY <1>3 DEF DataOK
<1>5. ArgOK(d, used)
  BY <1>2, <1>3 DEF ArgOK
<1>6. \A ops : Runs(d, ops) <=> Runs(c, ops)
  BY <1>3 DEF Runs
<1> HIDE DEF d
<1>7. TypedCalls([calls EXCEPT ![i] = d], used)
  BY <1>0, <1>4, <1>5, TypedReplaced
<1>8. ListsOfPage(view, [calls EXCEPT ![i] = d])
  BY <1>0, <1>2, <1>3, <1>6, OfPageReplaced
<1>9. Masked(view, ui, [calls EXCEPT ![i] = d])
  BY <1>0, <1>6, MaskedReplaced
<1>10. QED
  BY <1>1, <1>7, <1>8, <1>9

LEMMA ServerTyped ==
  ASSUME TypedInv, Inv', Other \/ \E i \in Slot : Serve(i) \/ Fail(i)
  PROVE  TypedInv'
<1>0. /\ DbOK(db) /\ ViewOK(view) /\ PageOK(view, ui, db.used) /\ CallsOK(calls)
      /\ TypedCalls(calls, db.used) /\ ListsOfPage(view, calls) /\ Masked(view, ui, calls)
  BY DEF TypedInv, Inv
<1>1. CASE Other
  <2>1. calls' = calls /\ ui' = ui /\ view' = view
    BY <1>1 DEF Other
  <2>2. PICK outcome :
          /\ db' = outcome.db
          /\ \/ \E s : outcome \in DeleteServer(db, s)
             \/ \E i : outcome \in DeleteInstance(db, i)
             \/ \E i, s : s \in DOMAIN db.servers /\ outcome \in UpdateInstance(db, i, s)
             \/ \E s, on : outcome \in SwitchServer(db, s, on)
    BY <1>1, SMT DEF Other
  <2>3. DOMAIN db.servers \subseteq Owner
    BY <1>0, DbTables DEF ServerTable, Owner
  <2>4. DbOK(outcome.db) /\ db.used \subseteq outcome.db.used
    <3>1. ASSUME NEW s, outcome \in DeleteServer(db, s)
          PROVE  DbOK(outcome.db) /\ db.used \subseteq outcome.db.used
      BY <1>0, <3>1, ServersGrow DEF Grows
    <3>2. ASSUME NEW i, outcome \in DeleteInstance(db, i)
          PROVE  DbOK(outcome.db) /\ db.used \subseteq outcome.db.used
      BY <1>0, <3>2, InstancesGrow DEF Grows
    <3>3. ASSUME NEW i, NEW s \in DOMAIN db.servers, outcome \in UpdateInstance(db, i, s)
          PROVE  DbOK(outcome.db) /\ db.used \subseteq outcome.db.used
      BY <1>0, <2>3, <3>3, InstancesGrow DEF Grows
    <3>4. ASSUME NEW s, NEW on, outcome \in SwitchServer(db, s, on)
          PROVE  DbOK(outcome.db) /\ db.used \subseteq outcome.db.used
      BY <1>0, <3>4, ServersGrow DEF Grows
    <3>5. QED
      BY <2>2, <3>1, <3>2, <3>3, <3>4
  <2>5. DbOK(db') /\ db.used \subseteq db'.used
    BY <2>2, <2>4
  <2>6. TypedCalls(calls, db'.used) /\ PageOK(view, ui, db'.used)
    BY <1>0, <2>5, TypedLater, PageLater
  <2>7. QED
    BY <1>0, <2>1, <2>5, <2>6 DEF TypedInv
<1>2. ASSUME NEW i \in Slot, Serve(i)
      PROVE  TypedInv'
  <2>1. ui' = ui /\ view' = view /\ calls[i] # NoCall
    BY <1>2 DEF Serve, Waiting
  <2>2. PICK outcome \in Service(calls[i]) :
          /\ db' = outcome.db
          /\ calls' = [calls EXCEPT ![i].served = TRUE, ![i].ok = outcome.ok, ![i].data = outcome.data]
    BY <1>2 DEF Serve
  <2>3. calls[i].op \in Reads \cup Writes /\ ArgOK(calls[i], db.used)
    BY <1>0, <2>1 DEF CallsOK, CallOK, TypedCalls
  <2>4. DbOK(db') /\ db.used \subseteq db'.used
    BY <1>0, <2>2, <2>3, ServiceGrows DEF Grows
  <2>5. outcome.ok = TRUE =>
          /\ calls[i].op \in ListPages => RowsOK(calls[i].op, outcome.data, db'.used)
          /\ calls[i].op = "config" => outcome.data \in Config \cup {None}
          /\ calls[i].op = "instance" => outcome.data \in Owner
    BY <1>0, <2>2, <2>4, ServiceAnswers DEF RowsOK
  <2>6. TypedCalls(calls', db'.used) /\ ListsOfPage(view, calls') /\ Masked(view, ui, calls')
    BY <2>1, <2>2, <2>4, <2>5, AnswerPut
  <2>7. PageOK(view, ui, db'.used)
    BY <1>0, <2>4, PageLater
  <2>8. QED
    BY <1>0, <2>1, <2>4, <2>6, <2>7 DEF TypedInv
<1>3. ASSUME NEW i \in Slot, Fail(i)
      PROVE  TypedInv'
  <2>1. ui' = ui /\ view' = view /\ db' = db /\ calls[i] # NoCall
    BY <1>3 DEF Fail
  <2>2. calls' = [calls EXCEPT ![i].served = TRUE, ![i].ok = FALSE, ![i].data = None]
    BY <1>3 DEF Fail
  <2>3. TypedCalls(calls', db.used) /\ ListsOfPage(view, calls') /\ Masked(view, ui, calls')
    BY <2>1, <2>2, AnswerPut
  <2>4. QED
    BY <1>0, <2>1, <2>3 DEF TypedInv
<1>4. QED
  BY <1>1, <1>2, <1>3

\* The state of the page that an answer to call i finds, without that call.
LEMMA Delivered ==
  ASSUME TypedInv, NEW i \in Slot
  PROVE  /\ DbOK(db) /\ ViewOK(view) /\ PageOK(view, ui, db.used) /\ CallsOK(calls)
         /\ TypedCalls(Done(i), db.used) /\ ListsOfPage(view, Done(i)) /\ Masked(view, ui, calls)
         /\ ~Runs(calls[i], ListPages) /\ ~Runs(calls[i], {"active"}) => Masked(view, ui, Done(i))
         /\ calls[i] # NoCall => ArgOK(calls[i], db.used) /\ DataOK(calls[i], db.used)
<1>1. /\ CallsOK(calls) /\ TypedCalls(calls, db.used) /\ ListsOfPage(view, calls)
      /\ Masked(view, ui, calls)
  BY DEF TypedInv, Inv
<1>2. /\ TypedCalls(Done(i), db.used) /\ ListsOfPage(view, Done(i))
      /\ ~Runs(calls[i], ListPages) /\ ~Runs(calls[i], {"active"}) => Masked(view, ui, Done(i))
  BY <1>1, CallEnded DEF Done
<1>3. QED
  BY <1>1, <1>2 DEF TypedInv, TypedCalls

\* The rows of the page, and the rows of its dialog.
LEMMA ListDelivered ==
  ASSUME TypedInv, Inv', NEW i \in Slot, DeliverList(i) \/ DeliverActive(i)
  PROVE  TypedInv'
<1>0. /\ PageOK(view, ui, db.used) /\ CallsOK(calls) /\ TypedCalls(Done(i), db.used)
      /\ ListsOfPage(view, Done(i)) /\ Masked(view, ui, calls) /\ DataOK(calls[i], db.used)
      /\ calls[i] # NoCall /\ calls' = Done(i) /\ db' = db /\ view' = view
  BY Delivered DEF DeliverList, DeliverActive, Answered, Change
<1>1. \A j \in Slot : j # i => calls'[j] = calls[j]
  BY <1>0 DEF Done, CallsOK
<1>2. ASSUME ~calls[i].live
      PROVE  TypedInv'
  <2>1. ui' = ui
    BY <1>2 DEF DeliverList, DeliverActive, Change
  <2>2. Masked(view, ui, Done(i))
    BY <1>2, Delivered DEF Runs
  <2>3. QED
    BY <1>0, <2>1, <2>2 DEF TypedInv
<1>3. ASSUME calls[i].live, DeliverList(i)
      PROVE  TypedInv'
  <2>1. ui' = [ui EXCEPT !.list = IF calls[i].ok THEN calls[i].data ELSE @, !.listLoading = FALSE]
    BY <1>3 DEF DeliverList, Change
  <2>2. calls[i].op \in ListPages /\ calls[i].op = view.page
    BY <1>0, <1>3 DEF DeliverList, Answered, TypedInv, ListsOfPage, Runs
  <2>3. calls[i].ok => RowsOK(view.page, calls[i].data, db.used)
    BY <1>0, <2>2 DEF DataOK
  <2>4. /\ DOMAIN ui' = DOMAIN ui /\ ui'.dialog = ui.dialog /\ ui'.details = ui.details
        /\ ui'.form = ui.form /\ ui'.question = ui.question /\ ui'.query = ui.query
        /\ ui'.list = (IF calls[i].ok THEN calls[i].data ELSE ui.list) /\ ui'.listLoading = FALSE
    <3>1. DOMAIN ui = {"query", "list", "listLoading", "dialog", "details", "form", "question"}
      BY <1>0 DEF PageOK, UiShape
    <3>2. QED
      BY <2>1, <3>1
  <2>5. /\ RowsOK(view.page, ui'.list, db.used) /\ ui'.query \in Queries
        /\ ui'.listLoading \in BOOLEAN
    BY <1>0, <2>3, <2>4 DEF PageOK, FlagsOK
  <2>6. PageOK(view, ui', db.used)
    BY <1>0, <2>4, <2>5, ListSet
  <2>7. Masked(view, ui', calls')
    <3>1. ~Runs(calls[i], {"active"})
      BY <2>2 DEF Runs, ListPages
    <3>2. QED
      BY <1>0, <1>1, <2>4, <3>1 DEF Masked
  <2>8. QED
    BY <1>0, <2>6, <2>7 DEF TypedInv
<1>4. ASSUME calls[i].live, DeliverActive(i)
      PROVE  TypedInv'
  <2> DEFINE d == [ui.details EXCEPT !.list = IF calls[i].ok THEN calls[i].data ELSE @, !.loading = FALSE]
  <2>1. ui' = [ui EXCEPT !.details = d]
    <3>1. ui' = [ui EXCEPT !.details.list = IF calls[i].ok THEN calls[i].data ELSE @,
                           !.details.loading = FALSE]
      BY <1>4 DEF DeliverActive, Change
    <3>2. DOMAIN ui = {"query", "list", "listLoading", "dialog", "details", "form", "question"}
      BY <1>0 DEF PageOK, UiShape
    <3>3. QED
      BY <3>1, <3>2
  <2>2. /\ DOMAIN d = {"shown", "server", "list", "loading"} /\ d.shown = ui.details.shown
        /\ d.loading = FALSE
    BY <1>0 DEF PageOK, UiShape
  <2> HIDE DEF d
  <2>3. d.shown \in BOOLEAN /\ d.loading \in BOOLEAN
    BY <1>0, <2>2 DEF PageOK, FlagsOK
  <2>4. PageOK(view, ui', db.used) /\ ui'.listLoading = ui.listLoading /\ ui'.details = d
    BY <1>0, <2>1, <2>2, <2>3, DetailsSet
  <2>5. Masked(view, ui', calls')
    <3>1. ~Runs(calls[i], ListPages)
      BY <1>4 DEF DeliverActive, Answered, Runs, ListPages
    <3>2. QED
      BY <1>0, <1>1, <2>2, <2>4, <3>1 DEF Masked
  <2>6. QED
    BY <1>0, <2>4, <2>5 DEF TypedInv
<1>5. QED
  BY <1>2, <1>3, <1>4

LEMMA FormDelivered ==
  ASSUME TypedInv, Inv', NEW i \in Slot,
         DeliverNothing(i) \/ DeliverConfig(i) \/ DeliverInstance(i) \/ DeliverTemplate(i)
  PROVE  TypedInv'
<1>0. /\ PageOK(view, ui, db.used) /\ TypedCalls(Done(i), db.used) /\ ListsOfPage(view, Done(i))
      /\ ArgOK(calls[i], db.used) /\ DataOK(calls[i], db.used)
      /\ calls[i] # NoCall /\ calls' = Done(i) /\ db' = db /\ view' = view
  BY Delivered DEF DeliverNothing, DeliverConfig, DeliverInstance, DeliverTemplate, Succeeds, Answered, Change
<1>1. Masked(view, ui, Done(i))
  <2>1. calls[i].op \in Writes \cup {"config", "instance", "template"}
    BY DEF DeliverNothing, DeliverConfig, DeliverInstance, DeliverTemplate, Succeeds, Answered
  <2>2. ~Runs(calls[i], ListPages) /\ ~Runs(calls[i], {"active"})
    BY <2>1 DEF Runs, ListPages, Writes
  <2>3. QED
    BY <2>2, Delivered
<1>2. ASSUME ui' = ui
      PROVE  TypedInv'
  BY <1>0, <1>1, <1>2 DEF TypedInv
<1>3. ASSUME NEW f, ui' = [ui EXCEPT !.form = f],
             DOMAIN f = {"id", "server", "cluster", "owner", "text"}, FormTyped(f),
             ui.question.op = "addInstance" => f.owner \in Owner
      PROVE  TypedInv'
  <2>1. PageOK(view, ui', db.used) /\ SameMasks(ui, ui')
    BY <1>0, <1>3, FormSet
  <2>2. Masked(view, ui', Done(i))
    BY <1>1, <2>1, MasksKept
  <2>3. QED
    BY <1>0, <2>1, <2>2 DEF TypedInv
\* Only its own calls are alive on the page of a new instance.
<1>4. ASSUME calls[i].live, calls[i].op \in {"config", "instance"}
      PROVE  ui.question.op # "addInstance"
  <2>1. view.page # "add"
    BY <1>0, <1>4 DEF TypedInv, Inv, AddOK
  <2>2. QED
    BY <1>0, <2>1 DEF PageOK, QuestionOK
<1>5. CASE DeliverNothing(i)
  BY <1>2, <1>5 DEF DeliverNothing, Change
<1>6. CASE DeliverConfig(i)
  <2> DEFINE k == calls[i].data
             f == [id |-> k, text |-> k # None, owner |-> None,
                   server |-> IF view.id \in Server THEN view.id ELSE None,
                   cluster |-> IF view.id \in Cluster THEN view.id ELSE None]
  <2>1. ui' = [ui EXCEPT !.form = f]
    BY <1>6 DEF DeliverConfig, Change
  <2>2. k \in Config \cup {None} /\ ui.question.op # "addInstance"
    BY <1>0, <1>4, <1>6 DEF DeliverConfig, Succeeds, Answered, DataOK
  <2>3. DOMAIN f = {"id", "server", "cluster", "owner", "text"} /\ FormTyped(f)
    <3> HIDE DEF k
    <3>1. QED
      BY <2>2 DEF FormTyped
  <2> HIDE DEF f
  <2>4. QED
    BY <1>3, <2>1, <2>2, <2>3
<1>7. CASE DeliverInstance(i)
  <2> DEFINE f == [NoForm EXCEPT !.id = calls[i].arg, !.owner = calls[i].data, !.text = TRUE]
  <2>1. ui' = [ui EXCEPT !.form = f]
    BY <1>7 DEF DeliverInstance, Change
  <2>2. /\ calls[i].arg \in Instance \cup {None} /\ calls[i].data \in Owner
        /\ ui.question.op # "addInstance"
    BY <1>0, <1>4, <1>7 DEF DeliverInstance, Succeeds, Answered, DataOK, ArgOK
  <2>3. /\ DOMAIN f = {"id", "server", "cluster", "owner", "text"} /\ f.id = calls[i].arg
        /\ f.server = None /\ f.cluster = None /\ f.owner = calls[i].data /\ f.text = TRUE
    BY DEF NoForm
  <2> HIDE DEF f
  <2>4. FormTyped(f)
    BY <2>2, <2>3 DEF FormTyped
  <2>5. QED
    BY <1>3, <2>1, <2>2, <2>3, <2>4
<1>8. CASE DeliverTemplate(i)
  <2> DEFINE f == [ui.form EXCEPT !.text = TRUE]
  <2>1. ui' = [ui EXCEPT !.form = f]
    BY <1>8 DEF DeliverTemplate, Change
  <2>2. /\ DOMAIN f = {"id", "server", "cluster", "owner", "text"} /\ f.id = ui.form.id
        /\ f.server = ui.form.server /\ f.cluster = ui.form.cluster
        /\ f.owner = ui.form.owner /\ f.text = TRUE
    BY <1>0 DEF PageOK, UiShape
  <2> HIDE DEF f
  <2>3. FormTyped(f) /\ (ui.question.op = "addInstance" => f.owner \in Owner)
    BY <1>0, <2>2 DEF FormTyped, PageOK, QuestionOK
  <2>4. QED
    BY <1>3, <2>1, <2>2, <2>3
<1>9. QED
  BY <1>5, <1>6, <1>7, <1>8

\* An answer that is followed by another call, in the same slot.
LEMMA FollowedTyped ==
  ASSUME TypedInv, Inv', NEW i \in Slot,
         DeliverOperation(i) \/ DeliverInstanceSwitch(i) \/ DeliverSave(i)
  PROVE  TypedInv'
<1>0. /\ PageOK(view, ui, db.used) /\ CallsOK(calls) /\ TypedCalls(calls, db.used)
      /\ ListsOfPage(view, calls) /\ Masked(view, ui, calls) /\ ViewOK(view)
      /\ db' = db /\ view' = view
  BY DEF TypedInv, Inv, DeliverOperation, DeliverInstanceSwitch, DeliverSave, Change
<1>1. calls[i] # NoCall /\ calls[i].live /\ calls[i].op \in Writes \ {"addInstance"}
  BY DEF DeliverOperation, DeliverInstanceSwitch, DeliverSave, Succeeds, Answered, Writes
<1>2. ~Runs(calls[i], ListPages) /\ ~Runs(calls[i], {"active"})
  BY <1>1 DEF Runs, ListPages, Writes
<1>3. view.page # "add"
  BY <1>1 DEF TypedInv, Inv, AddOK, Writes
<1> DEFINE fetch == Fetch(view, ui.query)
<1>4. /\ ArgOK(fetch, db.used) /\ DataOK(fetch, db.used)
      /\ Runs(fetch, ListPages) => fetch.op = view.page
      /\ view.page \in ListPages => Runs(fetch, ListPages)
  BY <1>0, <1>3, FetchTyped
<1> HIDE DEF fetch
<1>5. ASSUME calls' = Then(i, fetch)
      PROVE  /\ TypedCalls(calls', db.used) /\ ListsOfPage(view, calls')
             /\ Masked(view, ui, calls') /\ calls'[i] = fetch
  <2>1. calls' = [calls EXCEPT ![i] = fetch]
    BY <1>5 DEF Then
  <2>2. TypedCalls(calls', db.used)
    BY <1>0, <1>4, <2>1, TypedReplaced
  <2>3. ListsOfPage(view, calls')
    BY <1>0, <1>4, <2>1, OfPageReplaced
  <2>4. Masked(view, ui, calls')
    BY <1>0, <1>2, <2>1, MaskedReplaced
  <2>5. calls'[i] = fetch
    BY <1>0, <2>1 DEF CallsOK
  <2>6. QED
    BY <2>2, <2>3, <2>4, <2>5
<1>6. CASE DeliverSave(i)
  <2>1. calls' = Then(i, fetch) /\ ui' = ui
    BY <1>6 DEF DeliverSave, Change, fetch
  <2>2. QED
    BY <1>0, <1>5, <2>1 DEF TypedInv
<1>7. CASE DeliverOperation(i)
  <2>1. calls' = Then(i, fetch)
    BY <1>7 DEF DeliverOperation, fetch
  <2> DEFINE shown == ui.dialog.shown /\ calls[i].op \notin DialogOps
             w == [ui EXCEPT !.dialog.shown = shown]
  <2>2. PageOK(view, w, db.used) /\ SameMasks(ui, w)
    <3>1. shown \in BOOLEAN
      OBVIOUS
    <3> HIDE DEF shown
    <3>2. QED
      BY <1>0, <3>1, DialogHidden
  <2>3. ui' = [w EXCEPT !.listLoading = TRUE]
    <3>1. DOMAIN ui = {"query", "list", "listLoading", "dialog", "details", "form", "question"}
      BY <1>0 DEF PageOK, UiShape
    <3>2. ui' = [ui EXCEPT !.listLoading = TRUE, !.dialog.shown = shown]
      BY <1>7 DEF DeliverOperation, Change
    <3> HIDE DEF shown
    <3>3. QED
      BY <3>1, <3>2
  <2> HIDE DEF w
  <2>4. /\ DOMAIN ui' = DOMAIN w /\ ui'.dialog = w.dialog /\ ui'.details = w.details
        /\ ui'.form = w.form /\ ui'.question = w.question
        /\ ui'.query = w.query /\ ui'.list = w.list /\ ui'.listLoading = TRUE
    BY <2>2, <2>3 DEF PageOK, UiShape
  <2>5. ui'.query \in Queries /\ RowsOK(view.page, ui'.list, db.used) /\ ui'.listLoading \in BOOLEAN
    BY <2>2, <2>4 DEF PageOK, FlagsOK
  <2>6. PageOK(view, ui', db.used)
    BY <2>2, <2>4, <2>5, ListSet
  <2>7. Masked(view, ui', calls')
    <3>1. ui'.details = ui.details
      BY <2>2, <2>4 DEF SameMasks
    <3>2. QED
      BY <1>4, <1>5, <2>1, <3>1 DEF Masked
  <2>8. QED
    BY <1>0, <1>5, <2>1, <2>6, <2>7 DEF TypedInv
<1>8. CASE DeliverInstanceSwitch(i)
  <2> DEFINE c == Call("active", ui.details.server)
             d == [ui.details EXCEPT !.shown = TRUE, !.loading = TRUE]
  <2>1. calls' = [calls EXCEPT ![i] = c]
    BY <1>8 DEF DeliverInstanceSwitch, Then
  <2>2. /\ ArgOK(c, db.used) /\ DataOK(c, db.used) /\ Runs(c, {"active"})
        /\ ~Runs(c, ListPages)
    BY DEF ArgOK, DataOK, Runs, Call, NoCall, ListPages
  <2>3. ui' = [ui EXCEPT !.details = d]
    <3>1. DOMAIN ui = {"query", "list", "listLoading", "dialog", "details", "form", "question"}
      BY <1>0 DEF PageOK, UiShape
    <3>2. QED
      BY <1>8, <3>1 DEF DeliverInstanceSwitch, Change
  <2>4. DOMAIN d = {"shown", "server", "list", "loading"} /\ d.shown = TRUE /\ d.loading = TRUE
    BY <1>0 DEF PageOK, UiShape
  <2> HIDE DEF c, d
  <2>5. d.shown \in BOOLEAN /\ d.loading \in BOOLEAN
    BY <2>4
  <2>6. PageOK(view, ui', db.used) /\ ui'.listLoading = ui.listLoading
    BY <1>0, <2>3, <2>4, <2>5, DetailsSet
  <2>7. /\ TypedCalls(calls', db.used) /\ ListsOfPage(view, calls')
        /\ Masked(view, ui, calls') /\ calls'[i] = c
    <3>1. /\ TypedCalls([calls EXCEPT ![i] = c], db.used)
          /\ ListsOfPage(view, [calls EXCEPT ![i] = c])
          /\ Masked(view, ui, [calls EXCEPT ![i] = c]) /\ [calls EXCEPT ![i] = c][i] = c
      <4>1. CallsOK(calls) /\ TypedCalls(calls, db.used) /\ ListsOfPage(view, calls)
            /\ Masked(view, ui, calls)
        BY <1>0
      <4>2. ~Runs(calls[i], ListPages) /\ ~Runs(calls[i], {"active"})
        BY <1>2
      <4>3. QED
        BY <2>2, <4>1, <4>2, CallPut
    <3>2. QED
      BY <2>1, <3>1
  <2>8. Masked(view, ui', calls')
    BY <2>2, <2>6, <2>7 DEF Masked
  <2>9. QED
    BY <1>0, <2>6, <2>7, <2>8 DEF TypedInv
<1>9. QED
  BY <1>6, <1>7, <1>8

LEMMA AddedTyped ==
  ASSUME TypedInv, Inv', NEW i \in Slot, DeliverAdded(i)
  PROVE  TypedInv'
<1>0. /\ PageOK(view, ui, db.used) /\ TypedCalls(Done(i), db.used) /\ ListsOfPage(view, Done(i))
      /\ ViewOK(view) /\ db' = db /\ CallsOK(calls)
  BY Delivered DEF DeliverAdded
<1>1. Masked(view, ui, Done(i))
  <2>1. ~Runs(calls[i], ListPages) /\ ~Runs(calls[i], {"active"})
    BY DEF DeliverAdded, Succeeds, Answered, Runs, ListPages
  <2>2. QED
    BY <2>1, Delivered
<1>2. CASE view = AddedView
  <2>1. calls' = Done(i) /\ view' = view /\ ui' = ui
    BY <1>2 DEF DeliverAdded, AddedView
  <2>2. QED
    BY <1>0, <1>1, <2>1 DEF TypedInv
<1>3. CASE view # AddedView
  <2>1. Go(AddedView, Done(i))
    BY <1>3 DEF DeliverAdded, AddedView
  <2>2. ViewOK(AddedView) /\ CallsOK(Done(i))
    BY <1>0, NoCallOK, CallReplaced DEF ViewOK, Done
  <2>3. /\ ViewOK(view') /\ PageOK(view', ui', db.used) /\ TypedCalls(calls', db.used)
        /\ ListsOfPage(view', calls') /\ Masked(view', ui', calls')
    BY <1>0, <1>1, <2>1, <2>2, GoTyped
  <2>4. QED
    BY <1>0, <2>3 DEF TypedInv
<1>4. QED
  BY <1>2, <1>3

-----------------------------------------------------------------------------
(* From the first page on.                                                 *)

LEMMA InitTyped == Init => TypedInv
<1> SUFFICES ASSUME Init PROVE TypedInv
  OBVIOUS
<1>1. Inv
  BY InitInv
<1>2. DbOK(db) /\ ViewOK(view)
  BY ConsoleConstants DEF Init, DbOK, ViewOK
<1>3. PageOK(view, ui, db.used) /\ ui.details.shown = FALSE
  BY <1>2, FreshTyped DEF Init
<1> DEFINE c == Fetch(view, ui.query)
<1>4. PICK i \in Slot :
        calls = [j \in Slot |-> IF j = i /\ view.page # "add" THEN c ELSE NoCall]
  BY DEF Init
<1>5. view.page # "add" =>
        /\ ArgOK(c, db.used) /\ DataOK(c, db.used)
        /\ Runs(c, ListPages) => c.op = view.page
        /\ view.page \in ListPages => Runs(c, ListPages)
  BY <1>2, FetchTyped
<1> HIDE DEF c
<1>6. \A j \in Slot : calls[j] # NoCall => j = i /\ view.page # "add" /\ calls[j] = c
  BY <1>4
<1>7. TypedCalls(calls, db.used)
  BY <1>5, <1>6 DEF TypedCalls
<1>8. ListsOfPage(view, calls)
  BY <1>5, <1>6 DEF ListsOfPage, Runs
<1>9. Masked(view, ui, calls)
  <2>1. view.page # "add" => calls[i] = c
    BY <1>4
  <2>2. "add" \notin ListPages
    BY DEF ListPages
  <2>3. QED
    BY <1>3, <1>5, <2>1, <2>2 DEF Masked
<1>10. QED
  BY <1>1, <1>2, <1>3, <1>7, <1>8, <1>9 DEF TypedInv

LEMMA NextTyped == TypedInv /\ [Next]_vars => TypedInv'
<1> SUFFICES ASSUME TypedInv, [Next]_vars PROVE TypedInv'
  OBVIOUS
<1>1. Inv'
  BY NextInv DEF TypedInv
<1>2. CASE User
  BY <1>1, <1>2, UserTyped
<1>3. CASE Other \/ \E i \in Slot : Serve(i) \/ Fail(i)
  BY <1>1, <1>3, ServerTyped
<1>4. ASSUME NEW i \in Slot, Deliver(i)
      PROVE  TypedInv'
  BY <1>1, <1>4, ListDelivered, FormDelivered, FollowedTyped, AddedTyped DEF Deliver
<1>5. CASE UNCHANGED vars
  BY <1>1, <1>5 DEF TypedInv, vars
<1>6. QED
  BY <1>2, <1>3, <1>4, <1>5 DEF Next

LEMMA TypedAlways == Spec => []TypedInv
BY InitTyped, NextTyped, PTL DEF Spec

\* The tables, the page and the calls keep their types whatever is answered,
\* when, and to which page (views/canalServer, api).
THEOREM ConsoleTypeCorrect == Spec => []ConsoleTypeOK
<1>1. ASSUME TypedInv
      PROVE  ConsoleTypeOK
  <2>1. TypeOfDb(db) /\ view.page \in ListPages \cup Editors
    BY <1>1 DEF TypedInv, DbOK, Inv
  <2>2. PageOK(view, ui, db.used)
    BY <1>1 DEF TypedInv
  <2>3. ui.question.op \in Writes \cup {"none"}
    BY <2>2 DEF PageOK, QuestionOK
  <2>4. \A i \in Slot : calls[i] = NoCall \/
          calls[i].op \in Writes \cup ListPages \cup {"active", "config", "instance", "template"}
    BY <1>1 DEF TypedInv, Inv, CallsOK, CallOK, Reads
  <2>5. {ui.listLoading, ui.dialog.shown, ui.details.shown, ui.details.loading, ui.form.text} \subseteq BOOLEAN
    BY <2>2, Zenon DEF PageOK, FlagsOK, FormTyped
  <2>6. QED
    BY <2>1, <2>2, <2>3, <2>4, <2>5 DEF ConsoleTypeOK, PageOK, UiShape, FlagsOK, FormTyped
<1>2. QED
  BY <1>1, TypedAlways, PTL

\* Whichever answers are lost, late or for a page that was left, the mask over
\* a list is taken away: while it is there, a fetch for it is on its way, and
\* that is true of the list of a server's instances too (fetchData and
\* activeInstances of NodeServer.vue).
THEOREM MasksEnd == Spec => []MaskHasFetch
<1>1. ASSUME TypedInv
      PROVE  MaskHasFetch
  <2>1. Masked(view, ui, calls)
    BY <1>1 DEF TypedInv
  <2>2. \A ops : (\E i \in Slot : Runs(calls[i], ops)) => InFlight(ops) # {}
    BY DEF Runs, InFlight
  <2>3. QED
    BY <2>1, <2>2 DEF Masked, MaskHasFetch
<1>2. QED
  BY <1>1, TypedAlways, PTL

\* However dialogs were opened, cancelled and closed by late answers, and
\* whoever deleted the row meanwhile, a creation is sent without an identity
\* and an update with one that was given out (handleCreate, handleUpdate and
\* dataOperation of NodeServer.vue and CanalCluster.vue).
THEOREM CreationsStayNew == Spec => []CreationsAreNew
<1>1. ASSUME TypedInv
      PROVE  CreationsAreNew
  <2>1. NoCall.op = "none"
    BY DEF NoCall
  <2>2. \A i \in Slot : calls[i] # NoCall => ArgOK(calls[i], db.used)
    BY <1>1 DEF TypedInv, TypedCalls
  <2>3. QED
    BY <2>1, <2>2 DEF ArgOK, CreationsAreNew
<1>2. QED
  BY <1>1, TypedAlways, PTL

=============================================================================
