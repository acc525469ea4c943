---------------------------- MODULE AdminConsole ----------------------------
(***************************************************************************)
(* The pages of the admin console (views/canalServer) in one tab: the      *)
(* lists of clusters, servers and instances, the editors of configurations *)
(* and instances, their dialogs and confirmation boxes, with the calls     *)
(* they make to the services of AdminBackend, which other administrators   *)
(* use too.                                                                *)
(*                                                                         *)
(* A call is sent with the data of that moment, served in one transaction, *)
(* and delivered later, in any order with the others.  A page that the     *)
(* user leaves is destroyed; the answers to its calls still run.  Only the *)
(* query of an address may change without a new page.                      *)
(***************************************************************************)
EXTENDS Naturals, AdminBackend

CONSTANTS
  Slot,         \* bounds the calls in flight
  Views,        \* addresses that the user may enter: [page, id]
  Edits,        \* the kinds of change the user makes
  InitialDb,
  MaxMoves,     \* bounds what the user does
  MaxOthers,    \* bounds what other administrators do
  MaxFailures   \* bounds calls that fail on the way

ListPages == {"clusters", "servers", "instances"}
Editors == {"config", "modify", "add"}

\* A configuration belongs to a cluster or to a server.
OwnedOnce(row) == row.server = None \/ row.cluster = None

\* The clusters whose servers are listed: one, all, or those that have none.
Queries == Cluster \cup {None, Alone}

ASSUME ConsoleConstants ==
  /\ Views \subseteq [page : ListPages \cup Editors, id : Server \cup Cluster \cup Instance \cup {None}]
  /\ \A v \in Views :
       /\ v.page = "servers" => v.id \in Queries
       /\ v.page = "modify" => v.id \in Instance \cup {None}
  /\ TypeOfDb(InitialDb) /\ RowsUsed(InitialDb)
  /\ \A k \in DOMAIN InitialDb.configs : OwnedOnce(InitialDb.configs[k])
  /\ Server \cap Cluster = {}

VARIABLES
  db,      \* the state of AdminBackend
  view,    \* the current route: its page and the id of its query
  ui,      \* the data() of the page's component
  calls,   \* calls in flight
  moves, others, failures

vars == <<db, view, ui, calls, moves, others, failures>>
bounds == <<moves, others, failures>>

NoCall == [op |-> "none"]
Call(op, arg) == [op |-> op, arg |-> arg, live |-> TRUE, served |-> FALSE, ok |-> FALSE, data |-> None]
Free(cs) == {i \in Slot : cs[i] = NoCall}

NoModel == [id |-> None, address |-> None, cluster |-> None]
NoForm == [id |-> None, server |-> None, cluster |-> None, owner |-> None, text |-> FALSE]
NoQuestion == [op |-> "none", id |-> None]

\* What data() gives a new component; listQuery takes its cluster from the
\* address in created().
Fresh(v) ==
  [query |-> IF v.page = "servers" THEN v.id ELSE None, list |-> {}, listLoading |-> TRUE,
   dialog |-> [shown |-> FALSE, status |-> "create", model |-> NoModel],
   details |-> [shown |-> FALSE, server |-> None, list |-> {}, loading |-> TRUE],
   form |-> NoForm, question |-> NoQuestion]

-----------------------------------------------------------------------------
(* Pages come and go.                                                      *)

\* The call of a page's created(), which its fetchData or load repeats: a list
\* with the query of its component, an editor with that of the address.
Fetch(v, query) ==
  CASE v.page = "servers" -> Call("servers", query)
    [] v.page = "config" -> Call("config", v.id)
    [] v.page = "modify" -> Call("instance", v.id)
    [] OTHER -> Call(v.page, None)

Orphaned(cs) == [i \in Slot |-> IF cs[i] = NoCall THEN NoCall ELSE [cs[i] EXCEPT !.live = FALSE]]

\* A new component for another path; the same one, told nothing, for another
\* query.  Either closes a confirmation box.
Go(v, cs) ==
  /\ view' = v
  /\ IF v.page = view.page
     THEN ui' = [ui EXCEPT !.question = NoQuestion] /\ calls' = cs
     ELSE /\ ui' = Fresh(v)
          /\ IF v.page = "add" THEN calls' = Orphaned(cs)
             ELSE \E i \in Free(cs) : calls' = [Orphaned(cs) EXCEPT ![i] = Fetch(v, ui'.query)]

Init ==
  /\ db = InitialDb
  /\ view \in Views
  /\ ui = Fresh(view)
  /\ \E i \in Slot :
       calls = [j \in Slot |-> IF j = i /\ view.page # "add" THEN Fetch(view, ui.query) ELSE NoCall]
  /\ moves = 0 /\ others = 0 /\ failures = 0

Move == moves < MaxMoves /\ moves' = moves + 1

Leave(v) ==
  /\ Move /\ v # view
  /\ Go(v, calls)
  /\ UNCHANGED <<db, others, failures>>

-----------------------------------------------------------------------------
(* The user, on the part of the page that no dialog, box or mask covers.   *)

Uncovered == ~ui.dialog.shown /\ ~ui.details.shown /\ ui.question = NoQuestion
Rows == IF Uncovered /\ ~ui.listLoading THEN ui.list ELSE {}
InstanceRows ==
  IF ui.details.shown /\ ~ui.details.loading /\ ui.question = NoQuestion THEN ui.details.list ELSE {}

Send(call) == \E i \in Free(calls) : calls' = [calls EXCEPT ![i] = call]

UserStep(kind) == kind \in Edits /\ Move /\ UNCHANGED <<db, view, others, failures>>

\* fetchData, by one of the buttons above the list, with the cluster selected.
Refresh ==
  /\ UserStep("refresh") /\ view.page \in {"servers", "instances"} /\ Uncovered
  /\ \E query \in IF view.page = "servers" THEN Queries ELSE {None} :
       /\ Send(Fetch(view, query))
       /\ ui' = [ui EXCEPT !.listLoading = TRUE, !.query = query]

\* A faulty variant: the model is not reset.
CreateWithModel ==
  /\ UserStep("dialog") /\ view.page \in {"clusters", "servers"} /\ Uncovered
  /\ ui' = [ui EXCEPT !.dialog.shown = TRUE, !.dialog.status = "create"]
  /\ UNCHANGED calls

HandleCreate ==
  /\ UserStep("dialog") /\ view.page \in {"clusters", "servers"} /\ Uncovered
  /\ ui' = [ui EXCEPT !.dialog = [shown |-> TRUE, status |-> "create", model |-> NoModel]]
  /\ UNCHANGED calls

ModelOf(row) ==
  IF view.page = "clusters" THEN [NoModel EXCEPT !.id = row.id]
  ELSE [id |-> row.id, address |-> row.address, cluster |-> row.cluster]

HandleUpdate ==
  /\ UserStep("dialog") /\ view.page \in {"clusters", "servers"}
  /\ \E row \in Rows :
       ui' = [ui EXCEPT !.dialog = [shown |-> TRUE, status |-> "update", model |-> ModelOf(row)]]
  /\ UNCHANGED calls

CancelDialog ==
  /\ ui.dialog.shown
  /\ ui' = [ui EXCEPT !.dialog.shown = FALSE]
  /\ UNCHANGED <<db, view, calls, bounds>>

\* The fields are filled; only a creation chooses the cluster.
Creates == ui.dialog.status = "create"
Filled ==
  IF view.page = "clusters" THEN {ui.dialog.model}
  ELSE {[id |-> ui.dialog.model.id, address |-> a, cluster |-> c] :
          a \in Address, c \in IF Creates THEN Cluster \cup {None} ELSE {ui.dialog.model.cluster}}
Operation ==
  IF view.page = "clusters" THEN IF Creates THEN "addCluster" ELSE "updateCluster"
                            ELSE IF Creates THEN "addServer" ELSE "updateServer"

\* The dialog stays until the answer.
DataOperation ==
  /\ UserStep("dialog") /\ view.page \in {"clusters", "servers"} /\ ui.dialog.shown
  /\ \E model \in Filled :
       ui' = [ui EXCEPT !.dialog.model = model] /\ Send(Call(Operation, model))

\* handleInstances, and the refresh button of that dialog: activeInstances.
ShowInstances(server) ==
  /\ Send(Call("active", server))
  /\ ui' = [ui EXCEPT !.details.server = server, !.details.shown = TRUE, !.details.loading = TRUE]

HandleInstances ==
  /\ UserStep("details") /\ view.page = "servers"
  /\ \/ \E row \in Rows : ShowInstances(row.id)
     \/ ui.details.shown /\ ui.question = NoQuestion /\ ShowInstances(ui.details.server)

CloseInstances ==
  /\ ui.details.shown /\ ui.question = NoQuestion
  /\ ui' = [ui EXCEPT !.details.shown = FALSE]
  /\ UNCHANGED <<db, view, calls, bounds>>

\* The handlers that ask for confirmation, with the row they were given.
Ask(op, id) == ui' = [ui EXCEPT !.question = [op |-> op, id |-> id]] /\ UNCHANGED calls

HandleRow ==
  /\ UserStep("row") /\ view.page \in ListPages
  /\ \E row \in Rows :
       CASE view.page = "clusters" -> Ask("deleteCluster", row.id)
         [] view.page = "servers" ->
              \/ Ask("deleteServer", row.id)
              \/ Ask(IF row.up THEN "stopServer" ELSE "startServer", row.id)
         [] view.page = "instances" ->
              \E op \in {"deleteInstance", "instanceStart", "instanceStop"} : Ask(op, row.id)

HandleInstanceRow ==
  /\ UserStep("instanceRow") /\ view.page = "servers"
  /\ \E row \in InstanceRows : Ask(IF row.running THEN "stopInstance" ELSE "startInstance", row.id)

\* onSubmit of the editors, after its checks of the form.
OnSubmit ==
  /\ UserStep("save") /\ Uncovered
  /\ \/ view.page = "config" /\ ui.form.text /\ Ask("saveConfig", None)
     \/ view.page = "modify" /\ Ask("saveInstance", None)
     \/ view.page = "add" /\ ui.form.text /\ ui.form.owner # None /\ Ask("addInstance", None)

\* What a confirmed question sends: the row it was asked for, but the form
\* and the server of the dialog as they are now.
Confirmed ==
  CASE ui.question.op \in {"saveConfig", "saveInstance", "addInstance"} -> ui.form
    [] ui.question.op \in {"startInstance", "stopInstance"} -> <<ui.question.id, ui.details.server>>
    [] OTHER -> ui.question.id

Confirm ==
  /\ ui.question # NoQuestion
  /\ Send(Call(ui.question.op, Confirmed))
  /\ ui' = [ui EXCEPT !.question = NoQuestion]
  /\ UNCHANGED <<db, view, bounds>>

CancelQuestion ==
  /\ ui.question # NoQuestion
  /\ ui' = [ui EXCEPT !.question = NoQuestion]
  /\ UNCHANGED <<db, view, calls, bounds>>

\* The editors: text is typed or deleted, an owner chosen from options that
\* may be old, a load asked for again, a template loaded.
Edit ==
  /\ UserStep("edit") /\ view.page \in Editors /\ Uncovered
  /\ \/ ui' = [ui EXCEPT !.form.text = ~@] /\ UNCHANGED calls
     \/ /\ view.page \in {"modify", "add"}
        /\ \E o \in (Server \cup Cluster) \cap db.used : ui' = [ui EXCEPT !.form.owner = o]
        /\ UNCHANGED calls

Reload ==
  /\ UserStep("load") /\ Uncovered /\ UNCHANGED ui
  /\ \/ view.page \in {"config", "modify"} /\ Send(Fetch(view, ui.query))
     \/ view.page \in {"config", "add"} /\ Send(Call("template", None))

-----------------------------------------------------------------------------
(* The server.  A call may fail before or after the service has run.       *)

InstanceRowsOf == {[id |-> i, owner |-> db.instances[i].owner] : i \in DOMAIN db.instances}

Service(call) ==
  CASE call.op = "clusters" -> {Outcome(db, {[id |-> c] : c \in db.clusters})}
    [] call.op = "servers" -> {Outcome(db, ServerRows(db, call.arg))}
    [] call.op = "instances" -> {Outcome(db, InstanceRowsOf)}
    [] call.op = "active" -> ActiveInstances(db, call.arg)
    [] call.op = "config" -> GetConfig(db, call.arg)
    [] call.op = "instance" -> GetInstance(db, call.arg)
    [] call.op \in {"template", "updateCluster"} -> Success(db)
    [] call.op = "addCluster" -> AddCluster(db)
    [] call.op = "deleteCluster" -> DeleteCluster(db, call.arg)
    [] call.op = "addServer" -> AddServer(db, call.arg)
    [] call.op = "updateServer" -> UpdateServer(db, call.arg)
    [] call.op = "deleteServer" -> DeleteServer(db, call.arg)
    [] call.op = "startServer" -> SwitchServer(db, call.arg, TRUE)
    [] call.op = "stopServer" -> SwitchServer(db, call.arg, FALSE)
    [] call.op = "saveConfig" -> UpdateConfig(db, call.arg)
    [] call.op = "addInstance" -> AddInstance(db, call.arg.owner)
    [] call.op = "saveInstance" -> UpdateInstance(db, call.arg.id, call.arg.owner)
    [] call.op = "deleteInstance" -> DeleteInstance(db, call.arg)
    [] call.op = "instanceStart" -> SwitchInstance(db, call.arg, TRUE)
    [] call.op = "instanceStop" -> SwitchInstance(db, call.arg, FALSE)
    [] call.op = "startInstance" -> SwitchInstanceOn(db, call.arg[1], call.arg[2], TRUE)
    [] call.op = "stopInstance" -> SwitchInstanceOn(db, call.arg[1], call.arg[2], FALSE)

Waiting(i) == calls[i] # NoCall /\ ~calls[i].served

Serve(i) ==
  /\ Waiting(i)
  /\ \E outcome \in Service(calls[i]) :
       /\ db' = outcome.db
       /\ calls' = [calls EXCEPT ![i].served = TRUE, ![i].ok = outcome.ok, ![i].data = outcome.data]
  /\ UNCHANGED <<view, ui, bounds>>

\* Lost on the way there, or, already served, on the way back.
Fail(i) ==
  /\ calls[i] # NoCall /\ failures < MaxFailures
  /\ failures' = failures + 1
  /\ calls' = [calls EXCEPT ![i].served = TRUE, ![i].ok = FALSE, ![i].data = None]
  /\ UNCHANGED <<db, view, ui, moves, others>>

\* Another administrator, and canal servers that come and go.
Other ==
  /\ others < MaxOthers /\ others' = others + 1
  /\ \E outcome \in
       UNION ({DeleteServer(db, s) : s \in DOMAIN db.servers} \cup
              {DeleteInstance(db, i) : i \in DOMAIN db.instances} \cup
              {UpdateInstance(db, i, s) : i \in DOMAIN db.instances, s \in DOMAIN db.servers} \cup
              {SwitchServer(db, s, s \notin db.up) : s \in DOMAIN db.servers}) :
       db' = outcome.db
  /\ UNCHANGED <<view, ui, calls, moves, failures>>

-----------------------------------------------------------------------------
(* Answers.  A component that was left has no state to change any more.    *)

Answered(i, ops) == calls[i] # NoCall /\ calls[i].served /\ calls[i].op \in ops
Done(i) == [calls EXCEPT ![i] = NoCall]
Then(i, call) == [calls EXCEPT ![i] = call]
Change(newUi) == ui' = newUi /\ UNCHANGED <<db, view, bounds>>

\* A faulty variant: then instead of finally.
DeliverListThen(i) ==
  /\ Answered(i, ListPages)
  /\ calls' = Done(i)
  /\ LET c == calls[i] IN
       Change(IF ~c.live \/ ~c.ok THEN ui
              ELSE [ui EXCEPT !.list = c.data, !.listLoading = FALSE])

\* fetchData: the rows if there are any, and in any case the mask goes.
DeliverList(i) ==
  /\ Answered(i, ListPages)
  /\ calls' = Done(i)
  /\ LET c == calls[i] IN
       Change(IF ~c.live THEN ui
              ELSE [ui EXCEPT !.list = IF c.ok THEN c.data ELSE @, !.listLoading = FALSE])

\* activeInstances.
DeliverActive(i) ==
  /\ Answered(i, {"active"})
  /\ calls' = Done(i)
  /\ LET c == calls[i] IN
       Change(IF ~c.live THEN ui
              ELSE [ui EXCEPT !.details.list = IF c.ok THEN c.data ELSE @,
                              !.details.loading = FALSE])

\* Refused calls show a message; nothing catches the rejection.
Writes == {"addCluster", "updateCluster", "deleteCluster",
           "addServer", "updateServer", "deleteServer", "startServer", "stopServer",
           "saveConfig", "addInstance", "saveInstance", "deleteInstance",
           "instanceStart", "instanceStop", "startInstance", "stopInstance"}
DialogOps == {"addCluster", "updateCluster", "addServer", "updateServer"}

DeliverNothing(i) ==
  /\ Answered(i, Writes \cup {"config", "instance", "template"})
  /\ \/ ~calls[i].ok
     \/ calls[i].data = FALSE
     \/ ~calls[i].live /\ calls[i].op # "addInstance"
  /\ calls' = Done(i) /\ Change(ui)

Succeeds(i, ops) == Answered(i, ops) /\ calls[i].ok /\ calls[i].data # FALSE

\* operationRes, and the answers to deletions and switches: the list is
\* fetched again, and whatever dialog is open for it now is closed.
DeliverOperation(i) ==
  /\ Succeeds(i, Writes \ {"saveConfig", "saveInstance", "addInstance", "startInstance", "stopInstance"})
  /\ calls[i].live
  /\ calls' = Then(i, Fetch(view, ui.query))
  /\ Change([ui EXCEPT !.listLoading = TRUE,
                       !.dialog.shown = @ /\ calls[i].op \notin DialogOps])

\* The dialog of the instances is opened again if it was closed.
DeliverInstanceSwitch(i) ==
  /\ Succeeds(i, {"startInstance", "stopInstance"}) /\ calls[i].live
  /\ calls' = Then(i, Call("active", ui.details.server))
  /\ Change([ui EXCEPT !.details.shown = TRUE, !.details.loading = TRUE])

\* A faulty variant: the id of the address is taken for a server's.
DeliverConfigOfServer(i) ==
  /\ Succeeds(i, {"config"}) /\ calls[i].live
  /\ calls' = Done(i)
  /\ LET k == calls[i].data IN
       Change([ui EXCEPT !.form =
         [id |-> k, text |-> k # None, owner |-> None, server |-> view.id, cluster |-> None]])

\* loadCanalConfig; the owner is that of the address at this moment.
DeliverConfig(i) ==
  /\ Succeeds(i, {"config"}) /\ calls[i].live
  /\ calls' = Done(i)
  /\ LET k == calls[i].data IN
       Change([ui EXCEPT !.form =
         [id |-> k, text |-> k # None, owner |-> None,
          server |-> IF view.id \in Server THEN view.id ELSE None,
          cluster |-> IF view.id \in Cluster THEN view.id ELSE None]])

DeliverInstance(i) ==
  /\ Succeeds(i, {"instance"}) /\ calls[i].live
  /\ calls' = Done(i)
  /\ Change([ui EXCEPT !.form = [NoForm EXCEPT !.id = calls[i].arg, !.owner = calls[i].data,
                                              !.text = TRUE]])

DeliverTemplate(i) ==
  /\ Succeeds(i, {"template"}) /\ calls[i].live
  /\ calls' = Done(i)
  /\ Change([ui EXCEPT !.form.text = TRUE])

\* A saved form is loaded again, from the address of this moment.
DeliverSave(i) ==
  /\ Succeeds(i, {"saveConfig", "saveInstance"}) /\ calls[i].live
  /\ calls' = Then(i, Fetch(view, ui.query))
  /\ Change(ui)

\* An instance that was added takes the tab to the list, from wherever it is.
DeliverAdded(i) ==
  /\ Succeeds(i, {"addInstance"})
  /\ LET v == [page |-> "instances", id |-> None] IN
       IF view = v THEN calls' = Done(i) /\ UNCHANGED <<view, ui>> ELSE Go(v, Done(i))
  /\ UNCHANGED <<db, bounds>>

-----------------------------------------------------------------------------

User ==
  \/ \E v \in Views : Leave(v)
  \/ Refresh \/ HandleCreate \/ HandleUpdate \/ CancelDialog \/ DataOperation
  \/ HandleInstances \/ CloseInstances \/ HandleRow \/ HandleInstanceRow
  \/ OnSubmit \/ Confirm \/ CancelQuestion \/ Edit \/ Reload

Deliver(i) ==
  \/ DeliverList(i) \/ DeliverActive(i) \/ DeliverNothing(i) \/ DeliverOperation(i)
  \/ DeliverInstanceSwitch(i) \/ DeliverConfig(i) \/ DeliverInstance(i)
  \/ DeliverTemplate(i) \/ DeliverSave(i) \/ DeliverAdded(i)

Next == User \/ Other \/ \E i \in Slot : Serve(i) \/ Fail(i) \/ Deliver(i)

\* Every call is answered or times out.
Spec == Init /\ [][Next]_vars /\ \A i \in Slot : WF_vars(Serve(i)) /\ WF_vars(Deliver(i))

-----------------------------------------------------------------------------
(* Properties.                                                             *)

InFlight(ops) == {i \in Slot : calls[i] # NoCall /\ calls[i].live /\ calls[i].op \in ops}

ConsoleTypeOK ==
  /\ TypeOfDb(db)
  /\ view.page \in ListPages \cup Editors
  /\ ui.query \in Queries
  /\ DOMAIN ui = {"query", "list", "listLoading", "dialog", "details", "form", "question"}
  /\ {ui.listLoading, ui.dialog.shown, ui.details.shown, ui.details.loading, ui.form.text} \subseteq BOOLEAN
  /\ ui.form.id \in Config \cup Instance \cup {None}
  /\ ui.form.server \in Server \cup {None} /\ ui.form.cluster \in Cluster \cup {None}
  /\ ui.question.op \in Writes \cup {"none"}
  /\ \A i \in Slot : calls[i] = NoCall \/
       calls[i].op \in Writes \cup ListPages \cup {"active", "config", "instance", "template"}

\* A list is masked only while a fetch of this page is on its way, whatever
\* failed or was answered late; so is the list of the instances of a server.
MaskHasFetch ==
  /\ view.page \in ListPages /\ ui.listLoading => InFlight(ListPages) # {}
  /\ ui.details.shown /\ ui.details.loading => InFlight({"active"}) # {}

\* What is created is new and what is updated exists: however dialogs were
\* opened, cancelled and closed by late answers, a creation carries no
\* identity, and an update the identity of a row.
CreationsAreNew ==
  \A i \in Slot :
    /\ calls[i].op \in {"addServer", "addCluster"} => calls[i].arg.id = None
    /\ calls[i].op \in {"updateServer", "updateCluster"} => calls[i].arg.id \in db.used

\* A configuration has one owner at most, from whichever address it was
\* loaded and saved, and a cluster never shares its own with a server.
ConfigOwnedOnce ==
  \A k \in DOMAIN db.configs : OwnedOnce(db.configs[k])

\* NodeServer.vue: "in cluster mode, when an instance is stopped, other hosts
\* will compete to run it".  A stop in the dialog of a server's instances
\* leaves an instance of a cluster switched on.
ClusterStopOnlyReleases ==
  [][\A i \in Slot :
       Waiting(i) /\ calls'[i] # NoCall /\ calls'[i].served /\ calls[i].op = "stopInstance"
       /\ calls[i].arg[1] \in DOMAIN db.instances /\ db.instances[calls[i].arg[1]].owner \in Cluster
       => db' = db]_vars

=============================================================================
