---------------------------- MODULE AdminBackend ----------------------------
(***************************************************************************)
(* What the admin server keeps and does for the console: the clusters,     *)
(* servers, configurations and instances of its database, and the services *)
(* over them.  A service gives a set of outcomes, each a database and an   *)
(* answer; it is taken as one step, although the code runs its statements  *)
(* without a transaction around them.                                      *)
(*                                                                         *)
(* The texts of configurations are left out.  A name that is taken, and a  *)
(* canal server that does not answer, are outcomes that may always happen. *)
(***************************************************************************)
EXTENDS FiniteSets, Functions

CONSTANTS
  Cluster, Server, Config, Instance,   \* identities, given out once each
  Address,                             \* ip and admin port of a server
  None

\* db: the four tables as functions on their identities, the identities that
\* have been given out, and the canal servers that run.
TypeOfDb(db) ==
  /\ DOMAIN db = {"clusters", "servers", "configs", "instances", "used", "up"}
  /\ db.clusters \subseteq Cluster
  /\ DOMAIN db.servers \subseteq Server
  /\ \A s \in DOMAIN db.servers :
       db.servers[s] \in [address : Address, cluster : Cluster \cup {None}]
  /\ DOMAIN db.configs \subseteq Config
  /\ \A k \in DOMAIN db.configs :
       db.configs[k] \in [server : Server \cup {None}, cluster : Cluster \cup {None}]
  /\ DOMAIN db.instances \subseteq Instance
  /\ \A i \in DOMAIN db.instances :
       db.instances[i] \in [owner : Cluster \cup Server, status : BOOLEAN]
  /\ db.used \subseteq Cluster \cup Server \cup Config \cup Instance
  /\ db.up \subseteq Server

\* Every row has an identity that was given out.
RowsUsed(db) ==
  db.clusters \cup DOMAIN db.servers \cup DOMAIN db.configs \cup DOMAIN db.instances \subseteq db.used

With(table, id, row) == [i \in DOMAIN table \cup {id} |-> IF i = id THEN row ELSE table[i]]
Without(table, ids) == Restrict(table, DOMAIN table \ ids)

Outcome(db, data) == [db |-> db, ok |-> TRUE, data |-> data]
Failure(db) == [db |-> db, ok |-> FALSE, data |-> None]
Success(db) == {Outcome(db, TRUE)}
Refused(db) == {Failure(db)}

\* An insert takes an identity that was never used; the bound may leave none.
NoneLeft(db, ids) == ids \subseteq db.used
Unused(db, ids) == CHOOSE id \in ids : id \notin db.used

-----------------------------------------------------------------------------
(* Clusters.                                                               *)

AddCluster(db) ==
  LET c == Unused(db, Cluster) IN
  IF NoneLeft(db, Cluster) THEN Refused(db)
  ELSE Success([db EXCEPT !.clusters = @ \cup {c}, !.used = @ \cup {c}])

InstancesOf(db, owner) == {i \in DOMAIN db.instances : db.instances[i].owner = owner}
ServersOf(db, c) == {s \in DOMAIN db.servers : db.servers[s].cluster = c}

\* The cluster's configuration stays.
DeleteCluster(db, c) ==
  IF ServersOf(db, c) # {} \/ InstancesOf(db, c) # {} THEN Refused(db)
  ELSE Success([db EXCEPT !.clusters = @ \ {c}])

-----------------------------------------------------------------------------
(* Servers.                                                                *)

AddressTaken(db, address, id) ==
  \E s \in DOMAIN db.servers \ {id} : db.servers[s].address = address

ConfigOfServer(db, s) == {k \in DOMAIN db.configs : db.configs[k].server = s}
ConfigOfCluster(db, c) == {k \in DOMAIN db.configs : db.configs[k].cluster = c}

\* A server without a cluster gets a configuration of its own.
AddServer(db, m) ==
  LET s == Unused(db, Server)
      k == Unused(db, Config)
      saved == [db EXCEPT !.servers = With(@, s, [address |-> m.address, cluster |-> m.cluster]),
                          !.used = @ \cup {s}]
  IN  IF AddressTaken(db, m.address, None) \/ NoneLeft(db, Server) THEN Refused(db)
      ELSE IF m.cluster # None THEN Success(saved)
      ELSE IF NoneLeft(db, Config) THEN Refused(saved)
      ELSE Success([saved EXCEPT !.configs = With(@, k, [server |-> s, cluster |-> None]),
                                 !.used = @ \cup {k}])

\* A row that has gone is updated without effect.
UpdateServer(db, m) ==
  IF AddressTaken(db, m.address, m.id) THEN Refused(db)
  ELSE IF m.id \notin DOMAIN db.servers THEN Success(db)
  ELSE Success([db EXCEPT !.servers[m.id] = [address |-> m.address, cluster |-> m.cluster]])

DeleteServer(db, s) ==
  IF s \notin DOMAIN db.servers THEN Success(db)
  ELSE IF InstancesOf(db, s) # {} THEN Refused(db)
  ELSE Success([db EXCEPT !.servers = Without(@, {s}),
                          !.configs = Without(@, ConfigOfServer(db, s))])

\* remoteOperation of a server; its process may not answer, or not obey.
SwitchServer(db, s, on) ==
  {Outcome(db, FALSE)} \cup
  IF s \notin DOMAIN db.servers THEN {}
  ELSE Success([db EXCEPT !.up = IF on THEN @ \cup {s} ELSE @ \ {s}])

\* findList; the filter may also ask for servers without a cluster.
Alone == "alone"

ServerRows(db, c) ==
  {[id |-> s, address |-> db.servers[s].address, cluster |-> db.servers[s].cluster,
    up |-> s \in db.up] :
     s \in IF c = None THEN DOMAIN db.servers ELSE ServersOf(db, IF c = Alone THEN None ELSE c)}

-----------------------------------------------------------------------------
(* Configurations.                                                         *)

\* getCanalConfig: a cluster's, a server's own, or that of its cluster; more
\* than one is an error.
GetConfig(db, owner) ==
  LET own == IF owner \in Cluster THEN ConfigOfCluster(db, owner) ELSE ConfigOfServer(db, owner)
      shared == IF owner \in DOMAIN db.servers /\ db.servers[owner].cluster # None
                THEN ConfigOfCluster(db, db.servers[owner].cluster) ELSE {}
      found == IF own # {} THEN own ELSE shared
  IN  IF Cardinality(found) > 1 THEN Refused(db)
      ELSE {Outcome(db, k) : k \in IF found = {} THEN {None} ELSE found}

\* UNIQUE KEY on server_id.
ServerTaken(db, s, id) == s # None /\ ConfigOfServer(db, s) \ {id} # {}

\* A faulty variant: the form's server in any case.
ServerOfAnyForm(db, form) == form.server

\* The configuration of a cluster gets no server.
ServerOfForm(db, form) ==
  IF form.id \in DOMAIN db.configs /\ db.configs[form.id].cluster # None
  THEN None ELSE form.server

\* updateContent: an insert without an identity, else an update of its server.
UpdateConfig(db, form) ==
  LET server == ServerOfForm(db, form)
      k == Unused(db, Config)
  IN  IF ServerTaken(db, server, form.id) THEN Refused(db)
      ELSE IF form.id = None
      THEN IF NoneLeft(db, Config) THEN Refused(db)
           ELSE Success([db EXCEPT !.configs = With(@, k, [server |-> server, cluster |-> form.cluster]),
                                   !.used = @ \cup {k}])
      ELSE IF form.id \notin DOMAIN db.configs THEN Success(db)
      ELSE Success([db EXCEPT !.configs[form.id].server = server])

-----------------------------------------------------------------------------
(* Instances.                                                              *)

\* Nothing asks whether the owner is there.  The name may be taken.
AddInstance(db, owner) ==
  LET i == Unused(db, Instance) IN
  Refused(db) \cup
  IF NoneLeft(db, Instance) THEN {}
  ELSE Success([db EXCEPT !.instances = With(@, i, [owner |-> owner, status |-> TRUE]),
                          !.used = @ \cup {i}])

GetInstance(db, i) ==
  IF i \in DOMAIN db.instances THEN {Outcome(db, db.instances[i].owner)} ELSE Refused(db)

\* A form without an identity, and a row that has gone, are updated without
\* effect; a form without an owner is refused.
UpdateInstance(db, i, owner) ==
  IF owner = None THEN Refused(db)
  ELSE IF i \notin DOMAIN db.instances THEN Success(db)
  ELSE Success([db EXCEPT !.instances[i].owner = owner])

DeleteInstance(db, i) == Success([db EXCEPT !.instances = Without(@, {i})])

\* instanceOperation.
SwitchInstance(db, i, on) ==
  IF i \notin DOMAIN db.instances THEN {Outcome(db, FALSE)}
  ELSE Success([db EXCEPT !.instances[i].status = on])

\* remoteOperation of an instance on a server: a server of a cluster is only
\* asked to release it, others have it switched in the database.
SwitchInstanceOn(db, i, s, on) ==
  IF s \notin DOMAIN db.servers \/ i \notin DOMAIN db.instances THEN {Outcome(db, FALSE)}
  ELSE IF db.servers[s].cluster = None THEN SwitchInstance(db, i, on)
  ELSE IF on THEN Refused(db)
  ELSE {Outcome(db, FALSE), Outcome(db, TRUE)}

\* findActiveInstanceByServerId: for a server of a cluster the rows, whoever
\* owns them and switched off or not, of the names it says it runs; for another
\* all that are its own, running or not.  No list if it does not answer.
ActiveInstances(db, s) ==
  IF s \notin DOMAIN db.servers \/ s \notin db.up THEN {Outcome(db, {})}
  ELSE IF db.servers[s].cluster = None
       THEN {Outcome(db, {[id |-> i, running |-> i \in here] : i \in InstancesOf(db, s)}) :
               here \in SUBSET InstancesOf(db, s)}
       ELSE {Outcome(db, {[id |-> i, running |-> TRUE] : i \in here}) :
               here \in SUBSET DOMAIN db.instances}

=============================================================================
