---------------------------- MODULE Dashboard ------------------------------
(***************************************************************************)
(* The results dashboard of syzygy/dashboard: an App Engine application    *)
(* whose URL routes (main.py) hand requests to ProductHandler              *)
(* (handler/product.py) and DatumHandler (handler/datum.py), over a        *)
(* datastore whose keys are paths product / client / metric / datum.       *)
(*                                                                         *)
(* App Engine serves requests concurrently: every worker runs one request  *)
(* at a time, and each datastore call of a handler (get_by_key_name, a     *)
(* query, put, delete) is one step, so the calls of two requests           *)
(* interleave.  Datastore calls are strongly consistent for keys and for   *)
(* ancestor queries, the only queries a reachable handler path makes.      *)
(*                                                                         *)
(* The ClientHandler and MetricHandler that main.py routes to are not in   *)
(* the repository; the clients and metrics they would create, and products *)
(* written by other means, are put by the Admin steps.  A request is       *)
(* abstracted to its method, its URL path as a sequence of segments, the   *)
(* product_id of a POST body and whether the POST parameters of a datum    *)
(* are present and parse as floats.                                        *)
(***************************************************************************)
EXTENDS Naturals, Sequences, FiniteSets

CONSTANTS
  Products,     \* product ids
  Clients,      \* client ids
  Metrics,      \* metric ids
  Workers,      \* request workers of the application
  MaxRequests,  \* bound on the requests served
  MaxData,      \* bound on the datum ids the datastore allocates
  MaxAdmin,     \* bound on the entities put by other means
  NoId          \* the empty string '' of a missing or empty id

ASSUME DashboardAssumption ==
  /\ NoId \notin Products
  /\ MaxRequests \in Nat /\ MaxData \in Nat /\ MaxAdmin \in Nat

Paths == Products \X Clients \X Metrics
Datum == [id : 1 .. MaxData, path : Paths]

(* The URLs main.py routes to a handler of the repository: "/", "/<p>"     *)
(* and "/<p>/<c>/<m>/data".                                                *)
URLs == {<<>>} \cup {<<p>> : p \in Products}
          \cup {<<p, c, m, "data">> : p \in Products, c \in Clients, m \in Metrics}

(* The requests: GET on every URL, POST and DELETE where a handler         *)
(* defines them.                                                           *)
GetRequests ==
  {[method |-> "GET", path |-> u, body |-> NoId, valid |-> TRUE] : u \in URLs}
ProductWrites ==
  {[method |-> "POST", path |-> <<p>>, body |-> b, valid |-> TRUE] :
     p \in Products, b \in Products \cup {NoId}}
  \cup {[method |-> "DELETE", path |-> <<p>>, body |-> NoId, valid |-> TRUE] :
          p \in Products}
DatumPosts ==
  {[method |-> "POST", path |-> <<p, c, m, "data">>, body |-> NoId, valid |-> v] :
     p \in Products, c \in Clients, m \in Metrics, v \in BOOLEAN}
Requests == GetRequests \cup ProductWrites \cup DatumPosts

Status == {200, 201, 400, 404}

VARIABLES
  products,  \* Product entities, by key name
  clients,   \* Client entities, by key path <<product, client>>
  metrics,   \* Metric entities, by key path <<product, client, metric>>
  data,      \* Datum entities
  nextId,    \* the next datum id the datastore allocates
  admins,    \* entities put by other means so far
  requests,  \* requests served so far
  wpc,       \* wpc[w]: the step of the handler worker w is in
  wreq,      \* wreq[w]: the request worker w serves
  wstatus,   \* wstatus[w]: the status of its response; 0 while running
  wseen,     \* wseen[w]: the ids a GET responded with
  acked,     \* history: the data whose POST was answered 200
  wacked0,   \* history: wacked0[w], acked when worker w took its request
  wexisted   \* history: wexisted[w], the body's product existed then

vars == <<products, clients, metrics, data, nextId, admins, requests, wpc,
          wreq, wstatus, wseen, acked, wacked0, wexisted>>
store == <<products, clients, metrics, data, nextId>>
history == <<acked, wacked0, wexisted>>

(* The routes of main.py, first match: "/" MainHandler, one segment        *)
(* ProductHandler, four segments ending in "data" DatumHandler.            *)
Route(path) ==
  CASE Len(path) = 0 -> "Main"
    [] Len(path) = 1 -> "Product"
    [] OTHER         -> "Datum"

(* The handler method webapp calls for a request, as the first step of     *)
(* its worker.                                                             *)
FirstStep(r) ==
  CASE Route(r.path) = "Main"                          -> "MainGet"
    [] Route(r.path) = "Product" /\ r.method = "GET"    -> "ProductGet"
    [] Route(r.path) = "Product" /\ r.method = "POST"   -> "ProductPost"
    [] Route(r.path) = "Product" /\ r.method = "DELETE" -> "ProductDelete"
    [] Route(r.path) = "Datum" /\ r.method = "GET"      -> "DatumGetProduct"
    [] OTHER                                            -> "DatumPost"

Init ==
  /\ products = {} /\ clients = {} /\ metrics = {} /\ data = {}
  /\ nextId = 1
  /\ admins = 0 /\ requests = 0
  /\ wpc = [w \in Workers |-> "Idle"]
  /\ wreq = [w \in Workers |-> CHOOSE r \in Requests : r.path = <<>>]
  /\ wstatus = [w \in Workers |-> 0]
  /\ wseen = [w \in Workers |-> {}]
  /\ acked = {}
  /\ wacked0 = [w \in Workers |-> {}]
  /\ wexisted = [w \in Workers |-> FALSE]

(* A worker that is free takes the next request.                           *)
Receive(w) ==
  /\ wpc[w] \in {"Idle", "Done"} /\ requests < MaxRequests
  /\ requests' = requests + 1
  /\ \E r \in Requests :
       /\ wreq' = [wreq EXCEPT ![w] = r]
       /\ wpc' = [wpc EXCEPT ![w] = FirstStep(r)]
       /\ wexisted' = [wexisted EXCEPT ![w] = r.body \in products]
  /\ wstatus' = [wstatus EXCEPT ![w] = 0]
  /\ wseen' = [wseen EXCEPT ![w] = {}]
  /\ wacked0' = [wacked0 EXCEPT ![w] = acked]
  /\ UNCHANGED <<products, clients, metrics, data, nextId, admins, acked>>

(* The worker answers with status s and is done.                           *)
Respond(w, s) ==
  /\ wstatus' = [wstatus EXCEPT ![w] = s]
  /\ wpc' = [wpc EXCEPT ![w] = "Done"]

(* The worker goes on to step next of its handler.                         *)
Goto(w, next) == wpc' = [wpc EXCEPT ![w] = next] /\ UNCHANGED wstatus

-----------------------------------------------------------------------------
(* The key names in the URL of the request of worker w.                    *)
ProductId(w) == wreq[w].path[1]
PathOf(w) == <<wreq[w].path[1], wreq[w].path[2], wreq[w].path[3]>>

(* get_by_key_name of level i of the URL's key path finds the entity.      *)
Found(w, i) ==
  LET x == wreq[w].path IN
  CASE i = 1 -> x[1] \in products
    [] i = 2 -> <<x[1], x[2]>> \in clients
    [] OTHER -> <<x[1], x[2], x[3]>> \in metrics

(* MainHandler.get writes its banner.                                      *)
MainGet(w) ==
  /\ wpc[w] = "MainGet"
  /\ Respond(w, 200)
  /\ UNCHANGED <<store, admins, requests, wreq, wseen, history>>

(* Mutant: the return after the 404 is dropped; the ancestor query of a    *)
(* None product raises and App Engine answers 500.                         *)
ProductGetNoReturn(w) ==
  /\ wpc[w] = "ProductGet"
  /\ IF ProductId(w) \in products THEN Goto(w, "ProductClients")
                                  ELSE Respond(w, 500)
  /\ UNCHANGED <<store, admins, requests, wreq, wseen, history>>

(* ProductHandler.get: with no product_id, list the products (no route     *)
(* gives an empty one); otherwise look the product up, 404 if absent.      *)
ProductGet(w) ==
  /\ wpc[w] = "ProductGet"
  /\ IF ProductId(w) = NoId
       THEN wseen' = [wseen EXCEPT ![w] = products] /\ Respond(w, 200)
       ELSE /\ IF ProductId(w) \in products THEN Goto(w, "ProductClients")
                                            ELSE Respond(w, 404)
            /\ UNCHANGED wseen
  /\ UNCHANGED <<store, admins, requests, wreq, history>>

(* ProductHandler.get, then: the keys-only ancestor query of the product's *)
(* clients, answered with their ids.                                       *)
ProductClients(w) ==
  /\ wpc[w] = "ProductClients"
  /\ wseen' = [wseen EXCEPT ![w] = {c \in Clients : <<ProductId(w), c>> \in clients}]
  /\ Respond(w, 200)
  /\ UNCHANGED <<store, admins, requests, wreq, history>>

(* ProductHandler.post: 400 when the URL names a product, when the body    *)
(* has no product_id or when that product exists; else put it, 201.  Only  *)
(* the first branch is reachable through the routes, so the lookup and     *)
(* the put, two datastore calls, are taken as one step here.               *)
ProductPost(w) ==
  /\ wpc[w] = "ProductPost"
  /\ LET b == wreq[w].body IN
       IF ProductId(w) = NoId /\ b # NoId /\ b \notin products
         THEN products' = products \cup {b} /\ Respond(w, 201)
         ELSE UNCHANGED products /\ Respond(w, 400)
  /\ UNCHANGED <<clients, metrics, data, nextId, admins, requests, wreq,
                 wseen, history>>

(* ProductHandler.delete: 400 without a product_id, 404 when the lookup    *)
(* finds no product.                                                       *)
ProductDelete(w) ==
  /\ wpc[w] = "ProductDelete"
  /\ IF ProductId(w) = NoId THEN Respond(w, 400)
     ELSE IF ProductId(w) \in products THEN Goto(w, "ProductDeleteEntity")
     ELSE Respond(w, 404)
  /\ UNCHANGED <<store, admins, requests, wreq, wseen, history>>

(* ProductHandler.delete, then: product.delete() removes the Product       *)
(* entity only; its clients, metrics and data keep their keys.            *)
ProductDeleteEntity(w) ==
  /\ wpc[w] = "ProductDeleteEntity"
  /\ products' = products \ {ProductId(w)}
  /\ Respond(w, 200)
  /\ UNCHANGED <<clients, metrics, data, nextId, admins, requests, wreq,
                 wseen, history>>

GetSteps == <<"DatumGetProduct", "DatumGetClient", "DatumGetMetric">>
PostSteps == <<"DatumPostProduct", "DatumPostClient", "DatumPostMetric">>

(* DatumHandler.get: look up the product, the client under it and the      *)
(* metric under that, one call each, 404 at the first that is absent.      *)
DatumGetLookup(w) ==
  /\ \E i \in 1 .. 3 :
       /\ wpc[w] = GetSteps[i]
       /\ IF Found(w, i)
            THEN Goto(w, IF i < 3 THEN GetSteps[i + 1] ELSE "DatumGetQuery")
            ELSE Respond(w, 404)
  /\ UNCHANGED <<store, admins, requests, wreq, wseen, history>>

(* DatumHandler.get, then: the ancestor query of the metric's data,        *)
(* answered with their ids.                                                *)
DatumGetQuery(w) ==
  /\ wpc[w] = "DatumGetQuery"
  /\ wseen' = [wseen EXCEPT ![w] = {d.id : d \in {e \in data : e.path = PathOf(w)}}]
  /\ Respond(w, 200)
  /\ UNCHANGED <<store, admins, requests, wreq, history>>

(* DatumHandler.post: 400 when a parameter is missing or a value is not a  *)
(* float.                                                                  *)
DatumPost(w) ==
  /\ wpc[w] = "DatumPost"
  /\ IF wreq[w].valid THEN Goto(w, PostSteps[1]) ELSE Respond(w, 400)
  /\ UNCHANGED <<store, admins, requests, wreq, wseen, history>>

(* Mutant: the datum is acknowledged once its metric is found, before it   *)
(* is put.                                                                 *)
DatumPostLookupAckEarly(w) ==
  /\ \E i \in 1 .. 3 :
       /\ wpc[w] = PostSteps[i]
       /\ IF Found(w, i)
            THEN /\ Goto(w, IF i < 3 THEN PostSteps[i + 1] ELSE "DatumPut")
                 /\ acked' = IF i = 3 /\ nextId <= MaxData
                               THEN acked \cup {[id |-> nextId, path |-> PathOf(w)]}
                               ELSE acked
            ELSE Respond(w, 404) /\ UNCHANGED acked
  /\ UNCHANGED <<store, admins, requests, wreq, wseen, wacked0, wexisted>>

(* DatumHandler.post, then: the lookups of DatumHandler.get.               *)
DatumPostLookup(w) ==
  /\ \E i \in 1 .. 3 :
       /\ wpc[w] = PostSteps[i]
       /\ IF Found(w, i)
            THEN Goto(w, IF i < 3 THEN PostSteps[i + 1] ELSE "DatumPut")
            ELSE Respond(w, 404)
  /\ UNCHANGED <<store, admins, requests, wreq, wseen, history>>

(* DatumHandler.post, then: put the datum under the metric; the datastore  *)
(* gives it a fresh id; the response is 200.                               *)
DatumPut(w) ==
  /\ wpc[w] = "DatumPut" /\ nextId <= MaxData
  /\ LET d == [id |-> nextId, path |-> PathOf(w)] IN
       /\ data' = data \cup {d}
       /\ acked' = acked \cup {d}
  /\ nextId' = nextId + 1
  /\ Respond(w, 200)
  /\ UNCHANGED <<products, clients, metrics, admins, requests, wreq, wseen,
                 wacked0, wexisted>>

(* Products, clients and metrics put by other means: the client and metric *)
(* handlers main.py routes to, or the datastore's own tools.  A child is   *)
(* put under a parent that exists.                                         *)
Admin ==
  /\ admins < MaxAdmin
  /\ admins' = admins + 1
  /\ \/ \E p \in Products \ products : products' = products \cup {p}
                                          /\ UNCHANGED <<clients, metrics>>
     \/ \E p \in products, c \in Clients :
          /\ <<p, c>> \notin clients
          /\ clients' = clients \cup {<<p, c>>}
          /\ UNCHANGED <<products, metrics>>
     \/ \E p \in products, c \in Clients, m \in Metrics :
          /\ <<p, c>> \in clients /\ <<p, c, m>> \notin metrics
          /\ metrics' = metrics \cup {<<p, c, m>>}
          /\ UNCHANGED <<products, clients>>
  /\ UNCHANGED <<data, nextId, requests, wpc, wreq, wstatus, wseen, history>>

Worker(w) ==
  \/ Receive(w) \/ MainGet(w)
  \/ ProductGet(w) \/ ProductClients(w) \/ ProductPost(w)
  \/ ProductDelete(w) \/ ProductDeleteEntity(w)
  \/ DatumGetLookup(w) \/ DatumGetQuery(w)
  \/ DatumPost(w) \/ DatumPostLookup(w) \/ DatumPut(w)

Next == Admin \/ \E w \in Workers : Worker(w)

Spec == Init /\ [][Next]_vars

-----------------------------------------------------------------------------
PCs == {"Idle", "Done", "MainGet", "ProductGet", "ProductClients",
        "ProductPost", "ProductDelete", "ProductDeleteEntity",
        "DatumGetQuery", "DatumPost", "DatumPut"}
       \cup {GetSteps[i] : i \in 1 .. 3} \cup {PostSteps[i] : i \in 1 .. 3}

(* Every response a handler gives is one of the statuses the code sets:    *)
(* 200 by default, 201, 400 and 404; an exception escaping a handler would *)
(* be a 500.                                                               *)
TypeOK ==
  /\ products \subseteq Products
  /\ clients \subseteq Products \X Clients
  /\ metrics \subseteq Paths
  /\ data \subseteq Datum /\ acked \subseteq Datum
  /\ nextId \in 1 .. MaxData + 1
  /\ admins \in 0 .. MaxAdmin /\ requests \in 0 .. MaxRequests
  /\ wpc \in [Workers -> PCs]
  /\ wreq \in [Workers -> Requests]
  /\ wstatus \in [Workers -> Status \cup {0}]
  /\ \A w \in Workers : wpc[w] = "Done" => wstatus[w] \in Status
  /\ wseen \in [Workers -> SUBSET (Products \cup Clients \cup 1 .. MaxData)]
  /\ wacked0 \in [Workers -> SUBSET Datum]
  /\ wexisted \in [Workers -> BOOLEAN]

(* Reads see acknowledged writes, whatever the interleaving: a GET of a    *)
(* metric's data that answers 200 lists every datum of that metric whose   *)
(* POST had been answered before the GET arrived (DatumHandler.post puts   *)
(* before it returns; DatumHandler.get's ancestor query is strongly        *)
(* consistent; nothing deletes a datum).                                   *)
ReadAfterAck ==
  \A w \in Workers :
    (/\ wpc[w] = "Done" /\ wstatus[w] = 200
     /\ wreq[w].method = "GET" /\ Route(wreq[w].path) = "Datum")
      => {d.id : d \in {e \in wacked0[w] : e.path = PathOf(w)}} \subseteq wseen[w]

(* The docstring of ProductHandler.post: a POST whose body names a product *)
(* that does not exist creates it and answers 201 Created.                 *)
ProductPostCreates ==
  \A w \in Workers :
    (/\ wpc[w] = "Done" /\ wreq[w].method = "POST"
     /\ Route(wreq[w].path) = "Product"
     /\ wreq[w].body # NoId /\ ~wexisted[w])
      => wstatus[w] = 201

=============================================================================
