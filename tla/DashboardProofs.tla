-------------------------- MODULE DashboardProofs ---------------------------
(***************************************************************************)
(* Proofs about Dashboard: whatever the number of workers, requests and    *)
(* entities, every handler answers with a status the code sets, and a GET  *)
(* of a metric's data sees every datum acknowledged before it began.       *)
(***************************************************************************)
EXTENDS Dashboard, TLAPS

(* The URLs of DatumHandler: "/<p>/<c>/<m>/data".                          *)
DatumURLs == {<<p, c, m, "data">> : p \in Products, c \in Clients, m \in Metrics}

(* The handler steps, by the handler whose method runs them.               *)
ProductPCs == {"ProductGet", "ProductClients", "ProductPost", "ProductDelete",
               "ProductDeleteEntity"}
DatumGetPCs == {"DatumGetProduct", "DatumGetClient", "DatumGetMetric",
                "DatumGetQuery"}
DatumPostPCs == {"DatumPost", "DatumPostProduct", "DatumPostClient",
                 "DatumPostMetric", "DatumPut"}

(* Step s is one that request r reaches: main.py routes r to the handler  *)
(* that runs s, and webapp calls the method of r's method.                 *)
Reaches(s, r) ==
  /\ s = "MainGet" => r.path = <<>>
  /\ s \in ProductPCs => \E p \in Products : r.path = <<p>>
  /\ s \in DatumGetPCs => r.method = "GET" /\ r.path \in DatumURLs
  /\ s \in DatumPostPCs => r.method = "POST" /\ r.path \in DatumURLs

(* A worker runs the handler its request is routed to.                     *)
Dispatched(w) == Reaches(wpc[w], wreq[w])

(* The inductive invariant behind TypeOK and ReadAfterAck: every worker is *)
(* in the handler of its request; an acknowledged datum is stored; what a  *)
(* worker saw acknowledged when it began is still acknowledged.            *)
DInv ==
  /\ TypeOK
  /\ \A w \in Workers : Dispatched(w)
  /\ acked \subseteq data
  /\ \A w \in Workers : wacked0[w] \subseteq acked
  /\ ReadAfterAck

USE DashboardAssumption

-----------------------------------------------------------------------------
(* The routes of main.py tell the three URL shapes apart by their length.  *)
LEMMA RouteOfURL ==
  ASSUME NEW p, NEW c, NEW m
  PROVE  /\ Route(<<>>) = "Main"
         /\ Route(<<p>>) = "Product"
         /\ Route(<<p, c, m, "data">>) = "Datum"
<1>1. Route(<<>>) = "Main"
  BY DEF Route
<1>2. Route(<<p>>) = "Product"
  BY DEF Route
<1>3. Route(<<p, c, m, "data">>) = "Datum"
  BY DEF Route
<1>4. QED
  BY <1>1, <1>2, <1>3

(* The handler method webapp calls, by route and method.                  *)
LEMMA FirstStepOf ==
  ASSUME NEW r
  PROVE  /\ Route(r.path) = "Main" => FirstStep(r) = "MainGet"
         /\ Route(r.path) = "Product" /\ r.method = "GET"
              => FirstStep(r) = "ProductGet"
         /\ Route(r.path) = "Product" /\ r.method = "POST"
              => FirstStep(r) = "ProductPost"
         /\ Route(r.path) = "Product" /\ r.method = "DELETE"
              => FirstStep(r) = "ProductDelete"
         /\ Route(r.path) = "Datum" /\ r.method = "GET"
              => FirstStep(r) = "DatumGetProduct"
         /\ Route(r.path) = "Datum" /\ r.method # "GET"
              => FirstStep(r) = "DatumPost"
<1> DEFINE rt == Route(r.path)
<1>1. rt = "Main" => FirstStep(r) = "MainGet"
  BY DEF FirstStep
<1>2. rt = "Product" /\ r.method = "GET" => FirstStep(r) = "ProductGet"
  BY DEF FirstStep
<1>3. rt = "Product" /\ r.method = "POST" => FirstStep(r) = "ProductPost"
  BY DEF FirstStep
<1>4. rt = "Product" /\ r.method = "DELETE" => FirstStep(r) = "ProductDelete"
  BY DEF FirstStep
<1>5. rt = "Datum" /\ r.method = "GET" => FirstStep(r) = "DatumGetProduct"
  BY DEF FirstStep
<1>6. rt = "Datum" /\ r.method # "GET" => FirstStep(r) = "DatumPost"
  BY DEF FirstStep
<1>7. QED
  BY <1>1, <1>2, <1>3, <1>4, <1>5, <1>6

(* The first step webapp runs for a request is a step of the handler that  *)
(* main.py routes the request to.                                          *)
LEMMA FirstStepReaches ==
  ASSUME NEW r \in Requests
  PROVE  /\ FirstStep(r) \in PCs \ {"Idle", "Done"}
         /\ Reaches(FirstStep(r), r)
<1> USE DEF PCs, GetSteps, PostSteps, Reaches, ProductPCs, DatumGetPCs,
           DatumPostPCs
<1>1. CASE r = [method |-> "GET", path |-> <<>>, body |-> NoId, valid |-> TRUE]
  BY <1>1, RouteOfURL, FirstStepOf
<1>2. CASE \E p \in Products, m \in {"GET", "POST", "DELETE"} :
             r.method = m /\ r.path = <<p>>
  <2>1. PICK p \in Products, m \in {"GET", "POST", "DELETE"} :
          r.method = m /\ r.path = <<p>>
    BY <1>2
  <2>2. Route(r.path) = "Product"
    BY <2>1, RouteOfURL
  <2> QED
    BY <2>1, <2>2, FirstStepOf
<1>3. CASE \E p \in Products, c \in Clients, m \in Metrics,
             x \in {"GET", "POST"} :
             r.method = x /\ r.path = <<p, c, m, "data">>
  <2>1. PICK p \in Products, c \in Clients, m \in Metrics,
             x \in {"GET", "POST"} :
             r.method = x /\ r.path = <<p, c, m, "data">>
    BY <1>3
  <2>2. Route(r.path) = "Datum"
    BY <2>1, RouteOfURL
  <2>3. r.path \in DatumURLs
    BY <2>1 DEF DatumURLs
  <2> QED
    BY <2>1, <2>2, <2>3, FirstStepOf
<1>4. QED
  BY <1>1, <1>2, <1>3 DEF Requests, GetRequests, ProductWrites, DatumPosts, URLs

LEMMA InitDInv == Init => DInv
<1> SUFFICES ASSUME Init PROVE DInv
  OBVIOUS
<1>1. \E r \in Requests : r.path = <<>>
  <2>1. <<>> \in URLs
    BY DEF URLs
  <2> DEFINE home == [method |-> "GET", path |-> <<>>, body |-> NoId, valid |-> TRUE]
  <2>2. home \in {[method |-> "GET", path |-> u, body |-> NoId, valid |-> TRUE] :
                  u \in URLs}
    BY <2>1
  <2>3. home \in Requests
    BY <2>2, Zenon DEF Requests, GetRequests
  <2> QED
    BY <2>3
<1>2. wreq \in [Workers -> Requests]
  BY <1>1 DEF Init
<1>3. QED
  BY <1>2 DEF Init, DInv, TypeOK, PCs, Dispatched, Reaches, ProductPCs,
             DatumGetPCs, DatumPostPCs, ReadAfterAck

-----------------------------------------------------------------------------
(* Every request has a method and a body of those the handlers read.       *)
LEMMA RequestShape ==
  ASSUME NEW r \in Requests
  PROVE  /\ r.body \in Products \cup {NoId}
         /\ r.method \in {"GET", "POST", "DELETE"}
<1>1. CASE r \in GetRequests
  BY <1>1 DEF GetRequests
<1>2. CASE r \in ProductWrites
  BY <1>2 DEF ProductWrites
<1>3. CASE r \in DatumPosts
  BY <1>3 DEF DatumPosts
<1>4. QED
  BY <1>1, <1>2, <1>3 DEF Requests

(* A step of worker w's handler that changes only w's control point,       *)
(* status and answer, and at most which products exist, keeps DInv when   *)
(* w stays in the handler of its request and, if it answers a GET of data  *)
(* with 200, lists what was acknowledged when it began.                    *)
LEMMA WorkerStep ==
  ASSUME DInv, NEW w \in Workers,
         products' \subseteq Products,
         UNCHANGED <<clients, metrics, data, nextId, admins, requests, wreq,
                     acked, wacked0, wexisted>>,
         wpc' \in [Workers -> PCs],
         wstatus' \in [Workers -> Status \cup {0}],
         wseen' \in [Workers -> SUBSET (Products \cup Clients \cup 1 .. MaxData)],
         \A v \in Workers \ {w} : /\ wpc'[v] = wpc[v]
                                  /\ wstatus'[v] = wstatus[v]
                                  /\ wseen'[v] = wseen[v],
         wpc'[w] = "Done" => wstatus'[w] \in Status,
         Reaches(wpc'[w], wreq[w]),
         (/\ wpc'[w] = "Done" /\ wstatus'[w] = 200
          /\ wreq[w].method = "GET" /\ Route(wreq[w].path) = "Datum")
           => {d.id : d \in {e \in wacked0[w] : e.path = PathOf(w)}}
                \subseteq wseen'[w]
  PROVE  DInv'
<1>1. TypeOK'
  BY DEF DInv, TypeOK
<1>2. \A v \in Workers : Dispatched(v)'
  BY DEF DInv, Dispatched
<1>3. ReadAfterAck'
  BY DEF DInv, ReadAfterAck, PathOf
<1>4. QED
  BY <1>1, <1>2, <1>3 DEF DInv

(* A step in which worker w answers with status s: WorkerStep where the   *)
(* worker's new control point is "Done".                                   *)
LEMMA RespondStep ==
  ASSUME DInv, NEW w \in Workers, NEW s \in Status, Respond(w, s),
         NEW seen \in SUBSET (Products \cup Clients \cup 1 .. MaxData),
         wseen' = [wseen EXCEPT ![w] = seen],
         products' \subseteq Products,
         UNCHANGED <<clients, metrics, data, nextId, admins, requests, wreq,
                     acked, wacked0, wexisted>>,
         (s = 200 /\ wreq[w].method = "GET" /\ Route(wreq[w].path) = "Datum")
           => {d.id : d \in {e \in wacked0[w] : e.path = PathOf(w)}} \subseteq seen
  PROVE  DInv'
<1>1. wpc' \in [Workers -> PCs] /\ wstatus' \in [Workers -> Status \cup {0}]
  BY DEF Respond, DInv, TypeOK, PCs
<1>2. wseen' \in [Workers -> SUBSET (Products \cup Clients \cup 1 .. MaxData)]
  BY DEF DInv, TypeOK
<1>3. \A v \in Workers \ {w} : /\ wpc'[v] = wpc[v]
                               /\ wstatus'[v] = wstatus[v]
                               /\ wseen'[v] = wseen[v]
  BY DEF Respond, DInv, TypeOK
<1>4. wpc'[w] = "Done" /\ wstatus'[w] = s /\ wseen'[w] = seen
  BY DEF Respond, DInv, TypeOK
<1>5. Reaches("Done", wreq[w])
  BY DEF Reaches, ProductPCs, DatumGetPCs, DatumPostPCs
<1>6. QED
  BY <1>1, <1>2, <1>3, <1>4, <1>5, WorkerStep

(* A step in which worker w answers with an error status and changes      *)
(* nothing else.                                                           *)
LEMMA RespondError ==
  ASSUME DInv, NEW w \in Workers, NEW s \in Status \ {200}, Respond(w, s),
         products' \subseteq Products,
         UNCHANGED <<clients, metrics, data, nextId, admins, requests, wreq,
                     acked, wacked0, wexisted>>,
         UNCHANGED wseen
  PROVE  DInv'
<1>1. wpc' \in [Workers -> PCs] /\ wstatus' \in [Workers -> Status \cup {0}]
  BY DEF Respond, DInv, TypeOK, PCs
<1>2. wseen' \in [Workers -> SUBSET (Products \cup Clients \cup 1 .. MaxData)]
  BY DEF DInv, TypeOK
<1>3. \A v \in Workers \ {w} : /\ wpc'[v] = wpc[v]
                               /\ wstatus'[v] = wstatus[v]
                               /\ wseen'[v] = wseen[v]
  BY DEF Respond, DInv, TypeOK
<1>4. wpc'[w] = "Done" /\ wstatus'[w] = s /\ s # 200
  BY DEF Respond, DInv, TypeOK
<1>5. Reaches(wpc'[w], wreq[w])
  BY <1>4 DEF Reaches, ProductPCs, DatumGetPCs, DatumPostPCs
<1>6. QED
  BY <1>1, <1>2, <1>3, <1>4, <1>5, WorkerStep

(* A step in which worker w goes on to step s of its handler, with no      *)
(* other change.                                                           *)
LEMMA GotoStep ==
  ASSUME DInv, NEW w \in Workers, NEW s \in PCs \ {"Done"}, Goto(w, s),
         Reaches(s, wreq[w]),
         UNCHANGED <<products, clients, metrics, data, nextId, admins,
                     requests, wreq, wseen, acked, wacked0, wexisted>>
  PROVE  DInv'
<1>1. wpc' \in [Workers -> PCs] /\ wstatus' \in [Workers -> Status \cup {0}]
  BY DEF Goto, DInv, TypeOK
<1>2. wseen' \in [Workers -> SUBSET (Products \cup Clients \cup 1 .. MaxData)]
  BY DEF DInv, TypeOK
<1>3. \A v \in Workers \ {w} : /\ wpc'[v] = wpc[v]
                               /\ wstatus'[v] = wstatus[v]
                               /\ wseen'[v] = wseen[v]
  BY DEF Goto, DInv, TypeOK
<1>4. wpc'[w] = s /\ wpc'[w] # "Done"
  BY DEF Goto, DInv, TypeOK
<1>5. Reaches(wpc'[w], wreq[w])
  BY <1>4
<1>6. products' \subseteq Products
  BY DEF DInv, TypeOK
<1>7. QED
  BY <1>1, <1>2, <1>3, <1>4, <1>5, <1>6, WorkerStep

-----------------------------------------------------------------------------
(* Every step keeps DInv: one case per action of Next.                     *)
LEMMA NextDInv == DInv /\ [Next]_vars => DInv'
<1> SUFFICES ASSUME DInv, [Next]_vars PROVE DInv'
  OBVIOUS
<1>1. CASE Admin
  <2>1. TypeOK'
    <3>1. admins' \in 0 .. MaxAdmin
      BY <1>1 DEF Admin, DInv, TypeOK, history
    <3>2. products' \subseteq Products
      BY <1>1 DEF Admin, DInv, TypeOK
    <3>3. clients' \subseteq Products \X Clients
      <4>1. CASE clients' = clients
        BY <4>1 DEF DInv, TypeOK
      <4>2. CASE \E p \in products, c \in Clients :
                   clients' = clients \cup {<<p, c>>}
        <5>1. PICK p \in products, c \in Clients :
                clients' = clients \cup {<<p, c>>}
          BY <4>2
        <5>2. <<p, c>> \in Products \X Clients
          BY DEF DInv, TypeOK
        <5> QED
          BY <5>1, <5>2 DEF DInv, TypeOK
      <4> QED
        BY <1>1, <4>1, <4>2 DEF Admin
    <3>4. metrics' \subseteq Paths
      <4>1. CASE metrics' = metrics
        BY <4>1 DEF DInv, TypeOK
      <4>2. CASE \E p \in products, c \in Clients, m \in Metrics :
                   metrics' = metrics \cup {<<p, c, m>>}
        <5>1. PICK p \in products, c \in Clients, m \in Metrics :
                metrics' = metrics \cup {<<p, c, m>>}
          BY <4>2
        <5>2. <<p, c, m>> \in Paths
          BY DEF DInv, TypeOK, Paths
        <5> QED
          BY <5>1, <5>2 DEF DInv, TypeOK
      <4> QED
        BY <1>1, <4>1, <4>2 DEF Admin
    <3> QED
      BY <1>1, <3>1, <3>2, <3>3, <3>4 DEF Admin, DInv, TypeOK, history
  <2>2. \A v \in Workers : Dispatched(v)'
    BY <1>1 DEF Admin, DInv, Dispatched, history
  <2>3. ReadAfterAck'
    BY <1>1 DEF Admin, DInv, ReadAfterAck, PathOf, history
  <2> QED
    BY <1>1, <2>1, <2>2, <2>3 DEF Admin, DInv, history
<1>2. ASSUME NEW w \in Workers, Receive(w) PROVE DInv'
  <2>1. PICK r \in Requests :
          /\ wreq' = [wreq EXCEPT ![w] = r]
          /\ wpc' = [wpc EXCEPT ![w] = FirstStep(r)]
          /\ wexisted' = [wexisted EXCEPT ![w] = r.body \in products]
    BY <1>2 DEF Receive
  <2>2. FirstStep(r) \in PCs \ {"Idle", "Done"} /\ Reaches(FirstStep(r), r)
    BY FirstStepReaches
  <2>3. requests' \in 0 .. MaxRequests
    BY <1>2 DEF Receive, DInv, TypeOK
  <2>4. /\ wpc' \in [Workers -> PCs]
        /\ wreq' \in [Workers -> Requests]
        /\ \A v \in Workers : wpc'[v] = "Done" => wstatus'[v] \in Status
    BY <1>2, <2>1, <2>2 DEF Receive, DInv, TypeOK
  <2>5. /\ wstatus' \in [Workers -> Status \cup {0}]
        /\ wseen' \in [Workers -> SUBSET (Products \cup Clients \cup 1 .. MaxData)]
        /\ wacked0' \in [Workers -> SUBSET Datum]
        /\ wexisted' \in [Workers -> BOOLEAN]
    BY <1>2, <2>1 DEF Receive, DInv, TypeOK
  <2>6. TypeOK'
    BY <1>2, <2>3, <2>4, <2>5 DEF Receive, DInv, TypeOK
  <2>7. \A v \in Workers : Dispatched(v)'
    BY <1>2, <2>1, <2>2 DEF Receive, DInv, TypeOK, Dispatched
  <2>8. \A v \in Workers : wacked0'[v] \subseteq acked'
    BY <1>2 DEF Receive, DInv, TypeOK
  <2>9. ReadAfterAck'
    BY <1>2, <2>1, <2>2 DEF Receive, DInv, TypeOK, ReadAfterAck, PathOf
  <2> QED
    BY <1>2, <2>6, <2>7, <2>8, <2>9 DEF Receive, DInv
<1>3. ASSUME NEW w \in Workers, MainGet(w) PROVE DInv'
  <2>1. wreq[w].path = <<>>
    BY <1>3 DEF MainGet, DInv, Dispatched, Reaches
  <2>2. Route(wreq[w].path) # "Datum"
    BY <2>1, RouteOfURL
  <2>3. wseen' = [wseen EXCEPT ![w] = wseen[w]]
        /\ wseen[w] \in SUBSET (Products \cup Clients \cup 1 .. MaxData)
    BY <1>3 DEF MainGet, DInv, TypeOK
  <2>4. /\ products' \subseteq Products
        /\ UNCHANGED <<clients, metrics, data, nextId, admins, requests, wreq,
                       acked, wacked0, wexisted>>
    BY <1>3 DEF MainGet, store, history, DInv, TypeOK
  <2>5. Respond(w, 200) /\ 200 \in Status
    BY <1>3 DEF MainGet, Status
  <2> QED
    BY <2>2, <2>3, <2>4, <2>5, RespondStep
<1>4. ASSUME NEW w \in Workers, ProductGet(w) PROVE DInv'
  <2>1. PICK p \in Products : wreq[w].path = <<p>>
    BY <1>4 DEF ProductGet, DInv, Dispatched, Reaches, ProductPCs
  <2>2. Route(wreq[w].path) # "Datum"
    BY <2>1, RouteOfURL
  <2>3. /\ products' \subseteq Products
        /\ UNCHANGED <<clients, metrics, data, nextId, admins, requests, wreq,
                       acked, wacked0, wexisted>>
    BY <1>4 DEF ProductGet, store, history, DInv, TypeOK
  <2>4. CASE ProductId(w) = NoId
    <3>1. wseen' = [wseen EXCEPT ![w] = products]
          /\ products \in SUBSET (Products \cup Clients \cup 1 .. MaxData)
      BY <1>4, <2>4 DEF ProductGet, DInv, TypeOK
    <3>2. Respond(w, 200) /\ 200 \in Status
      BY <1>4, <2>4 DEF ProductGet, Status
    <3> QED
      BY <2>2, <2>3, <3>1, <3>2, RespondStep
  <2>5. CASE ProductId(w) # NoId /\ ProductId(w) \in products
    <3>1. Reaches("ProductClients", wreq[w])
      BY <2>1 DEF Reaches, ProductPCs, DatumGetPCs, DatumPostPCs
    <3>2. Goto(w, "ProductClients") /\ "ProductClients" \in PCs \ {"Done"}
      BY <1>4, <2>5 DEF ProductGet, PCs
    <3>3. UNCHANGED <<products, wseen>>
      BY <1>4, <2>5 DEF ProductGet, store
    <3> QED
      BY <2>3, <3>1, <3>2, <3>3, GotoStep
  <2>6. CASE ProductId(w) # NoId /\ ProductId(w) \notin products
    <3>1. wseen' = [wseen EXCEPT ![w] = wseen[w]]
          /\ wseen[w] \in SUBSET (Products \cup Clients \cup 1 .. MaxData)
      BY <1>4, <2>6 DEF ProductGet, DInv, TypeOK
    <3>2. Respond(w, 404) /\ 404 \in Status
      BY <1>4, <2>6 DEF ProductGet, Status
    <3> QED
      BY <2>2, <2>3, <3>1, <3>2, RespondStep
  <2> QED
    BY <2>4, <2>5, <2>6
<1>5. ASSUME NEW w \in Workers, ProductClients(w) PROVE DInv'
  <2>1. PICK p \in Products : wreq[w].path = <<p>>
    BY <1>5 DEF ProductClients, DInv, Dispatched, Reaches, ProductPCs
  <2>2. Route(wreq[w].path) # "Datum"
    BY <2>1, RouteOfURL
  <2>3. /\ products' \subseteq Products
        /\ UNCHANGED <<clients, metrics, data, nextId, admins, requests, wreq,
                       acked, wacked0, wexisted>>
    BY <1>5 DEF ProductClients, store, history, DInv, TypeOK
  <2>4. /\ wseen' = [wseen EXCEPT ![w] = {c \in Clients : <<ProductId(w), c>> \in clients}]
        /\ {c \in Clients : <<ProductId(w), c>> \in clients}
             \in SUBSET (Products \cup Clients \cup 1 .. MaxData)
    BY <1>5 DEF ProductClients
  <2>5. Respond(w, 200) /\ 200 \in Status
    BY <1>5 DEF ProductClients, Status
  <2> QED
    BY <2>2, <2>3, <2>4, <2>5, RespondStep
<1>6. ASSUME NEW w \in Workers, ProductPost(w) PROVE DInv'
  <2> DEFINE b == wreq[w].body
  <2>1. PICK p \in Products : wreq[w].path = <<p>>
    BY <1>6 DEF ProductPost, DInv, Dispatched, Reaches, ProductPCs
  <2>2. Route(wreq[w].path) # "Datum"
    BY <2>1, RouteOfURL
  <2>3. b \in Products \cup {NoId}
    BY RequestShape DEF DInv, TypeOK
  <2>4. /\ UNCHANGED <<clients, metrics, data, nextId, admins, requests, wreq,
                       acked, wacked0, wexisted>>
        /\ wseen' = [wseen EXCEPT ![w] = wseen[w]]
        /\ wseen[w] \in SUBSET (Products \cup Clients \cup 1 .. MaxData)
    BY <1>6 DEF ProductPost, history, DInv, TypeOK
  <2>5. CASE ProductId(w) = NoId /\ b # NoId /\ b \notin products
    <3>1. products' \subseteq Products
      BY <1>6, <2>3, <2>5 DEF ProductPost, DInv, TypeOK
    <3>2. Respond(w, 201) /\ 201 \in Status
      BY <1>6, <2>5 DEF ProductPost, Status
    <3> QED
      BY <2>2, <2>4, <3>1, <3>2, RespondStep
  <2>6. CASE ~(ProductId(w) = NoId /\ b # NoId /\ b \notin products)
    <3>1. products' \subseteq Products
      BY <1>6, <2>6 DEF ProductPost, DInv, TypeOK
    <3>2. Respond(w, 400) /\ 400 \in Status
      BY <1>6, <2>6 DEF ProductPost, Status
    <3> QED
      BY <2>2, <2>4, <3>1, <3>2, RespondStep
  <2> QED
    BY <2>5, <2>6
<1>7. ASSUME NEW w \in Workers, ProductDelete(w) PROVE DInv'
  <2>1. PICK p \in Products : wreq[w].path = <<p>>
    BY <1>7 DEF ProductDelete, DInv, Dispatched, Reaches, ProductPCs
  <2>2. Route(wreq[w].path) # "Datum"
    BY <2>1, RouteOfURL
  <2>3. /\ products' \subseteq Products
        /\ UNCHANGED <<clients, metrics, data, nextId, admins, requests, wreq,
                       acked, wacked0, wexisted>>
        /\ wseen' = [wseen EXCEPT ![w] = wseen[w]]
        /\ wseen[w] \in SUBSET (Products \cup Clients \cup 1 .. MaxData)
    BY <1>7 DEF ProductDelete, store, history, DInv, TypeOK
  <2>4. CASE ProductId(w) = NoId
    <3>1. Respond(w, 400) /\ 400 \in Status
      BY <1>7, <2>4 DEF ProductDelete, Status
    <3> QED
      BY <2>2, <2>3, <3>1, RespondStep
  <2>5. CASE ProductId(w) # NoId /\ ProductId(w) \in products
    <3>1. Reaches("ProductDeleteEntity", wreq[w])
      BY <2>1 DEF Reaches, ProductPCs, DatumGetPCs, DatumPostPCs
    <3>2. Goto(w, "ProductDeleteEntity")
          /\ "ProductDeleteEntity" \in PCs \ {"Done"}
      BY <1>7, <2>5 DEF ProductDelete, PCs
    <3>3. UNCHANGED <<products, wseen>>
      BY <1>7 DEF ProductDelete, store
    <3> QED
      BY <2>3, <3>1, <3>2, <3>3, GotoStep
  <2>6. CASE ProductId(w) # NoId /\ ProductId(w) \notin products
    <3>1. Respond(w, 404) /\ 404 \in Status
      BY <1>7, <2>6 DEF ProductDelete, Status
    <3> QED
      BY <2>2, <2>3, <3>1, RespondStep
  <2> QED
    BY <2>4, <2>5, <2>6
<1>8. ASSUME NEW w \in Workers, ProductDeleteEntity(w) PROVE DInv'
  <2>1. PICK p \in Products : wreq[w].path = <<p>>
    BY <1>8 DEF ProductDeleteEntity, DInv, Dispatched, Reaches, ProductPCs
  <2>2. Route(wreq[w].path) # "Datum"
    BY <2>1, RouteOfURL
  <2>3. /\ products' \subseteq Products
        /\ UNCHANGED <<clients, metrics, data, nextId, admins, requests, wreq,
                       acked, wacked0, wexisted>>
        /\ wseen' = [wseen EXCEPT ![w] = wseen[w]]
        /\ wseen[w] \in SUBSET (Products \cup Clients \cup 1 .. MaxData)
    BY <1>8 DEF ProductDeleteEntity, history, DInv, TypeOK
  <2>4. Respond(w, 200) /\ 200 \in Status
    BY <1>8 DEF ProductDeleteEntity, Status
  <2> QED
    BY <2>2, <2>3, <2>4, RespondStep
<1>9. ASSUME NEW w \in Workers, DatumGetLookup(w) PROVE DInv'
  <2>1. PICK i \in 1 .. 3 :
          /\ wpc[w] = GetSteps[i]
          /\ IF Found(w, i)
               THEN Goto(w, IF i < 3 THEN GetSteps[i + 1] ELSE "DatumGetQuery")
               ELSE Respond(w, 404)
    BY <1>9 DEF DatumGetLookup
  <2>2. wreq[w].method = "GET" /\ wreq[w].path \in DatumURLs
    BY <2>1 DEF DInv, Dispatched, Reaches, DatumGetPCs, GetSteps
  <2>3. /\ UNCHANGED <<products, wseen>>
        /\ UNCHANGED <<clients, metrics, data, nextId, admins, requests, wreq,
                       acked, wacked0, wexisted>>
        /\ products' \subseteq Products
        /\ wseen' = [wseen EXCEPT ![w] = wseen[w]]
        /\ wseen[w] \in SUBSET (Products \cup Clients \cup 1 .. MaxData)
    BY <1>9 DEF DatumGetLookup, store, history, DInv, TypeOK
  <2>4. CASE Found(w, i)
    <3> DEFINE nxt == IF i < 3 THEN GetSteps[i + 1] ELSE "DatumGetQuery"
    <3>1. nxt \in DatumGetPCs
      BY DEF GetSteps, DatumGetPCs
    <3>2. Reaches(nxt, wreq[w])
      BY <2>2, <3>1 DEF Reaches, ProductPCs, DatumGetPCs, DatumPostPCs
    <3>3. Goto(w, nxt) /\ nxt \in PCs \ {"Done"}
      BY <2>1, <2>4, <3>1 DEF PCs, DatumGetPCs, GetSteps
    <3> QED
      BY <2>3, <3>2, <3>3, GotoStep
  <2>5. CASE ~Found(w, i)
    <3>1. Respond(w, 404) /\ 404 \in Status \ {200}
      BY <2>1, <2>5 DEF Status
    <3> QED
      BY <2>3, <3>1, RespondError
  <2> QED
    BY <2>4, <2>5
<1>10. ASSUME NEW w \in Workers, DatumGetQuery(w) PROVE DInv'
  <2> DEFINE ids == {d.id : d \in {e \in data : e.path = PathOf(w)}}
  <2>1. /\ products' \subseteq Products
        /\ UNCHANGED <<clients, metrics, data, nextId, admins, requests, wreq,
                       acked, wacked0, wexisted>>
    BY <1>10 DEF DatumGetQuery, store, history, DInv, TypeOK
  <2>2. ids \in SUBSET (Products \cup Clients \cup 1 .. MaxData)
    BY DEF DInv, TypeOK, Datum
  <2>3. wseen' = [wseen EXCEPT ![w] = ids]
    BY <1>10 DEF DatumGetQuery
  <2>4. (200 = 200 /\ wreq[w].method = "GET" /\ Route(wreq[w].path) = "Datum")
          => {d.id : d \in {e \in wacked0[w] : e.path = PathOf(w)}} \subseteq ids
    BY DEF DInv
  <2>5. Respond(w, 200) /\ 200 \in Status
    BY <1>10 DEF DatumGetQuery, Status
  <2> HIDE DEF ids
  <2> QED
    BY <2>1, <2>2, <2>3, <2>4, <2>5, RespondStep
<1>11. ASSUME NEW w \in Workers, DatumPost(w) PROVE DInv'
  <2>1. wreq[w].method = "POST" /\ wreq[w].path \in DatumURLs
    BY <1>11 DEF DatumPost, DInv, Dispatched, Reaches, DatumPostPCs
  <2>2. /\ UNCHANGED <<products, wseen>>
        /\ UNCHANGED <<clients, metrics, data, nextId, admins, requests, wreq,
                       acked, wacked0, wexisted>>
        /\ products' \subseteq Products
        /\ wseen' = [wseen EXCEPT ![w] = wseen[w]]
        /\ wseen[w] \in SUBSET (Products \cup Clients \cup 1 .. MaxData)
    BY <1>11 DEF DatumPost, store, history, DInv, TypeOK
  <2>3. CASE wreq[w].valid
    <3>1. Reaches(PostSteps[1], wreq[w])
      BY <2>1 DEF Reaches, ProductPCs, DatumGetPCs, DatumPostPCs, PostSteps
    <3>2. Goto(w, PostSteps[1]) /\ PostSteps[1] \in PCs \ {"Done"}
      BY <1>11, <2>3 DEF DatumPost, PCs, PostSteps
    <3> QED
      BY <2>2, <3>1, <3>2, GotoStep
  <2>4. CASE ~wreq[w].valid
    <3>1. Respond(w, 400) /\ 400 \in Status \ {200}
      BY <1>11, <2>4 DEF DatumPost, Status
    <3> QED
      BY <2>2, <3>1, RespondError
  <2> QED
    BY <2>3, <2>4
<1>12. ASSUME NEW w \in Workers, DatumPostLookup(w) PROVE DInv'
  <2>1. PICK i \in 1 .. 3 :
          /\ wpc[w] = PostSteps[i]
          /\ IF Found(w, i)
               THEN Goto(w, IF i < 3 THEN PostSteps[i + 1] ELSE "DatumPut")
               ELSE Respond(w, 404)
    BY <1>12 DEF DatumPostLookup
  <2>2. wreq[w].method = "POST" /\ wreq[w].path \in DatumURLs
    BY <2>1 DEF DInv, Dispatched, Reaches, DatumPostPCs, PostSteps
  <2>3. /\ UNCHANGED <<products, wseen>>
        /\ UNCHANGED <<clients, metrics, data, nextId, admins, requests, wreq,
                       acked, wacked0, wexisted>>
        /\ products' \subseteq Products
        /\ wseen' = [wseen EXCEPT ![w] = wseen[w]]
        /\ wseen[w] \in SUBSET (Products \cup Clients \cup 1 .. MaxData)
    BY <1>12 DEF DatumPostLookup, store, history, DInv, TypeOK
  <2>4. CASE Found(w, i)
    <3> DEFINE nxt == IF i < 3 THEN PostSteps[i + 1] ELSE "DatumPut"
    <3>1. nxt \in DatumPostPCs
      BY DEF PostSteps, DatumPostPCs
    <3>2. Reaches(nxt, wreq[w])
      BY <2>2, <3>1 DEF Reaches, ProductPCs, DatumGetPCs, DatumPostPCs
    <3>3. Goto(w, nxt) /\ nxt \in PCs \ {"Done"}
      BY <2>1, <2>4, <3>1 DEF PCs, DatumPostPCs, PostSteps
    <3> QED
      BY <2>3, <3>2, <3>3, GotoStep
  <2>5. CASE ~Found(w, i)
    <3>1. Respond(w, 404) /\ 404 \in Status \ {200}
      BY <2>1, <2>5 DEF Status
    <3> QED
      BY <2>3, <3>1, RespondError
  <2> QED
    BY <2>4, <2>5
<1>13. ASSUME NEW w \in Workers, DatumPut(w) PROVE DInv'
  <2> DEFINE d == [id |-> nextId, path |-> PathOf(w)]
  <2>1. wreq[w].method = "POST" /\ wreq[w].path \in DatumURLs
    BY <1>13 DEF DatumPut, DInv, Dispatched, Reaches, DatumPostPCs
  <2>2. PathOf(w) \in Paths
    <3>1. PICK p \in Products, c \in Clients, m \in Metrics :
            wreq[w].path = <<p, c, m, "data">>
      BY <2>1 DEF DatumURLs
    <3> QED
      BY <3>1 DEF PathOf, Paths
  <2>3. d \in Datum
    BY <1>13, <2>2 DEF DatumPut, DInv, TypeOK, Datum
  <2>4. /\ data' = data \cup {d} /\ acked' = acked \cup {d}
        /\ nextId' = nextId + 1
        /\ Respond(w, 200)
        /\ UNCHANGED <<products, clients, metrics, admins, requests, wreq,
                       wseen, wacked0, wexisted>>
    BY <1>13 DEF DatumPut
  <2>5. TypeOK'
    <3>1. data' \subseteq Datum /\ acked' \subseteq Datum
      BY <2>3, <2>4 DEF DInv, TypeOK
    <3>2. nextId' \in 1 .. MaxData + 1
      BY <1>13, <2>4 DEF DatumPut, DInv, TypeOK
    <3>3. wpc' \in [Workers -> PCs] /\ wstatus' \in [Workers -> Status \cup {0}]
          /\ \A v \in Workers : wpc'[v] = "Done" => wstatus'[v] \in Status
      BY <2>4 DEF Respond, DInv, TypeOK, PCs, Status
    <3> QED
      BY <2>4, <3>1, <3>2, <3>3 DEF DInv, TypeOK
  <2>6. \A v \in Workers : Dispatched(v)'
    BY <2>4 DEF Respond, DInv, TypeOK, Dispatched, Reaches, ProductPCs,
       DatumGetPCs, DatumPostPCs
  <2>7. (acked \subseteq data)' /\ \A v \in Workers : wacked0'[v] \subseteq acked'
    BY <2>4 DEF DInv
  <2>8. ReadAfterAck'
    BY <2>1, <2>4 DEF Respond, DInv, TypeOK, ReadAfterAck, PathOf
  <2> QED
    BY <2>5, <2>6, <2>7, <2>8 DEF DInv
<1>14. CASE UNCHANGED vars
  <2>1. TypeOK'
    BY <1>14 DEF vars, DInv, TypeOK
  <2>2. \A v \in Workers : Dispatched(v)'
    BY <1>14 DEF vars, DInv, Dispatched
  <2>3. (acked \subseteq data)' /\ \A v \in Workers : wacked0'[v] \subseteq acked'
    BY <1>14 DEF vars, DInv
  <2>4. ReadAfterAck'
    BY <1>14 DEF vars, DInv, ReadAfterAck, PathOf
  <2> QED
    BY <2>1, <2>2, <2>3, <2>4 DEF DInv
<1>15. QED
  BY <1>1, <1>2, <1>3, <1>4, <1>5, <1>6, <1>7, <1>8, <1>9, <1>10, <1>11,
     <1>12, <1>13, <1>14 DEF Next, Worker

(* DInv holds in every state of every behaviour of the dashboard.          *)
THEOREM DInvariant == Spec => []DInv
BY InitDInv, NextDInv, PTL DEF Spec

(* Every response of ProductHandler, DatumHandler and MainHandler, for any *)
(* number of workers, requests and entities, has a status the code sets:   *)
(* no interleaving of requests makes a handler raise.                      *)
THEOREM TypeCorrect == Spec => []TypeOK
BY DInvariant, PTL DEF DInv

(* Reads see acknowledged writes for any number of concurrent workers: a   *)
(* GET by DatumHandler.get that answers 200 lists every datum whose POST   *)
(* DatumHandler.post answered before the GET arrived.                      *)
THEOREM ReadAfterAckHolds == Spec => []ReadAfterAck
BY DInvariant, PTL DEF DInv

=============================================================================
