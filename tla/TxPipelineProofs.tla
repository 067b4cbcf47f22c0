-------------------------- MODULE TxPipelineProofs --------------------------
(***************************************************************************)
(* The safety of the write path, for any number of workers, hashes, keys,  *)
(* organizations, crashes and failed operations.                           *)
(***************************************************************************)
EXTENDS TxPipeline, SqlStoreProofs

-----------------------------------------------------------------------------
(* The inductive invariant, part by part. *)

Busy(w) == worker[w].pc # "idle"

(* Current keys were issued to the integrator that has them. *)
KeysIssued == \A i \in integrators : keyOwner[i.key] = i.id

(* A request came from an integrator that owns the account it is about. *)
Owned(req) ==
  /\ keyOwner[req.key] # Nil
  /\ accountTx[req.addr] # Nil
  /\ keyOwner[accountTx[req.addr]] = keyOwner[req.key]

(* It has its organization in the database unless its key is stale. *)
HasTarget(req) ==
  /\ req.type # "createOrganization"
  /\ GetIntegratorByKey(req.key) # {}
  => GetOrganization(req.key, req.addr) # {} \/ req.addr \in removed

RequestsOwned ==
  /\ \A w \in Workers : Busy(w) => Owned(worker[w].req)
  /\ \A h \in Hashes : kvTx[h] # Nil => Owned(kvTx[h].body)

RequestsHaveTarget ==
  /\ \A w \in Workers : Busy(w) => HasTarget(worker[w].req)
  /\ \A h \in Hashes : kvTx[h] # Nil => HasTarget(kvTx[h].body)

(* A process id is one worker's until a gateway has it. *)
ProcessesKnown ==
  /\ \A w \in Workers :
       Busy(w) /\ worker[w].req.type = "createElection" =>
         IF worker[w].pc = "authorized"
           THEN /\ processTx[worker[w].req.pid] = Nil
                /\ \A v \in Workers :
                     /\ v # w
                     /\ Busy(v)
                     /\ worker[v].req.type = "createElection"
                     => worker[v].req.pid # worker[w].req.pid
           ELSE processTx[worker[w].req.pid] = worker[w].req.addr
  /\ \A h \in Hashes :
       kvTx[h] # Nil /\ kvTx[h].body.type = "createElection" =>
         processTx[kvTx[h].body.pid] = kvTx[h].body.addr

(* The hash of a timed request is its own and unused. *)
HashesDrawn ==
  /\ \A w \in Workers :
       worker[w].pc = "timed" =>
         /\ kvTx[worker[w].hash] = Nil
         /\ fate[worker[w].hash] = "none"
         /\ worker[w].hash \notin issued
         /\ \A v \in Workers :
              worker[v].pc = "timed" /\ v # w => worker[v].hash # worker[w].hash
  /\ \A h \in issued : fate[h] = "none" => kvTime[h] # Nil

(* What the histories say of the cache, and where the monitor is. *)
CacheAgrees ==
  /\ \A h \in Hashes : kvTx[h] # Nil => cached[h] = kvTx[h].body /\ fate[h] # "none"
  /\ \A h \in Hashes : fate[h] = "pending" => kvTx[h] # Nil
  /\ \A h \in Hashes : fate[h] # "none" => cached[h] # Nil
  /\ todo \subseteq Pending
  /\ cur # Nil => cur \in todo /\ fate[cur] \in {"committed", "failed"}

(* An account is carried to the database by one request, then one hash. *)
Creating(w, a) ==
  Busy(w) /\ worker[w].req.type = "createOrganization" /\ worker[w].req.addr = a
Caching(h, a) ==
  kvTx[h] # Nil /\ kvTx[h].body.type = "createOrganization" /\ kvTx[h].body.addr = a

OneCarrier ==
  /\ \A a \in removed : accountTx[a] # Nil
  /\ \A w \in Workers, a \in Addrs :
       Creating(w, a) =>
         /\ ~HasRow(a) /\ a \notin removed
         /\ \A v \in Workers : v # w => ~Creating(v, a)
         /\ \A h \in Hashes : ~Caching(h, a)
  /\ \A h \in Hashes, a \in Addrs :
       Caching(h, a) =>
         /\ \A g \in Hashes : g # h => ~Caching(g, a)
         /\ fate[h] = "pending" => ~HasRow(a) /\ a \notin removed

(* Without a failure nothing that was tried waits to be tried again. *)
ReplayNeedsFailure ==
  crashes = 0 /\ faults = 0 =>
    \A h \in Hashes : kvTx[h] # Nil => fate[h] = "pending" \/ h = cur

IInv ==
  /\ TypeOK
  /\ SqlIntegrity
  /\ KeysIssued
  /\ RequestsOwned
  /\ RequestsHaveTarget
  /\ ProcessesKnown
  /\ HashesDrawn
  /\ CacheAgrees
  /\ OneCarrier
  /\ ReplayNeedsFailure
  /\ RowsWereAccepted
  /\ ElectionUnderItsKey
  /\ CommittedIsVisible

-----------------------------------------------------------------------------
(* Every step is a statement of the store, or does not touch it. *)

LEMMA CommitIsStatement ==
  ASSUME NEW body \in TxBody, Commit(body)
  PROVE  SqlNext
<1>1. CASE body.type = "createOrganization"
  <2>1. body \in CreateOrganizationTx
    BY <1>1 DEF TxBody, CreateOrganizationTx, UpdateOrganizationTx, CreateElectionTx
  <2>2. CreateOrganization(body.key, body.addr, body.cipher, Nil, Empty, body.token, body.uri)
    BY <1>1 DEF Commit
  <2>3. QED  BY <2>1, <2>2, CacheConstants DEF CreateOrganizationTx, OrganizationStatement, SqlNext
<1>2. CASE body.type = "updateOrganization"
  <2>1. body \in UpdateOrganizationTx
    BY <1>2 DEF TxBody, CreateOrganizationTx, UpdateOrganizationTx, CreateElectionTx
  <2>2. UpdateOrganization(body.key, body.addr, body.uri)
    BY <1>2 DEF Commit
  <2>3. QED  BY <2>1, <2>2 DEF UpdateOrganizationTx, OrganizationStatement, SqlNext
<1>3. CASE body.type = "createElection"
  <2>1. body \in CreateElectionTx
    BY <1>3 DEF TxBody, CreateOrganizationTx, UpdateOrganizationTx, CreateElectionTx
  <2>2. CreateElection(body.key, body.addr, body.pid)
    BY <1>3 DEF Commit
  <2>3. QED  BY <2>1, <2>2 DEF CreateElectionTx, ElectionStatement, SqlNext
<1>4. QED  BY <1>1, <1>2, <1>3 DEF Commit

LEMMA AdminIsStatement == Admin => SqlNext
BY DEF Admin, AdminCreateIntegrator, AdminUpdateIntegrator, AdminResetIntegratorKey,
       AdminDeleteIntegrator, IntegratorStatement, SqlNext

LEMMA HandlerStatement ==
  ASSUME TypeOK, NEW w \in Workers, Handler(w)
  PROVE  [SqlNext]_sqlVars
<1>1. CASE RemoveOrganization(w)
  <2>1. /\ worker[w].req.type = "deleteOrganization"
        /\ DeleteOrganization(worker[w].req.key, worker[w].req.addr)
        /\ worker[w].pc = "authorized"
    BY <1>1 DEF RemoveOrganization
  <2>2. worker[w].req \in DeleteOrganizationRequest
    BY <2>1 DEF TypeOK, WorkerState, Idle, Requests, TxBody, CreateOrganizationTx,
         UpdateOrganizationTx, CreateElectionTx, SetProcessStatusRequest,
         DeleteOrganizationRequest
  <2>3. QED  BY <2>1, <2>2 DEF DeleteOrganizationRequest, OrganizationStatement, SqlNext
<1>2. ASSUME ~RemoveOrganization(w) PROVE UNCHANGED sqlVars
  BY <1>2 DEF Handler, SubmitOrganization, Authorize, Submit, Refuse, LoseAnswer, StoreTime,
       Enqueue, EnqueueFails
<1>3. QED  BY <1>1, <1>2

LEMMA MonitorStatement ==
  ASSUME TypeOK, CacheAgrees, Monitor
  PROVE  [SqlNext]_sqlVars
<1>1. ASSUME NEW h \in Hashes, CommitVisited(h)
      PROVE  [SqlNext]_sqlVars
  <2>1. kvTx[h] \in SerializableTx
    BY <1>1 DEF CommitVisited, CacheAgrees, Pending, TypeOK, KvTypeOK
  <2>2. Decode(kvTx[h]).body \in TxBody
    BY <2>1 DEF Decode, SerializableTx
  <2>3. QED  BY <1>1, <2>2, CommitIsStatement DEF CommitVisited
<1>2. QED  BY <1>1 DEF Monitor, BeginIteration, DeleteVisited

(* The write path implements the store. *)
LEMMA PipelineStatement ==
  ASSUME TypeOK, CacheAgrees, [Next]_vars
  PROVE  [SqlNext]_sqlVars
<1>1. ASSUME NEW k \in Keys, NEW a \in Addrs, NEW token \in Tokens,
             ResetOrganizationKey(k, a, token)
      PROVE  SqlNext
  BY <1>1 DEF ResetOrganizationKey, OrganizationStatement, SqlNext
<1>2. CASE UNCHANGED vars
  BY <1>2 DEF vars
<1>3. QED  BY <1>1, <1>2, AdminIsStatement, HandlerStatement, MonitorStatement
              DEF Next, ConfirmTx, Tick, Crash
-----------------------------------------------------------------------------
(* Types *)

(* The type invariant without the store's part. *)
RestTypeOK ==
  /\ KvTypeOK
  /\ worker \in [Workers -> WorkerState]
  /\ todo \subseteq Hashes
  /\ cur \in Hashes \cup {Nil}
  /\ accountTx \in [Addrs -> Keys \cup {Nil}]
  /\ processTx \in [Pids -> Addrs \cup {Nil}]
  /\ keyOwner \in [Keys -> Ids \cup {Nil}]
  /\ issued \subseteq Hashes
  /\ confirmed \subseteq Hashes
  /\ cached \in [Hashes -> TxBody \cup {Nil}]
  /\ fate \in [Hashes -> Fates]
  /\ removed \subseteq Addrs
  /\ crashes \in Nat
  /\ faults \in Nat

LEMMA AdminType ==
  ASSUME TypeOK, Admin
  PROVE  RestTypeOK'
<1> USE DEF TypeOK, RestTypeOK, KvTypeOK, AdminUnchanged, kvVars, monitorVars, gatewayVars,
            clientVars, txVars, bounds
<1>1. ASSUME NEW id \in Ids, NEW k \in Keys, NEW email \in Emails, NEW profile \in Profiles,
             AdminCreateIntegrator(id, k, email, profile)
      PROVE  RestTypeOK'
  BY <1>1 DEF AdminCreateIntegrator
<1>2. ASSUME NEW id \in Ids, NEW profile \in Profiles, AdminUpdateIntegrator(id, profile)
      PROVE  RestTypeOK'
  BY <1>2 DEF AdminUpdateIntegrator
<1>3. ASSUME NEW id \in Ids, NEW k \in Keys, AdminResetIntegratorKey(id, k)
      PROVE  RestTypeOK'
  BY <1>3 DEF AdminResetIntegratorKey
<1>4. ASSUME NEW id \in Ids, AdminDeleteIntegrator(id)
      PROVE  RestTypeOK'
  BY <1>4 DEF AdminDeleteIntegrator, SqlTypeOK, OrganizationRow
<1>5. QED  BY <1>1, <1>2, <1>3, <1>4 DEF Admin

LEMMA HandlerType ==
  ASSUME TypeOK, NEW w \in Workers, Handler(w)
  PROVE  RestTypeOK'
<1> USE DEF TypeOK, RestTypeOK, KvTypeOK, HandlerUnchanged, Become, kvVars, monitorVars,
            gatewayVars, clientVars, txVars
<1>1. ASSUME NEW req \in CreateOrganizationTx, SubmitOrganization(w, req)
      PROVE  RestTypeOK'
  BY <1>1 DEF SubmitOrganization, WorkerState, TxBody, CreateOrganizationTx
<1>2. ASSUME NEW req \in Requests, Authorize(w, req)
      PROVE  RestTypeOK'
  BY <1>2 DEF Authorize, WorkerState
<1>3. CASE Submit(w)
  BY <1>3 DEF Submit, WorkerState, Idle, Requests, TxBody, CreateOrganizationTx,
       UpdateOrganizationTx, CreateElectionTx, SetProcessStatusRequest,
       DeleteOrganizationRequest
<1>4. CASE Refuse(w) \/ LoseAnswer(w) \/ EnqueueFails(w)
  BY <1>4 DEF Refuse, LoseAnswer, EnqueueFails, WorkerState
<1>5. ASSUME NEW h \in Hashes, StoreTime(w, h)
      PROVE  RestTypeOK'
  <2>1. 0 \in Ages
    BY CacheConstants DEF Ages, Old
  <2>2. /\ kvTx' = kvTx
        /\ kvTime' \in [Hashes -> Ages \cup {Nil}]
        /\ faults' \in Nat
    BY <1>5, <2>1 DEF StoreTime, StoreTxTime
  <2>3. worker[w].pc = "submitted" /\ worker[w].req \in TxBody \cup SetProcessStatusRequest
    BY <1>5 DEF StoreTime, WorkerState, Idle
  <2>4. worker[w].req.type # "setProcessStatus" => worker[w].req \in TxBody
    BY <2>3 DEF SetProcessStatusRequest
  <2>5. worker' \in [Workers -> WorkerState]
    BY <1>5, <2>3, <2>4 DEF StoreTime, WorkerState
  <2>6. issued' \subseteq Hashes
    BY <1>5 DEF StoreTime
  <2>7. QED  BY <1>5, <2>2, <2>5, <2>6 DEF StoreTime
<1>6. CASE Enqueue(w)
  <2>1. worker[w].req \in TxBody /\ worker[w].hash \in Hashes
    BY <1>6 DEF Enqueue, WorkerState, Idle
  <2>2. [body |-> worker[w].req, age |-> 0] \in SerializableTx
    BY <2>1, CacheConstants DEF SerializableTx, Ages, Old
  <2>3. kvTx' \in [Hashes -> SerializableTx \cup {Nil}]
    BY <1>6, <2>1, <2>2 DEF Enqueue, StoreTx
  <2>4. worker' \in [Workers -> WorkerState]
    BY <1>6 DEF Enqueue, WorkerState
  <2>5. cached' \in [Hashes -> TxBody \cup {Nil}] /\ fate' \in [Hashes -> Fates]
    BY <1>6, <2>1 DEF Enqueue, Fates
  <2>6. issued' \subseteq Hashes
    BY <1>6, <2>1 DEF Enqueue
  <2>7. QED  BY <1>6, <2>3, <2>4, <2>5, <2>6 DEF Enqueue
<1>7. CASE RemoveOrganization(w)
  BY <1>7 DEF RemoveOrganization, WorkerState, DeleteOrganization, GetOrganization,
       SqlTypeOK, OrganizationRow
<1>8. QED  BY <1>1, <1>2, <1>3, <1>4, <1>5, <1>6, <1>7 DEF Handler

LEMMA MonitorType ==
  ASSUME TypeOK, CacheAgrees, Monitor
  PROVE  RestTypeOK'
<1> USE DEF TypeOK, RestTypeOK, KvTypeOK, MonitorUnchanged, kvVars, gatewayVars, clientVars
<1>1. CASE BeginIteration
  BY <1>1 DEF BeginIteration, Pending
<1>2. ASSUME NEW h \in Hashes, CommitVisited(h)
      PROVE  RestTypeOK'
  BY <1>2 DEF CommitVisited, Failed, Fates
<1>3. CASE DeleteVisited
  BY <1>3 DEF DeleteVisited, DeleteTx
<1>4. QED  BY <1>1, <1>2, <1>3 DEF Monitor

LEMMA TickType ==
  ASSUME TypeOK, Tick
  PROVE  RestTypeOK'
<1>1. \A age \in Ages : Older(age) \in Ages
  BY CacheConstants DEF Ages, Old, Older
<1>2. KvTypeOK'
  BY <1>1 DEF Tick, Age, TypeOK, KvTypeOK, SerializableTx
<1>3. QED  BY <1>2 DEF Tick, TypeOK, RestTypeOK, monitorVars, gatewayVars, clientVars, txVars, bounds

LEMMA TypeStep ==
  ASSUME TypeOK, SqlIntegrity, CacheAgrees, [Next]_vars
  PROVE  TypeOK' /\ SqlIntegrity'
<1>1. SqlTypeOK' /\ SqlIntegrity'
  BY PipelineStatement, StatementIntegrity DEF TypeOK
<1> USE DEF TypeOK, RestTypeOK, KvTypeOK
<1>2. ASSUME NEW k \in Keys, NEW a \in Addrs, NEW token \in Tokens,
             ResetOrganizationKey(k, a, token)
      PROVE  RestTypeOK'
  BY <1>2 DEF ResetOrganizationKey, HandlerUnchanged, kvVars, monitorVars, gatewayVars, clientVars, txVars
<1>3. ASSUME NEW h \in Hashes, ConfirmTx(h)
      PROVE  RestTypeOK'
  BY <1>3 DEF ConfirmTx, kvVars, monitorVars, gatewayVars, txVars, bounds
<1>4. ASSUME Crash
      PROVE  RestTypeOK'
  <2>1. worker' \in [Workers -> WorkerState]
    BY <1>4 DEF Crash, WorkerState
  <2>2. /\ UNCHANGED <<kvTx, kvTime, accountTx, processTx, keyOwner, issued, confirmed>>
        /\ UNCHANGED <<cached, fate, removed, faults>>
        /\ todo' = {} /\ cur' = Nil /\ crashes' = crashes + 1
    BY <1>4 DEF Crash, kvVars, gatewayVars, clientVars, txVars
  <2>3. QED  BY <2>1, <2>2
<1>5. ASSUME UNCHANGED vars
      PROVE  RestTypeOK'
  <2>1. /\ UNCHANGED <<kvTx, kvTime, worker, todo, cur, accountTx, processTx, keyOwner>>
        /\ UNCHANGED <<issued, confirmed, cached, fate, removed, crashes, faults>>
    BY <1>5 DEF vars, kvVars, monitorVars, gatewayVars, clientVars, txVars, bounds
  <2>2. QED  BY <2>1
<1>6. RestTypeOK'
  BY <1>2, <1>3, <1>4, <1>5, AdminType, HandlerType, MonitorType, TickType DEF Next
<1>7. QED  BY <1>1, <1>6

-----------------------------------------------------------------------------
(* What a step can do to a worker, a cache entry, a history. *)

LEMMA WorkerSteps ==
  ASSUME TypeOK, [Next]_vars, NEW w \in Workers
  PROVE  \/ worker'[w] = worker[w]
         \/ worker'[w] = Idle
         \/ \E req \in CreateOrganizationTx :
              SubmitOrganization(w, req) /\ worker'[w] = [pc |-> "submitted", req |-> req]
         \/ \E req \in Requests \ CreateOrganizationTx :
              Authorize(w, req) /\ worker'[w] = [pc |-> "authorized", req |-> req]
         \/ Submit(w) /\ worker'[w] = [pc |-> "submitted", req |-> worker[w].req]
         \/ \E h \in Hashes :
              /\ StoreTime(w, h)
              /\ worker[w].req.type # "setProcessStatus"
              /\ worker'[w] = [pc |-> "timed", req |-> worker[w].req, hash |-> h]
<1> USE DEF Become
<1>1. worker \in [Workers -> WorkerState]
  BY DEF TypeOK
<1>2. ASSUME NEW v \in Workers, Handler(v), v # w
      PROVE  worker'[w] = worker[w]
  BY <1>1, <1>2 DEF Handler, SubmitOrganization, Authorize, Submit, Refuse, LoseAnswer,
       StoreTime, Enqueue, EnqueueFails, RemoveOrganization
<1>3. ASSUME Refuse(w) \/ LoseAnswer(w) \/ Enqueue(w) \/ EnqueueFails(w) \/ RemoveOrganization(w)
      PROVE  worker'[w] = Idle
  BY <1>1, <1>3 DEF Refuse, LoseAnswer, Enqueue, EnqueueFails, RemoveOrganization
<1>4. ASSUME NEW req \in CreateOrganizationTx, SubmitOrganization(w, req)
      PROVE  worker'[w] = [pc |-> "submitted", req |-> req]
  BY <1>1, <1>4 DEF SubmitOrganization
<1>5. ASSUME NEW req, Authorize(w, req)
      PROVE  worker'[w] = [pc |-> "authorized", req |-> req]
  BY <1>1, <1>5 DEF Authorize
<1>6. ASSUME Submit(w)
      PROVE  worker'[w] = [pc |-> "submitted", req |-> worker[w].req]
  BY <1>1, <1>6 DEF Submit
<1>7. ASSUME NEW h \in Hashes, StoreTime(w, h)
      PROVE  IF worker[w].req.type = "setProcessStatus" THEN worker'[w] = Idle
             ELSE worker'[w] = [pc |-> "timed", req |-> worker[w].req, hash |-> h]
  BY <1>1, <1>7 DEF StoreTime
<1>8. ASSUME ~\E v \in Workers : Handler(v)
      PROVE  worker'[w] = worker[w] \/ worker'[w] = Idle
  <2>1. CASE Crash
    BY <2>1 DEF Crash
  <2>2. CASE ~Crash
    BY <1>8, <2>2 DEF Next, Admin, AdminCreateIntegrator, AdminUpdateIntegrator,
         AdminResetIntegratorKey, AdminDeleteIntegrator, AdminUnchanged,
         ResetOrganizationKey, ConfirmTx, Monitor, BeginIteration, CommitVisited,
         DeleteVisited, MonitorUnchanged, Tick, vars
  <2>3. QED  BY <2>1, <2>2
<1>9. CASE Handler(w)
  BY <1>9, <1>3, <1>4, <1>5, <1>6, <1>7 DEF Handler
<1>10. QED  BY <1>2, <1>8, <1>9

LEMMA CacheSteps ==
  ASSUME TypeOK, [Next]_vars, NEW h \in Hashes
  PROVE  /\ \/ kvTx'[h] = Nil
            \/ kvTx[h] # Nil /\ kvTx'[h] # Nil /\ kvTx'[h].body = kvTx[h].body
            \/ \E w \in Workers :
                 /\ Enqueue(w) /\ h = worker[w].hash
                 /\ kvTx'[h] # Nil /\ kvTx'[h].body = worker[w].req
         /\ kvTx[h] # Nil /\ kvTx'[h] = Nil => DeleteVisited /\ cur = h
         /\ \/ cached'[h] = cached[h] /\ fate'[h] = fate[h]
            \/ \E w \in Workers :
                 /\ Enqueue(w) /\ h = worker[w].hash
                 /\ kvTx'[h] # Nil /\ kvTx'[h].body = worker[w].req
                 /\ cached'[h] = worker[w].req /\ fate'[h] = "pending"
            \/ /\ CommitVisited(h) /\ cached'[h] = cached[h]
               /\ fate'[h] \in {"committed", "failed"}
<1> USE DEF TypeOK, KvTypeOK
<1>1. ASSUME NEW w \in Workers, Enqueue(w)
      PROVE  /\ kvTx' = [kvTx EXCEPT ![worker[w].hash] = [body |-> worker[w].req, age |-> 0]]
             /\ cached' = [cached EXCEPT ![worker[w].hash] = worker[w].req]
             /\ fate' = [fate EXCEPT ![worker[w].hash] = "pending"]
  BY <1>1 DEF Enqueue, StoreTx
<1>2. ASSUME NEW w \in Workers, Handler(w), ~Enqueue(w)
      PROVE  UNCHANGED <<kvTx, cached, fate>>
  BY <1>2 DEF Handler, SubmitOrganization, Authorize, Submit, Refuse, LoseAnswer, StoreTime,
       EnqueueFails, RemoveOrganization, kvVars, txVars
<1>3. ASSUME NEW g \in Hashes, CommitVisited(g)
      PROVE  /\ UNCHANGED <<kvTx, cached>>
             /\ fate' = fate \/ \E f \in {"committed", "failed"} : fate' = [fate EXCEPT ![g] = f]
  BY <1>3 DEF CommitVisited, MonitorUnchanged, kvVars, Failed
<1>4. ASSUME DeleteVisited
      PROVE  /\ cur \in Hashes
             /\ kvTx' = [kvTx EXCEPT ![cur] = Nil] \/ kvTx' = kvTx
             /\ UNCHANGED <<cached, fate>>
  BY <1>4 DEF DeleteVisited, DeleteTx, MonitorUnchanged
<1>5. ASSUME Tick
      PROVE  /\ kvTx'[h] = IF kvTx[h] = Nil THEN Nil ELSE [kvTx[h] EXCEPT !.age = Older(@)]
             /\ UNCHANGED <<cached, fate>>
  BY <1>5 DEF Tick, Age, txVars
<1>6. ASSUME Tick, kvTx[h] # Nil
      PROVE  kvTx'[h] # Nil /\ kvTx'[h].body = kvTx[h].body
  <2>1. kvTx[h] \in SerializableTx
    BY <1>6
  <2>2. kvTx'[h] = [kvTx[h] EXCEPT !.age = Older(@)]
    BY <1>5, <1>6
  <2>3. kvTx'[h].body = kvTx[h].body
    BY <2>1, <2>2 DEF SerializableTx
  <2>4. Older(kvTx[h].age) \in Ages
    BY <2>1, CacheConstants DEF SerializableTx, Older, Ages, Old
  <2>5. kvTx'[h] \in SerializableTx
    BY <2>1, <2>2, <2>4 DEF SerializableTx
  <2>6. QED  BY <2>3, <2>5, NilIsNoEntry
<1>7. ASSUME ~\E w \in Workers : Handler(w), ~Monitor, ~Tick
      PROVE  UNCHANGED <<kvTx, cached, fate>>
  BY <1>7 DEF Next, Admin, AdminCreateIntegrator, AdminUpdateIntegrator,
       AdminResetIntegratorKey, AdminDeleteIntegrator, AdminUnchanged, ResetOrganizationKey,
       ConfirmTx, Crash, vars, kvVars, txVars
<1>8. CASE \E w \in Workers : Enqueue(w)
  <2>1. PICK w \in Workers : Enqueue(w)
    BY <1>8
  <2>2. worker[w].req \in TxBody /\ worker[w].hash \in Hashes
    BY <2>1 DEF Enqueue, WorkerState, Idle
  <2>3. [body |-> worker[w].req, age |-> 0] \in SerializableTx
    BY <2>2, CacheConstants DEF SerializableTx, Ages, Old
  <2>4. CASE h = worker[w].hash
    BY <2>1, <2>2, <2>3, <2>4, <1>1, NilIsNoEntry
  <2>5. CASE h # worker[w].hash
    BY <2>1, <2>2, <2>5, <1>1
  <2>6. QED  BY <2>4, <2>5
<1>9. CASE \E g \in Hashes : CommitVisited(g)
  BY <1>9, <1>3
<1>10. CASE DeleteVisited
  BY <1>10, <1>4
<1>11. CASE Tick
  BY <1>11, <1>5, <1>6
<1>12. CASE BeginIteration
  BY <1>12 DEF BeginIteration, MonitorUnchanged, kvVars
<1>13. CASE UNCHANGED <<kvTx, cached, fate>>
  BY <1>13
<1>14. QED  BY <1>2, <1>7, <1>8, <1>9, <1>10, <1>11, <1>12, <1>13 DEF Monitor

LEMMA IssuedSteps ==
  ASSUME TypeOK, [Next]_vars, NEW h \in Hashes
  PROVE  /\ h \in issued' =>
              \/ h \in issued
              \/ \E w \in Workers : Enqueue(w) /\ h = worker[w].hash
              \/ \E w \in Workers :
                   /\ StoreTime(w, h)
                   /\ worker[w].req.type = "setProcessStatus"
                   /\ kvTime'[h] # Nil
         /\ kvTime[h] # Nil => kvTime'[h] # Nil
<1> USE DEF TypeOK, KvTypeOK
<1>0. /\ \A age \in Ages : Older(age) \in Ages
      /\ 0 \in Ages
      /\ Nil \notin Ages
  BY CacheConstants, NilIsNoEntry DEF Ages, Old, Older
<1>1. ASSUME NEW w \in Workers, NEW g \in Hashes, StoreTime(w, g)
      PROVE  /\ kvTime' = [kvTime EXCEPT ![g] = 0] \/ kvTime' = kvTime
             /\ \/ issued' = issued
                \/ /\ issued' = issued \cup {g}
                   /\ worker[w].req.type = "setProcessStatus"
                   /\ kvTime' = [kvTime EXCEPT ![g] = 0]
  <2>1. \/ kvTime' = [kvTime EXCEPT ![g] = 0] /\ faults' = faults
        \/ kvTime' = kvTime /\ faults' = faults + 1
    BY <1>1 DEF StoreTime, StoreTxTime
  <2>2. \/ issued' = issued
        \/ /\ issued' = issued \cup {g}
           /\ worker[w].req.type = "setProcessStatus"
           /\ faults' = faults
    BY <1>1 DEF StoreTime
  <2>3. QED  BY <2>1, <2>2
<1>2. ASSUME NEW w \in Workers, Enqueue(w)
      PROVE  kvTime' = kvTime /\ (issued' = issued \/ issued' = issued \cup {worker[w].hash})
  BY <1>2 DEF Enqueue
<1>3. ASSUME NEW w \in Workers, Handler(w), ~Enqueue(w), \A g \in Hashes : ~StoreTime(w, g)
      PROVE  UNCHANGED <<kvTime, issued>>
  BY <1>3 DEF Handler, SubmitOrganization, Authorize, Submit, Refuse, LoseAnswer,
       EnqueueFails, RemoveOrganization, kvVars
<1>4. ASSUME Tick
      PROVE  issued' = issued /\ (kvTime[h] # Nil => kvTime'[h] # Nil)
  BY <1>0, <1>4 DEF Tick, Age, clientVars
<1>5. ASSUME ~\E w \in Workers : Handler(w), ~Tick
      PROVE  UNCHANGED <<kvTime, issued>>
  BY <1>5 DEF Next, Admin, AdminCreateIntegrator, AdminUpdateIntegrator,
       AdminResetIntegratorKey, AdminDeleteIntegrator, AdminUnchanged, ResetOrganizationKey,
       HandlerUnchanged, ConfirmTx, Monitor, BeginIteration, CommitVisited, DeleteVisited,
       MonitorUnchanged, Crash, vars, kvVars, clientVars
<1>6. CASE \E w \in Workers, g \in Hashes : StoreTime(w, g)
  BY <1>0, <1>1, <1>6
<1>7. CASE \E w \in Workers : Enqueue(w)
  BY <1>2, <1>7
<1>8. CASE \E w \in Workers : Handler(w)
  BY <1>3, <1>6, <1>7, <1>8
<1>9. QED  BY <1>4, <1>5, <1>8

-----------------------------------------------------------------------------
(* The parts about the cache. *)

LEMMA HashesStep ==
  ASSUME TypeOK, SqlIntegrity, HashesDrawn, CacheAgrees, [Next]_vars
  PROVE  HashesDrawn'
<1> USE DEF HashesDrawn
<1>1. ASSUME NEW v \in Workers, Enqueue(v)
      PROVE  /\ worker[v].pc = "timed" /\ worker'[v] = Idle /\ worker[v].hash \in Hashes
             /\ fate'[worker[v].hash] = "pending"
  BY <1>1 DEF Enqueue, Become, TypeOK, WorkerState, Idle
<1>2. ASSUME NEW v \in Workers, NEW h \in Hashes, StoreTime(v, h)
      PROVE  /\ kvTime[h] = Nil /\ kvTx[h] = Nil /\ fate[h] = "none"
             /\ \A u \in Workers : worker[u].pc = "timed" => worker[u].hash # h
             /\ \A u \in Workers : u # v => worker'[u] = worker[u]
             /\ UNCHANGED <<kvTx, fate>>
             /\ worker[v].req.type # "setProcessStatus" => issued' = issued
  BY <1>2 DEF StoreTime, InFlight, Become, TypeOK, txVars
<1>3. ASSUME NEW w \in Workers, worker'[w].pc = "timed"
      PROVE  \/ worker'[w] = worker[w]
             \/ \E h \in Hashes : /\ StoreTime(w, h)
                                  /\ worker[w].req.type # "setProcessStatus"
                                  /\ worker'[w].hash = h
  <2>1. ASSUME worker'[w] = Idle PROVE FALSE
    BY <1>3, <2>1 DEF Idle
  <2>2. ASSUME NEW req, worker'[w] = [pc |-> "submitted", req |-> req] PROVE FALSE
    BY <1>3, <2>2
  <2>3. ASSUME NEW req, worker'[w] = [pc |-> "authorized", req |-> req] PROVE FALSE
    BY <1>3, <2>3
  <2>4. ASSUME NEW h, worker'[w] = [pc |-> "timed", req |-> worker[w].req, hash |-> h]
        PROVE  worker'[w].hash = h
    BY <2>4
  <2> HIDE DEF HashesDrawn
  <2>5. QED  BY <2>1, <2>2, <2>3, <2>4, WorkerSteps
<1>4. ASSUME NEW w \in Workers, worker'[w].pc = "timed"
      PROVE  /\ kvTx'[worker'[w].hash] = Nil
             /\ fate'[worker'[w].hash] = "none"
             /\ worker'[w].hash \notin issued'
  <2>1. CASE worker'[w] = worker[w]
    <3>1. worker[w].hash \in Hashes
      BY <1>4, <2>1 DEF TypeOK, WorkerState, Idle
    <3>2. \A v \in Workers : Enqueue(v) => worker[v].hash # worker[w].hash
      BY <1>1, <1>4, <2>1 DEF Idle
    <3>3. /\ \A g \in Hashes : CommitVisited(g) => kvTx[g] # Nil
      BY DEF CommitVisited, CacheAgrees, Pending
    <3>4. QED  BY <1>2, <1>4, <2>1, <3>1, <3>2, <3>3, CacheSteps, IssuedSteps
  <2>2. CASE \E h \in Hashes : /\ StoreTime(w, h)
                               /\ worker[w].req.type # "setProcessStatus"
                               /\ worker'[w].hash = h
    BY <1>2, <2>2
  <2>3. QED  BY <1>3, <1>4, <2>1, <2>2
<1>5. ASSUME NEW w \in Workers, NEW v \in Workers, v # w,
             worker'[w].pc = "timed", worker'[v].pc = "timed"
      PROVE  worker'[v].hash # worker'[w].hash
  BY <1>2, <1>3, <1>5
<1>6. ASSUME NEW h \in issued', fate'[h] = "none"
      PROVE  kvTime'[h] # Nil
  <2>1. h \in Hashes
    BY TypeStep, <1>6 DEF TypeOK, HashesDrawn
  <2>2. QED  BY <1>1, <1>6, <2>1, CacheSteps, IssuedSteps
<1>7. QED  BY <1>4, <1>5, <1>6

LEMMA EnqueueFacts ==
  ASSUME TypeOK, NEW w \in Workers, Enqueue(w)
  PROVE  /\ worker[w].pc = "timed" /\ worker'[w] = Idle
         /\ worker[w].hash \in Hashes /\ worker[w].req \in TxBody
         /\ fate'[worker[w].hash] = "pending"
         /\ cached'[worker[w].hash] = worker[w].req
BY DEF Enqueue, Become, TypeOK, WorkerState, Idle

LEMMA VisitFacts ==
  ASSUME TypeOK, CacheAgrees, NEW h \in Hashes, CommitVisited(h)
  PROVE  /\ cur = Nil /\ h \in todo /\ cur' = h /\ todo' = todo
         /\ kvTx[h] \in SerializableTx /\ kvTx' = kvTx
         /\ fate'[h] \in {"committed", "failed"}
         /\ \A g \in Hashes : g # h => fate'[g] = fate[g]
         /\ \/ Commit(kvTx[h].body) /\ fate'[h] = "committed"
            \/ UNCHANGED sqlVars /\ fate'[h] = Failed(h)
         /\ UNCHANGED <<worker, accountTx, processTx, keyOwner, cached, removed>>
<1>1. kvTx[h] \in SerializableTx
  BY DEF CommitVisited, CacheAgrees, Pending, TypeOK, KvTypeOK
<1>2. Decode(kvTx[h]).body = kvTx[h].body /\ Decode(kvTx[h]).age = Old
  BY <1>1 DEF Decode, SerializableTx
<1>3. Mined(Old)
  BY CacheConstants DEF Mined, Old
<1>4. /\ cur = Nil /\ h \in todo /\ cur' = h /\ todo' = todo
      /\ \/ Commit(kvTx[h].body) /\ fate' = [fate EXCEPT ![h] = "committed"]
         \/ UNCHANGED sqlVars /\ fate' = [fate EXCEPT ![h] = Failed(h)]
  BY <1>2, <1>3 DEF CommitVisited
<1>5. UNCHANGED <<kvTx, worker, accountTx, processTx, keyOwner, cached, removed>>
  BY DEF CommitVisited, MonitorUnchanged, kvVars, gatewayVars
<1>6. QED  BY <1>1, <1>4, <1>5 DEF TypeOK, Failed

LEMMA MonitorSteps ==
  ASSUME TypeOK, [Next]_vars
  PROVE  \/ UNCHANGED <<todo, cur>>
         \/ BeginIteration
         \/ \E h \in Hashes : CommitVisited(h)
         \/ DeleteVisited
         \/ todo' = {} /\ cur' = Nil
<1>1. ASSUME NEW w \in Workers, Handler(w)
      PROVE  UNCHANGED <<todo, cur>>
  BY <1>1 DEF Handler, HandlerUnchanged, monitorVars, SubmitOrganization, Authorize, Submit,
       Refuse, LoseAnswer, StoreTime, Enqueue, EnqueueFails, RemoveOrganization
<1>2. ASSUME Admin
      PROVE  UNCHANGED <<todo, cur>>
  BY <1>2 DEF Admin, AdminCreateIntegrator, AdminUpdateIntegrator, AdminResetIntegratorKey,
       AdminDeleteIntegrator, AdminUnchanged, monitorVars
<1>3. QED  BY <1>1, <1>2 DEF Next, ResetOrganizationKey, HandlerUnchanged, ConfirmTx, Monitor,
              Tick, Crash, vars, monitorVars

LEMMA CacheStep ==
  ASSUME TypeOK, HashesDrawn, CacheAgrees, [Next]_vars
  PROVE  CacheAgrees'
<1>1. ASSUME NEW h \in Hashes, kvTx'[h] # Nil
      PROVE  cached'[h] = kvTx'[h].body /\ fate'[h] # "none"
  BY <1>1, CacheSteps, EnqueueFacts DEF CacheAgrees
<1>2. ASSUME NEW h \in Hashes, fate'[h] = "pending"
      PROVE  kvTx'[h] # Nil
  BY <1>2, CacheSteps, EnqueueFacts DEF CacheAgrees, DeleteVisited
<1>3. ASSUME NEW h \in Hashes, fate'[h] # "none"
      PROVE  cached'[h] # Nil
  <2>1. CASE cached'[h] = cached[h] /\ fate'[h] = fate[h]
    BY <1>3, <2>1 DEF CacheAgrees
  <2>2. CASE \E w \in Workers : Enqueue(w) /\ h = worker[w].hash
    BY <2>2, EnqueueFacts, NilIsNoEntry
  <2>3. CASE CommitVisited(h)
    BY <2>3, VisitFacts DEF CacheAgrees, Pending
  <2>4. QED  BY <2>1, <2>2, <2>3, CacheSteps
<1>4. \A w \in Workers : Enqueue(w) => fate[worker[w].hash] = "none"
  BY EnqueueFacts DEF HashesDrawn
<1>5. todo' \subseteq Pending' /\ (cur' # Nil => cur' \in todo' /\ fate'[cur'] \in {"committed", "failed"})
  <2>1. CASE UNCHANGED <<todo, cur>>
    BY <1>4, <2>1, CacheSteps DEF CacheAgrees, Pending, CommitVisited, DeleteVisited
  <2>2. CASE BeginIteration
    BY <2>2, CacheSteps DEF BeginIteration, kvVars, Pending
  <2>3. ASSUME NEW h \in Hashes, CommitVisited(h)
        PROVE  /\ todo' \subseteq Pending'
               /\ cur' # Nil => cur' \in todo' /\ fate'[cur'] \in {"committed", "failed"}
    BY <2>3, VisitFacts DEF CacheAgrees, Pending
  <2>4. CASE DeleteVisited
    BY <2>4 DEF DeleteVisited, DeleteTx, CacheAgrees, Pending, TypeOK, KvTypeOK
  <2>5. CASE todo' = {} /\ cur' = Nil
    BY <2>5
  <2>6. QED  BY <2>1, <2>2, <2>3, <2>4, <2>5, MonitorSteps
<1>6. QED  BY <1>1, <1>2, <1>3, <1>5 DEF CacheAgrees

-----------------------------------------------------------------------------
(* What a step can do to the rows. *)

SameRows ==
  /\ \A i \in integrators' : \E j \in integrators : i.id = j.id /\ i.key = j.key
  /\ \A j \in integrators : \E i \in integrators' : i.id = j.id /\ i.key = j.key
  /\ \A o \in organizations' : \E p \in organizations :
       o.addr = p.addr /\ o.id = p.id /\ o.key = p.key
  /\ \A p \in organizations : \E o \in organizations' :
       o.addr = p.addr /\ o.id = p.id /\ o.key = p.key
  /\ UNCHANGED <<elections, removed, keyOwner>>

CommitOrganization(h) ==
  /\ CommitVisited(h)
  /\ kvTx[h].body \in CreateOrganizationTx
  /\ fate'[h] = "committed"
  /\ \E i \in integrators, o \in OrganizationRow :
       /\ i.key = kvTx[h].body.key
       /\ o.addr = kvTx[h].body.addr /\ o.id = i.id /\ o.key = i.key
       /\ organizations' = organizations \cup {o}
  /\ ~HasRow(kvTx[h].body.addr)
  /\ UNCHANGED <<integrators, elections, removed, keyOwner>>

CommitElection(h) ==
  /\ CommitVisited(h)
  /\ kvTx[h].body \in CreateElectionTx
  /\ fate'[h] = "committed"
  /\ CreateElection(kvTx[h].body.key, kvTx[h].body.addr, kvTx[h].body.pid)
  /\ UNCHANGED <<removed, keyOwner>>

LEMMA RowMapSame ==
  ASSUME SqlTypeOK,
         NEW Row \in [organizations -> OrganizationRow],
         \A o \in organizations :
           Row[o].addr = o.addr /\ Row[o].id = o.id /\ Row[o].key = o.key,
         organizations' = {Row[o] : o \in organizations},
         UNCHANGED <<integrators, elections, removed, keyOwner>>
  PROVE  SameRows
BY DEF SameRows

LEMMA UnchangedSame ==
  ASSUME UNCHANGED sqlVars, UNCHANGED <<removed, keyOwner>>
  PROVE  SameRows
BY DEF SameRows, sqlVars

LEMMA CommitSteps ==
  ASSUME TypeOK, CacheAgrees, NEW h \in Hashes, CommitVisited(h)
  PROVE  SameRows \/ CommitOrganization(h) \/ CommitElection(h)
<1> DEFINE body == kvTx[h].body
<1>1. body \in TxBody /\ UNCHANGED <<keyOwner, removed>>
  BY VisitFacts DEF SerializableTx
<1>2. CASE UNCHANGED sqlVars
  BY <1>1, <1>2, UnchangedSame
<1>3. CASE Commit(body) /\ fate'[h] = "committed"
  <2>1. CASE body.type = "createOrganization"
    <3>1. body \in CreateOrganizationTx
      BY <1>1, <2>1 DEF TxBody, CreateOrganizationTx, UpdateOrganizationTx, CreateElectionTx
    <3>2. CreateOrganization(body.key, body.addr, body.cipher, Nil, Empty, body.token, body.uri)
      BY <1>3, <2>1 DEF Commit
    <3>3. PICK i \in integrators :
            /\ i.key = body.key
            /\ organizations' = organizations \cup
                 {[addr |-> body.addr, id |-> i.id, key |-> i.key, uri |-> body.uri,
                   token |-> body.token, cipher |-> body.cipher, plan |-> Nil, quota |-> Empty]}
      BY <3>2 DEF CreateOrganization, GetIntegratorByKey
    <3>4. [addr |-> body.addr, id |-> i.id, key |-> i.key, uri |-> body.uri,
           token |-> body.token, cipher |-> body.cipher, plan |-> Nil, quota |-> Empty]
            \in OrganizationRow
      BY <3>1, CacheConstants DEF CreateOrganizationTx, OrganizationRow, TypeOK, SqlTypeOK,
           IntegratorRow
    <3>5. ~HasRow(body.addr) /\ UNCHANGED <<integrators, elections>>
      BY <3>2 DEF CreateOrganization, CanCreateOrganization, HasRow
    <3>6. QED  BY <1>1, <1>3, <3>1, <3>3, <3>4, <3>5 DEF CommitOrganization
  <2>2. CASE body.type = "updateOrganization"
    <3>1. body \in UpdateOrganizationTx
      BY <1>1, <2>2 DEF TxBody, CreateOrganizationTx, UpdateOrganizationTx, CreateElectionTx
    <3>2. UpdateOrganization(body.key, body.addr, body.uri)
      BY <1>3, <2>2 DEF Commit
    <3> DEFINE Row == [o \in organizations |->
                         IF o.key = body.key /\ o.addr = body.addr
                           THEN [o EXCEPT !.uri = Coalesce(body.uri, o.uri)] ELSE o]
    <3>3. /\ organizations' = {Row[o] : o \in organizations}
          /\ UNCHANGED <<integrators, elections>>
      BY <3>2 DEF UpdateOrganization, UpdateWhere
    <3>4. /\ Row \in [organizations -> OrganizationRow]
          /\ \A o \in organizations :
               Row[o].addr = o.addr /\ Row[o].id = o.id /\ Row[o].key = o.key
      BY <3>1 DEF Coalesce, OrganizationRow, UpdateOrganizationTx, TypeOK, SqlTypeOK
    <3> HIDE DEF Row
    <3>5. QED  BY <1>1, <3>3, <3>4, RowMapSame DEF TypeOK
  <2>3. CASE body.type = "createElection"
    <3>1. body \in CreateElectionTx
      BY <1>1, <2>3 DEF TxBody, CreateOrganizationTx, UpdateOrganizationTx, CreateElectionTx
    <3>2. CreateElection(body.key, body.addr, body.pid)
      BY <1>3, <2>3 DEF Commit
    <3>3. QED  BY <1>1, <1>3, <3>1, <3>2 DEF CommitElection
  <2>4. QED  BY <1>3, <2>1, <2>2, <2>3 DEF Commit
<1>4. QED  BY <1>2, <1>3, VisitFacts

LEMMA RowSteps ==
  ASSUME TypeOK, CacheAgrees, [Next]_vars
  PROVE  \/ SameRows
         \/ \E id \in Ids, k \in Keys, email \in Emails, profile \in Profiles :
              AdminCreateIntegrator(id, k, email, profile)
         \/ \E id \in Ids, k \in Keys : AdminResetIntegratorKey(id, k)
         \/ \E id \in Ids : AdminDeleteIntegrator(id)
         \/ \E h \in Hashes : CommitOrganization(h) \/ CommitElection(h)
         \/ \E w \in Workers : RemoveOrganization(w)
<1>1. ASSUME NEW id \in Ids, NEW profile \in Profiles, AdminUpdateIntegrator(id, profile)
      PROVE  SameRows
  <2> DEFINE Row(i) == IF i.id = id THEN [i EXCEPT !.profile = Coalesce(profile, i.profile)]
                                    ELSE i
  <2>1. \A i \in integrators : Row(i).id = i.id /\ Row(i).key = i.key
    BY DEF TypeOK, SqlTypeOK, IntegratorRow
  <2>2. /\ integrators' = {Row(i) : i \in integrators}
        /\ UNCHANGED <<organizations, elections, removed, keyOwner>>
    BY <1>1 DEF AdminUpdateIntegrator, UpdateIntegrator
  <2> HIDE DEF Row
  <2>3. QED  BY <2>1, <2>2 DEF SameRows
<1>2. ASSUME NEW k \in Keys, NEW a \in Addrs, NEW token \in Tokens,
             ResetOrganizationKey(k, a, token)
      PROVE  SameRows
  <2> DEFINE Row == [o \in organizations |->
                       IF o.key = k /\ o.addr = a
                         THEN [o EXCEPT !.token = Coalesce(token, o.token)] ELSE o]
  <2>1. /\ organizations' = {Row[o] : o \in organizations}
        /\ UNCHANGED <<integrators, elections, removed, keyOwner>>
    BY <1>2 DEF ResetOrganizationKey, UpdateOrganizationPublicAPIToken, UpdateWhere,
         HandlerUnchanged
  <2>2. /\ Row \in [organizations -> OrganizationRow]
        /\ \A o \in organizations :
             Row[o].addr = o.addr /\ Row[o].id = o.id /\ Row[o].key = o.key
    BY DEF Coalesce, OrganizationRow, TypeOK, SqlTypeOK
  <2> HIDE DEF Row
  <2>3. QED  BY <2>1, <2>2, RowMapSame DEF TypeOK
<1>3. ASSUME NEW w \in Workers, Handler(w), ~RemoveOrganization(w)
      PROVE  SameRows
  <2>1. UNCHANGED sqlVars /\ UNCHANGED <<removed, keyOwner>>
    BY <1>3 DEF Handler, HandlerUnchanged, SubmitOrganization, Authorize, Submit, Refuse,
         LoseAnswer, StoreTime, Enqueue, EnqueueFails
  <2>2. QED  BY <2>1, UnchangedSame
<1>4. ASSUME BeginIteration \/ DeleteVisited \/ Tick \/ Crash \/ UNCHANGED vars
             \/ \E h \in Hashes : ConfirmTx(h)
      PROVE  SameRows
  <2>1. UNCHANGED sqlVars /\ UNCHANGED <<removed, keyOwner>>
    BY <1>4 DEF BeginIteration, DeleteVisited, MonitorUnchanged, Tick, Crash, ConfirmTx, vars
  <2>2. QED  BY <2>1, UnchangedSame
<1>5. ASSUME NEW h \in Hashes, CommitVisited(h)
      PROVE  SameRows \/ CommitOrganization(h) \/ CommitElection(h)
  BY <1>5, CommitSteps
<1>6. QED  BY <1>1, <1>2, <1>3, <1>4, <1>5 DEF Next, Admin, Monitor

-----------------------------------------------------------------------------
(* Requests, from the authorization to the commit. *)

LEMMA RequestFields ==
  ASSUME NEW req \in Requests
  PROVE  req.key \in Keys /\ req.addr \in Addrs
BY DEF Requests, TxBody, CreateOrganizationTx, UpdateOrganizationTx, CreateElectionTx,
       SetProcessStatusRequest, DeleteOrganizationRequest

LEMMA ElectionFields ==
  ASSUME NEW req \in Requests, req.type = "createElection"
  PROVE  req \in CreateElectionTx /\ req.pid \in Pids
BY DEF Requests, TxBody, CreateOrganizationTx, UpdateOrganizationTx, CreateElectionTx,
       SetProcessStatusRequest, DeleteOrganizationRequest

LEMMA CreateFields ==
  ASSUME NEW req \in Requests, req.type = "createOrganization"
  PROVE  req \in CreateOrganizationTx
BY DEF Requests, TxBody, CreateOrganizationTx, UpdateOrganizationTx, CreateElectionTx,
       SetProcessStatusRequest, DeleteOrganizationRequest

LEMMA CarriedTyped ==
  ASSUME TypeOK
  PROVE  /\ \A w \in Workers : Busy(w) => worker[w].req \in Requests
         /\ \A h \in Hashes : kvTx[h] # Nil => kvTx[h].body \in Requests
BY DEF TypeOK, KvTypeOK, WorkerState, Idle, Busy, Requests, SerializableTx

(* Where a carried request was before the step. *)
LEMMA RequestSteps ==
  ASSUME TypeOK, [Next]_vars
  PROVE  /\ \A w \in Workers :
              Busy(w)' =>
                \/ Busy(w) /\ worker'[w].req = worker[w].req
                \/ \E req \in CreateOrganizationTx :
                     SubmitOrganization(w, req) /\ worker'[w].req = req
                \/ \E req \in Requests \ CreateOrganizationTx :
                     /\ Authorize(w, req)
                     /\ worker'[w].req = req /\ worker'[w].pc = "authorized"
         /\ \A h \in Hashes :
              kvTx'[h] # Nil =>
                \/ kvTx[h] # Nil /\ kvTx'[h].body = kvTx[h].body
                \/ \E w \in Workers :
                     /\ Enqueue(w) /\ h = worker[w].hash /\ Busy(w) /\ ~Busy(w)'
                     /\ kvTx'[h].body = worker[w].req
<1>1. ASSUME NEW w \in Workers, Busy(w)'
      PROVE  \/ Busy(w) /\ worker'[w].req = worker[w].req
             \/ \E req \in CreateOrganizationTx :
                  SubmitOrganization(w, req) /\ worker'[w].req = req
             \/ \E req \in Requests \ CreateOrganizationTx :
                  /\ Authorize(w, req)
                  /\ worker'[w].req = req /\ worker'[w].pc = "authorized"
  <2>1. CASE worker'[w] = worker[w]
    BY <1>1, <2>1 DEF Busy
  <2>2. CASE worker'[w] = Idle
    BY <1>1, <2>2 DEF Busy, Idle
  <2>3. ASSUME Submit(w), worker'[w] = [pc |-> "submitted", req |-> worker[w].req]
        PROVE  Busy(w) /\ worker'[w].req = worker[w].req
    BY <2>3 DEF Busy, Submit
  <2>4. ASSUME NEW h \in Hashes, StoreTime(w, h),
               worker'[w] = [pc |-> "timed", req |-> worker[w].req, hash |-> h]
        PROVE  Busy(w) /\ worker'[w].req = worker[w].req
    BY <2>4 DEF Busy, StoreTime
  <2>5. ASSUME NEW req, worker'[w] = [pc |-> "submitted", req |-> req]
        PROVE  worker'[w].req = req
    BY <2>5
  <2>6. ASSUME NEW req, worker'[w] = [pc |-> "authorized", req |-> req]
        PROVE  worker'[w].req = req /\ worker'[w].pc = "authorized"
    BY <2>6
  <2>7. QED  BY <2>1, <2>2, <2>3, <2>4, <2>5, <2>6, WorkerSteps
<1>2. \A w \in Workers : Enqueue(w) => Busy(w) /\ ~Busy(w)'
  BY EnqueueFacts DEF Busy, Idle
<1>3. QED  BY <1>1, <1>2, CacheSteps

(* Histories only grow. *)
LEMMA HistorySteps ==
  ASSUME TypeOK, ProcessesKnown, [Next]_vars
  PROVE  /\ \A k \in Keys : keyOwner[k] # Nil => keyOwner'[k] = keyOwner[k]
         /\ \A a \in Addrs : accountTx[a] # Nil => accountTx'[a] = accountTx[a]
         /\ \A p \in Pids : processTx[p] # Nil => processTx'[p] = processTx[p]
         /\ removed \subseteq removed'
<1> USE DEF TypeOK
<1>1. CASE Admin
  BY <1>1 DEF Admin, AdminCreateIntegrator, AdminUpdateIntegrator, AdminResetIntegratorKey,
       AdminDeleteIntegrator, AdminUnchanged, gatewayVars
<1>2. ASSUME NEW w \in Workers, Submit(w), NEW p \in Pids, processTx[p] # Nil
      PROVE  processTx'[p] = processTx[p]
  BY <1>2 DEF Submit, ProcessesKnown, Busy
<1>3. ASSUME NEW w \in Workers, Handler(w)
      PROVE  /\ keyOwner' = keyOwner
             /\ \A a \in Addrs : accountTx[a] # Nil => accountTx'[a] = accountTx[a]
             /\ Submit(w) \/ processTx' = processTx
             /\ removed \subseteq removed'
  BY <1>3 DEF Handler, HandlerUnchanged, SubmitOrganization, Authorize, Submit, Refuse,
       LoseAnswer, StoreTime, Enqueue, EnqueueFails, RemoveOrganization, gatewayVars
<1>4. CASE \E w \in Workers : Handler(w)
  BY <1>2, <1>3, <1>4
<1>5. CASE ~Admin /\ ~\E w \in Workers : Handler(w)
  <2>1. UNCHANGED <<keyOwner, accountTx, processTx, removed>>
    BY <1>5 DEF Next, ResetOrganizationKey, HandlerUnchanged, ConfirmTx, Monitor,
         BeginIteration, CommitVisited, DeleteVisited, MonitorUnchanged, Tick, Crash, vars,
         gatewayVars
  <2>2. QED  BY <2>1
<1>6. QED  BY <1>1, <1>4, <1>5

LEMMA OwnedStep ==
  ASSUME TypeOK, RowsWereAccepted, SqlIntegrity, KeysIssued, RequestsOwned, ProcessesKnown,
         CacheAgrees, [Next]_vars
  PROVE  RequestsOwned'
<1>1. ASSUME NEW req \in Requests, Owned(req)
      PROVE  Owned(req)'
  BY <1>1, RequestFields, HistorySteps DEF Owned, TypeOK
<1>2. ASSUME NEW w \in Workers, NEW req \in CreateOrganizationTx, SubmitOrganization(w, req)
      PROVE  Owned(req)'
  BY <1>2, NilIsNoValue DEF SubmitOrganization, Owned, CreateOrganizationTx, TypeOK, HandlerUnchanged
<1>3. ASSUME NEW w \in Workers, NEW req \in Requests, Authorize(w, req)
      PROVE  Owned(req)'
  <2>1. PICK o \in organizations : o.key = req.key /\ o.addr = req.addr
    BY <1>3 DEF Authorize, GetOrganization
  <2>2. PICK i \in integrators : i.id = o.id /\ i.key = o.key
    BY DEF SqlIntegrity, OneIntegratorPerOrganization
  <2>3. keyOwner[req.key] = o.id /\ o.id \in Ids
    BY <2>1, <2>2 DEF KeysIssued, TypeOK, SqlTypeOK, OrganizationRow
  <2>4. Owned(req)
    BY <2>1, <2>3, NilIsNoValue DEF Owned, RowsWereAccepted
  <2>5. QED  BY <1>1, <2>4
<1>4. QED
  BY <1>1, <1>2, <1>3, RequestSteps, CarriedTyped DEF RequestsOwned

LEMMA AuthorizedSteps ==
  ASSUME TypeOK, [Next]_vars, NEW w \in Workers, Busy(w), Busy(w)'
  PROVE  /\ worker'[w].pc = "authorized" => worker'[w] = worker[w]
         /\ worker[w].pc = "authorized" /\ worker'[w].pc # "authorized" => Submit(w)
<1>1. ASSUME NEW req, SubmitOrganization(w, req) \/ Authorize(w, req) PROVE FALSE
  BY <1>1 DEF SubmitOrganization, Authorize, Busy, Idle
<1>2. ASSUME worker'[w] = Idle PROVE FALSE
  BY <1>2 DEF Busy, Idle
<1>3. ASSUME NEW h \in Hashes, StoreTime(w, h) PROVE worker[w].pc # "authorized"
  BY <1>3 DEF StoreTime
<1>4. ASSUME NEW req, worker'[w] = [pc |-> "submitted", req |-> req]
      PROVE  worker'[w].pc # "authorized"
  BY <1>4
<1>5. ASSUME NEW req, NEW h, worker'[w] = [pc |-> "timed", req |-> req, hash |-> h]
      PROVE  worker'[w].pc # "authorized"
  BY <1>5
<1>6. QED  BY <1>1, <1>2, <1>3, <1>4, <1>5, WorkerSteps

LEMMA ProcessChanges ==
  ASSUME TypeOK, [Next]_vars
  PROVE  \/ processTx' = processTx
         \/ \E w \in Workers :
              /\ Submit(w) /\ worker[w].pc = "authorized"
              /\ worker'[w] = [pc |-> "submitted", req |-> worker[w].req]
              /\ worker[w].req.type = "createElection"
              /\ processTx' = [processTx EXCEPT ![worker[w].req.pid] = worker[w].req.addr]
<1>1. ASSUME NEW w \in Workers, Submit(w), processTx' # processTx
      PROVE  /\ worker[w].pc = "authorized"
             /\ worker'[w] = [pc |-> "submitted", req |-> worker[w].req]
             /\ worker[w].req.type = "createElection"
             /\ processTx' = [processTx EXCEPT ![worker[w].req.pid] = worker[w].req.addr]
  BY <1>1 DEF Submit, Become, TypeOK
<1>2. ASSUME NEW w \in Workers, Handler(w), ~Submit(w)
      PROVE  processTx' = processTx
  BY <1>2 DEF Handler, SubmitOrganization, Authorize, Refuse, LoseAnswer, StoreTime, Enqueue,
       EnqueueFails, RemoveOrganization, gatewayVars
<1>3. ASSUME ~\E w \in Workers : Handler(w)
      PROVE  processTx' = processTx
  BY <1>3 DEF Next, Admin, AdminCreateIntegrator, AdminUpdateIntegrator,
       AdminResetIntegratorKey, AdminDeleteIntegrator, AdminUnchanged, ResetOrganizationKey,
       ConfirmTx, Monitor, BeginIteration, CommitVisited, DeleteVisited, MonitorUnchanged,
       Tick, Crash, vars, gatewayVars
<1>4. QED  BY <1>1, <1>2, <1>3

LEMMA ProcessStep ==
  ASSUME TypeOK, RequestsOwned, ProcessesKnown, [Next]_vars
  PROVE  ProcessesKnown'
<1> DEFINE Electing(w) == Busy(w) /\ worker[w].req.type = "createElection"
           Unknown(w) ==
             /\ processTx[worker[w].req.pid] = Nil
             /\ \A v \in Workers :
                  v # w /\ Electing(v) => worker[v].req.pid # worker[w].req.pid
           Known(req) == processTx[req.pid] = req.addr
<1>1. ASSUME NEW w \in Workers, Electing(w)
      PROVE  IF worker[w].pc = "authorized" THEN Unknown(w) ELSE Known(worker[w].req)
  BY <1>1 DEF ProcessesKnown
<1>2. ASSUME NEW w \in Workers, NEW req, Authorize(w, req), req.type = "createElection"
      PROVE  /\ processTx[req.pid] = Nil
             /\ \A v \in Workers : Electing(v) => worker[v].req.pid # req.pid
             /\ processTx' = processTx
             /\ \A v \in Workers : v # w => worker'[v] = worker[v]
  BY <1>2 DEF Authorize, InFlight, Busy, Become, TypeOK, gatewayVars
<1>3. ASSUME NEW req \in Requests, req.type = "createElection", Known(req)
      PROVE  Known(req)'
  BY <1>3, HistorySteps, ElectionFields, RequestFields, NilIsNoValue
<1>4. ASSUME NEW w \in Workers, Electing(w)'
      PROVE  \/ Electing(w) /\ worker'[w].req = worker[w].req
             \/ \E req \in Requests \ CreateOrganizationTx :
                  /\ Authorize(w, req) /\ req.type = "createElection"
                  /\ worker'[w].req = req /\ worker'[w].pc = "authorized"
  BY <1>4, RequestSteps DEF CreateOrganizationTx
<1>5. ASSUME NEW w \in Workers, Electing(w)', worker'[w].pc = "authorized"
      PROVE  Unknown(w)'
  <2>1. CASE Electing(w) /\ worker'[w].req = worker[w].req
    <3>1. worker'[w] = worker[w] /\ Unknown(w)
      BY <1>1, <1>5, <2>1, AuthorizedSteps
    <3>2. ASSUME NEW v \in Workers, worker[v].pc = "authorized",
                 worker'[v] = [pc |-> "submitted", req |-> worker[v].req],
                 worker[v].req.type = "createElection",
                 processTx' = [processTx EXCEPT ![worker[v].req.pid] = worker[v].req.addr]
          PROVE  processTx'[worker[w].req.pid] = Nil
      <4>1. worker'[v].pc = "submitted"
        BY <3>2
      <4>2. v # w
        BY <1>5, <4>1
      <4>3. Electing(v)
        BY <3>2 DEF Busy
      <4>4. worker[w].req.pid # worker[v].req.pid
        BY <3>1, <4>2, <4>3
      <4>5. worker[w].req.pid \in Pids
        BY <2>1, ElectionFields, CarriedTyped
      <4>6. QED  BY <3>1, <3>2, <4>4, <4>5 DEF TypeOK
    <3>3. processTx'[worker[w].req.pid] = Nil
      BY <3>1, <3>2, ProcessChanges
    <3>4. ASSUME NEW v \in Workers, v # w, Electing(v)'
          PROVE  worker'[v].req.pid # worker[w].req.pid
      BY <1>2, <1>4, <2>1, <3>1, <3>4
    <3>5. QED  BY <3>1, <3>3, <3>4
  <2>2. ASSUME NEW req, Authorize(w, req), req.type = "createElection", worker'[w].req = req
        PROVE  Unknown(w)'
    BY <1>2, <2>2 DEF Busy
  <2>3. QED  BY <1>4, <1>5, <2>1, <2>2
<1>6. ASSUME NEW w \in Workers, Electing(w)', worker'[w].pc # "authorized"
      PROVE  Known(worker[w].req)' /\ worker'[w].req = worker[w].req
  <2>1. Electing(w) /\ worker'[w].req = worker[w].req
    BY <1>4, <1>6
  <2>2. CASE worker[w].pc = "authorized"
    <3>1. Submit(w)
      BY <1>6, <2>1, <2>2, AuthorizedSteps
    <3>2. processTx' = [processTx EXCEPT ![worker[w].req.pid] = worker[w].req.addr]
      BY <2>1, <3>1 DEF Submit
    <3>3. worker[w].req.pid \in Pids
      BY <2>1, CarriedTyped, ElectionFields
    <3>4. QED  BY <2>1, <3>2, <3>3 DEF TypeOK
  <2>3. CASE worker[w].pc # "authorized"
    BY <1>1, <1>3, <2>1, <2>3, CarriedTyped
  <2>4. QED  BY <2>2, <2>3
<1>7. ASSUME NEW h \in Hashes, kvTx'[h] # Nil, kvTx'[h].body.type = "createElection"
      PROVE  Known(kvTx[h].body)'
  <2>1. CASE kvTx[h] # Nil /\ kvTx'[h].body = kvTx[h].body
    BY <1>3, <1>7, <2>1, CarriedTyped DEF ProcessesKnown
  <2>2. ASSUME NEW w \in Workers, Enqueue(w), Busy(w), kvTx'[h].body = worker[w].req
        PROVE  Known(kvTx[h].body)'
    <3>1. Electing(w) /\ worker[w].pc = "timed"
      BY <1>7, <2>2, EnqueueFacts
    <3>2. Known(worker[w].req)
      BY <1>1, <3>1
    <3>3. QED  BY <1>3, <2>2, <3>1, <3>2, CarriedTyped
  <2>3. QED  BY <1>7, <2>1, <2>2, RequestSteps
<1>8. ASSUME NEW w \in Workers, Electing(w)'
      PROVE  IF worker'[w].pc = "authorized" THEN Unknown(w)' ELSE Known(worker[w].req)'
  BY <1>5, <1>6, <1>8
<1>9. QED  BY <1>7, <1>8 DEF ProcessesKnown

-----------------------------------------------------------------------------
(* Keys, organizations and elections. *)

LEMMA KeysStep ==
  ASSUME TypeOK, CacheAgrees, KeysIssued, [Next]_vars
  PROVE  KeysIssued'
<1> USE DEF KeysIssued
<1>1. CASE SameRows
  BY <1>1 DEF SameRows
<1>2. ASSUME NEW id \in Ids, NEW k \in Keys,
             \/ \E email \in Emails, profile \in Profiles :
                  AdminCreateIntegrator(id, k, email, profile)
             \/ AdminResetIntegratorKey(id, k)
      PROVE  KeysIssued'
  <2>1. /\ keyOwner[k] = Nil
        /\ keyOwner' = [keyOwner EXCEPT ![k] = id]
        /\ \A i \in integrators' : i \in integrators \/ (i.id = id /\ i.key = k)
    <3>1. ASSUME NEW email \in Emails, NEW profile \in Profiles,
                 AdminCreateIntegrator(id, k, email, profile)
          PROVE  \A i \in integrators' : i \in integrators \/ (i.id = id /\ i.key = k)
      <4> DEFINE row == [id |-> id, key |-> k, email |-> email, profile |-> profile]
      <4>1. row.id = id /\ row.key = k
        OBVIOUS
      <4>2. integrators' = integrators \cup {row}
        BY <3>1 DEF AdminCreateIntegrator, CreateIntegrator
      <4> HIDE DEF row
      <4>3. QED  BY <4>1, <4>2
    <3>2. ASSUME NEW i \in integrators, i.id = id,
                 integrators' = (integrators \ {i}) \cup {[i EXCEPT !.key = k]}
          PROVE  \A j \in integrators' : j \in integrators \/ (j.id = id /\ j.key = k)
      <4> DEFINE row == [i EXCEPT !.key = k]
      <4>1. row.id = id /\ row.key = k
        BY <3>2 DEF TypeOK, SqlTypeOK, IntegratorRow
      <4>2. integrators' = (integrators \ {i}) \cup {row}
        BY <3>2
      <4> HIDE DEF row
      <4>3. QED  BY <4>1, <4>2
    <3>3. CASE AdminResetIntegratorKey(id, k)
      BY <3>2, <3>3 DEF AdminResetIntegratorKey, UpdateIntegratorApiKey
    <3>4. keyOwner[k] = Nil /\ keyOwner' = [keyOwner EXCEPT ![k] = id]
      BY <1>2 DEF AdminCreateIntegrator, AdminResetIntegratorKey
    <3>5. QED  BY <1>2, <3>1, <3>3, <3>4
  <2>2. \A i \in integrators : i.id \in Ids /\ i.key \in Keys
    BY DEF TypeOK, SqlTypeOK, IntegratorRow
  <2>3. QED  BY <2>1, <2>2, NilIsNoValue DEF TypeOK
<1>3. ASSUME NEW id \in Ids, AdminDeleteIntegrator(id)
      PROVE  KeysIssued'
  BY <1>3 DEF AdminDeleteIntegrator, DeleteIntegrator
<1>4. ASSUME NEW h \in Hashes, CommitOrganization(h) \/ CommitElection(h)
      PROVE  KeysIssued'
  BY <1>4 DEF CommitOrganization, CommitElection, CreateElection
<1>5. ASSUME NEW w \in Workers, RemoveOrganization(w)
      PROVE  KeysIssued'
  BY <1>5 DEF RemoveOrganization, DeleteOrganization, HandlerUnchanged
<1>6. QED  BY <1>1, <1>2, <1>3, <1>4, <1>5, RowSteps

LEMMA TargetKept ==
  ASSUME TypeOK, CacheAgrees, UniqueKeys, [Next]_vars,
         NEW req \in Requests, Owned(req), HasTarget(req),
         req.type # "createOrganization", GetIntegratorByKey(req.key)' # {}
  PROVE  GetOrganization(req.key, req.addr)' # {} \/ req.addr \in removed'
<1> DEFINE Target(o) == o \in organizations /\ o.key = req.key /\ o.addr = req.addr
           Target2(o) == o \in organizations' /\ o.key = req.key /\ o.addr = req.addr
<1>1. PICK j \in integrators' : j.key = req.key
  BY DEF GetIntegratorByKey
<1>2. SUFFICES (\E o : Target2(o)) \/ req.addr \in removed'
  BY DEF GetOrganization
<1>3. ASSUME NEW i \in integrators, i.key = req.key
      PROVE  (\E o : Target(o)) \/ req.addr \in removed
  BY <1>3 DEF HasTarget, GetIntegratorByKey, GetOrganization
<1>4. CASE SameRows
  BY <1>1, <1>3, <1>4 DEF SameRows
<1>5. ASSUME NEW id \in Ids, NEW k \in Keys, NEW email \in Emails, NEW profile \in Profiles,
             AdminCreateIntegrator(id, k, email, profile)
      PROVE  (\E o : Target2(o)) \/ req.addr \in removed'
  BY <1>1, <1>3, <1>5 DEF AdminCreateIntegrator, CreateIntegrator, Owned
<1>6. ASSUME NEW id \in Ids, NEW k \in Keys, AdminResetIntegratorKey(id, k)
      PROVE  (\E o : Target2(o)) \/ req.addr \in removed'
  <2>1. k # req.key
    BY <1>6 DEF AdminResetIntegratorKey, Owned
  <2>2. PICK i \in integrators :
          /\ integrators' = (integrators \ {i}) \cup {[i EXCEPT !.key = k]}
          /\ organizations' = Rekey(organizations, i.key, k)
    BY <1>6 DEF AdminResetIntegratorKey, UpdateIntegratorApiKey
  <2>3. j \in integrators /\ j # i
    BY <1>1, <2>1, <2>2 DEF TypeOK, SqlTypeOK, IntegratorRow
  <2>4. i.key # req.key
    BY <1>1, <2>3 DEF UniqueKeys
  <2>5. ASSUME NEW o, Target(o) PROVE Target2(o)
    BY <2>2, <2>4, <2>5 DEF Rekey
  <2>6. removed' = removed
    BY <1>6 DEF AdminResetIntegratorKey
  <2>7. QED  BY <1>1, <1>3, <2>3, <2>5, <2>6
<1>7. ASSUME NEW id \in Ids, AdminDeleteIntegrator(id)
      PROVE  (\E o : Target2(o)) \/ req.addr \in removed'
  <2>1. j \in integrators
    BY <1>1, <1>7 DEF AdminDeleteIntegrator, DeleteIntegrator
  <2>2. removed' = removed \cup {o.addr : o \in organizations \ organizations'}
    BY <1>7 DEF AdminDeleteIntegrator
  <2>3. QED  BY <1>1, <1>3, <2>1, <2>2
<1>8. ASSUME NEW h \in Hashes, CommitOrganization(h) \/ CommitElection(h)
      PROVE  (\E o : Target2(o)) \/ req.addr \in removed'
  <2>1. /\ integrators' = integrators /\ removed' = removed
        /\ organizations \subseteq organizations'
    BY <1>8 DEF CommitOrganization, CommitElection, CreateElection
  <2>2. QED  BY <1>1, <1>3, <2>1
<1>9. ASSUME NEW w \in Workers, RemoveOrganization(w)
      PROVE  (\E o : Target2(o)) \/ req.addr \in removed'
  <2>1. PICK k, a : /\ organizations' = organizations \ GetOrganization(k, a)
                    /\ integrators' = integrators
                    /\ removed' = removed \cup {a}
    BY <1>9 DEF RemoveOrganization, DeleteOrganization
  <2>2. QED  BY <1>1, <1>3, <2>1 DEF GetOrganization
<1>10. QED  BY <1>4, <1>5, <1>6, <1>7, <1>8, <1>9, RowSteps

LEMMA TargetStep ==
  ASSUME TypeOK, CacheAgrees, SqlIntegrity, RequestsOwned, RequestsHaveTarget, [Next]_vars
  PROVE  RequestsHaveTarget'
<1>1. ASSUME NEW req \in Requests, Owned(req), HasTarget(req)
      PROVE  HasTarget(req)'
  BY <1>1, TargetKept DEF HasTarget, SqlIntegrity
<1>2. ASSUME NEW w \in Workers, NEW req \in CreateOrganizationTx
      PROVE  HasTarget(req)'
  BY DEF HasTarget, CreateOrganizationTx
<1>3. ASSUME NEW w \in Workers, NEW req \in Requests, Authorize(w, req)
      PROVE  HasTarget(req)'
  BY <1>3 DEF HasTarget, Authorize, GetOrganization, sqlVars
<1>4. QED
  BY <1>1, <1>2, <1>3, RequestSteps, CarriedTyped DEF RequestsHaveTarget, RequestsOwned
LEMMA DbStep ==
  ASSUME TypeOK, CacheAgrees, KeysIssued, RequestsOwned, ProcessesKnown, RowsWereAccepted,
         [Next]_vars
  PROVE  RowsWereAccepted'
<1> DEFINE Backed(a, id) == a \in Addrs /\ accountTx[a] # Nil /\ keyOwner[accountTx[a]] = id
           Backs(p, a) == p \in Pids /\ a \in Addrs /\ processTx[p] = a
<1>1. ASSUME NEW a, NEW id \in Ids, Backed(a, id)
      PROVE  Backed(a, id)'
  BY <1>1, HistorySteps, NilIsNoValue DEF TypeOK
<1>2. ASSUME NEW p, NEW a, Backs(p, a)
      PROVE  Backs(p, a)'
  BY <1>2, HistorySteps, NilIsNoValue
<1>3. \A o \in organizations : o.id \in Ids /\ Backed(o.addr, o.id)
  BY DEF RowsWereAccepted, TypeOK, SqlTypeOK, OrganizationRow
<1>4. \A e \in elections : Backs(e.pid, e.addr)
  BY DEF RowsWereAccepted, TypeOK, SqlTypeOK, ElectionRow
<1>5. SUFFICES /\ \A o \in organizations' : \E id \in Ids : o.id = id /\ Backed(o.addr, id)
               /\ \A e \in elections' : Backs(e.pid, e.addr)
  <2>1. ASSUME NEW o \in organizations', NEW id \in Ids, o.id = id, Backed(o.addr, id)
        PROVE  accountTx'[o.addr] # Nil /\ keyOwner'[accountTx'[o.addr]] = o.id
    BY <1>1, <2>1
  <2>2. ASSUME NEW e \in elections', Backs(e.pid, e.addr)
        PROVE  processTx'[e.pid] = e.addr
    BY <1>2, <2>2
  <2>3. QED  BY <2>1, <2>2 DEF RowsWereAccepted
<1> HIDE DEF Backed, Backs
<1>6. CASE SameRows
  BY <1>3, <1>4, <1>6 DEF SameRows
<1>7. ASSUME NEW id \in Ids, NEW k \in Keys,
             \/ \E email \in Emails, profile \in Profiles :
                  AdminCreateIntegrator(id, k, email, profile)
             \/ AdminDeleteIntegrator(id)
      PROVE  organizations' \subseteq organizations /\ elections' \subseteq elections
  BY <1>7 DEF AdminCreateIntegrator, CreateIntegrator, AdminDeleteIntegrator, DeleteIntegrator
<1>8. ASSUME NEW id \in Ids, NEW k \in Keys, AdminResetIntegratorKey(id, k)
      PROVE  /\ \A o \in organizations' : \E p \in organizations :
                  o.addr = p.addr /\ o.id = p.id
             /\ \A e \in elections' : \E f \in elections : e.pid = f.pid /\ e.addr = f.addr
  <2>1. PICK i \in integrators :
          organizations' = Rekey(organizations, i.key, k) /\ elections' = Rekey(elections, i.key, k)
    BY <1>8 DEF AdminResetIntegratorKey, UpdateIntegratorApiKey
  <2>2. \A p \in organizations :
          [p EXCEPT !.key = k].addr = p.addr /\ [p EXCEPT !.key = k].id = p.id
    BY DEF TypeOK, SqlTypeOK, OrganizationRow
  <2>3. \A f \in elections :
          [f EXCEPT !.key = k].addr = f.addr /\ [f EXCEPT !.key = k].pid = f.pid
    BY DEF TypeOK, SqlTypeOK, ElectionRow
  <2>4. \A o \in organizations' : \E p \in organizations : o = p \/ o = [p EXCEPT !.key = k]
    BY <2>1 DEF Rekey
  <2>5. \A e \in elections' : \E f \in elections : e = f \/ e = [f EXCEPT !.key = k]
    BY <2>1 DEF Rekey
  <2>6. QED  BY <2>2, <2>3, <2>4, <2>5
<1>9. ASSUME NEW h \in Hashes, CommitOrganization(h)
      PROVE  /\ \A o \in organizations' : \E id \in Ids : o.id = id /\ Backed(o.addr, id)
             /\ \A e \in elections' : Backs(e.pid, e.addr)
  <2>1. PICK i \in integrators, new \in OrganizationRow :
          /\ i.key = kvTx[h].body.key
          /\ new.addr = kvTx[h].body.addr /\ new.id = i.id
          /\ organizations' = organizations \cup {new}
    BY <1>9 DEF CommitOrganization
  <2>2. kvTx[h] # Nil /\ Owned(kvTx[h].body)
    BY <1>9 DEF CommitOrganization, CommitVisited, CacheAgrees, Pending, RequestsOwned
  <2>3. Backed(new.addr, new.id) /\ new.id \in Ids
    BY <2>1, <2>2 DEF Owned, KeysIssued, Backed, OrganizationRow
  <2>4. elections' = elections
    BY <1>9 DEF CommitOrganization
  <2>5. QED  BY <1>3, <1>4, <2>1, <2>3, <2>4
<1>10. ASSUME NEW h \in Hashes, CommitElection(h)
      PROVE  /\ \A o \in organizations' : \E id \in Ids : o.id = id /\ Backed(o.addr, id)
             /\ \A e \in elections' : Backs(e.pid, e.addr)
  <2> DEFINE body == kvTx[h].body
  <2>1. /\ body \in CreateElectionTx
        /\ organizations' = organizations
        /\ elections' = elections \cup {[pid |-> body.pid, addr |-> body.addr, key |-> body.key]}
    BY <1>10 DEF CommitElection, CreateElection
  <2>2. kvTx[h] # Nil
    BY <1>10 DEF CommitElection, CommitVisited, CacheAgrees, Pending
  <2>3. Backs(body.pid, body.addr)
    BY <2>1, <2>2 DEF ProcessesKnown, CreateElectionTx, Backs
  <2>4. QED  BY <1>3, <1>4, <2>1, <2>3
<1>11. ASSUME NEW w \in Workers, RemoveOrganization(w)
      PROVE  organizations' \subseteq organizations /\ elections' \subseteq elections
  BY <1>11 DEF RemoveOrganization, DeleteOrganization
<1>12. ASSUME \A o \in organizations' : \E p \in organizations : o.addr = p.addr /\ o.id = p.id,
              \A e \in elections' : \E f \in elections : e.pid = f.pid /\ e.addr = f.addr
       PROVE  /\ \A o \in organizations' : \E id \in Ids : o.id = id /\ Backed(o.addr, id)
              /\ \A e \in elections' : Backs(e.pid, e.addr)
  BY <1>3, <1>4, <1>12
<1>13. CASE \E id \in Ids, k \in Keys, email \in Emails, profile \in Profiles :
              AdminCreateIntegrator(id, k, email, profile)
  BY <1>7, <1>12, <1>13
<1>14. CASE \E id \in Ids : AdminDeleteIntegrator(id)
  BY <1>7, <1>12, <1>14 DEF AdminDeleteIntegrator, DeleteIntegrator
<1>15. CASE \E id \in Ids, k \in Keys : AdminResetIntegratorKey(id, k)
  BY <1>8, <1>12, <1>15
<1>16. CASE \E w \in Workers : RemoveOrganization(w)
  BY <1>11, <1>12, <1>16
<1>17. QED
  BY <1>6, <1>9, <1>10, <1>13, <1>14, <1>15, <1>16, RowSteps

LEMMA ElectionStep ==
  ASSUME TypeOK, SqlIntegrity, CacheAgrees, KeysIssued, RequestsOwned, RowsWereAccepted,
         ElectionUnderItsKey, [Next]_vars
  PROVE  ElectionUnderItsKey'
<1> USE DEF ElectionUnderItsKey
<1>1. CASE SameRows
  BY <1>1 DEF SameRows
<1>2. ASSUME NEW id \in Ids, NEW k \in Keys, NEW email \in Emails, NEW profile \in Profiles,
             AdminCreateIntegrator(id, k, email, profile)
      PROVE  ElectionUnderItsKey'
  BY <1>2 DEF AdminCreateIntegrator, CreateIntegrator
<1>3. ASSUME NEW id \in Ids, NEW k \in Keys, AdminResetIntegratorKey(id, k)
      PROVE  ElectionUnderItsKey'
  <2>1. PICK i \in integrators :
          organizations' = Rekey(organizations, i.key, k) /\ elections' = Rekey(elections, i.key, k)
    BY <1>3 DEF AdminResetIntegratorKey, UpdateIntegratorApiKey
  <2> DEFINE New(key) == IF key = i.key THEN k ELSE key
  <2>2. \A p \in organizations : \E o \in organizations' :
          o.addr = p.addr /\ o.key = New(p.key)
    <3> DEFINE Row(p) == IF p.key = i.key THEN [p EXCEPT !.key = k] ELSE p
    <3>1. \A p \in organizations : Row(p).addr = p.addr /\ Row(p).key = New(p.key)
      BY DEF TypeOK, SqlTypeOK, OrganizationRow
    <3>2. organizations' = {Row(p) : p \in organizations}
      BY <2>1 DEF Rekey
    <3> HIDE DEF Row, New
    <3>3. QED  BY <3>1, <3>2
  <2>3. \A e \in elections' : \E f \in elections : e.addr = f.addr /\ e.key = New(f.key)
    <3> DEFINE Row(f) == IF f.key = i.key THEN [f EXCEPT !.key = k] ELSE f
    <3>1. \A f \in elections : Row(f).addr = f.addr /\ Row(f).key = New(f.key)
      BY DEF TypeOK, SqlTypeOK, ElectionRow
    <3>2. elections' = {Row(f) : f \in elections}
      BY <2>1 DEF Rekey
    <3> HIDE DEF Row, New
    <3>3. QED  BY <3>1, <3>2
  <2> HIDE DEF New
  <2>4. QED  BY <2>2, <2>3
<1>4. ASSUME NEW id \in Ids, AdminDeleteIntegrator(id)
      PROVE  ElectionUnderItsKey'
  <2>1. PICK i \in integrators :
          /\ organizations' = organizations \ OrganizationsOf(i)
          /\ elections' = {e \in elections :
                             /\ e.key # i.key
                             /\ \A o \in OrganizationsOf(i) : e.addr # o.addr}
    BY <1>4 DEF AdminDeleteIntegrator, DeleteIntegrator
  <2>2. QED  BY <2>1
<1>5. ASSUME NEW h \in Hashes, CommitOrganization(h)
      PROVE  ElectionUnderItsKey'
  BY <1>5 DEF CommitOrganization
<1>6. ASSUME NEW h \in Hashes, CommitElection(h)
      PROVE  ElectionUnderItsKey'
  <2> DEFINE body == kvTx[h].body
  <2>1. /\ organizations' = organizations
        /\ elections' = elections \cup {[pid |-> body.pid, addr |-> body.addr, key |-> body.key]}
        /\ CanCreateElection(body.key, body.addr, body.pid)
    BY <1>6 DEF CommitElection, CreateElection
  <2>2. PICK o \in organizations : o.addr = body.addr
    BY <2>1 DEF CanCreateElection
  <2>3. PICK i \in integrators : i.key = body.key
    BY <2>1 DEF CanCreateElection, GetIntegratorByKey
  <2>4. Owned(body)
    BY <1>6 DEF CommitElection, CommitVisited, CacheAgrees, Pending, RequestsOwned
  <2>5. o.id = i.id
    BY <2>2, <2>3, <2>4 DEF RowsWereAccepted, Owned, KeysIssued
  <2>6. PICK j \in integrators : j.id = o.id /\ j.key = o.key
    BY DEF SqlIntegrity, OneIntegratorPerOrganization
  <2>7. o.key = body.key
    BY <2>3, <2>5, <2>6 DEF SqlIntegrity, UniqueKeys
  <2>8. QED  BY <2>1, <2>2, <2>7
<1>7. ASSUME NEW w \in Workers, RemoveOrganization(w)
      PROVE  ElectionUnderItsKey'
  <2>1. PICK k, a : /\ organizations' = organizations \ GetOrganization(k, a)
                    /\ elections' = {e \in elections : e.addr # a}
    BY <1>7 DEF RemoveOrganization, DeleteOrganization
  <2>2. QED  BY <2>1 DEF GetOrganization
<1>8. QED  BY <1>1, <1>2, <1>3, <1>4, <1>5, <1>6, <1>7, RowSteps
(* What becomes of a row: it stays, with its address and its integrator, or  *)
(* its organization is recorded as removed.                                  *)
LEMMA RowsKept ==
  ASSUME TypeOK, CacheAgrees, ElectionUnderItsKey, [Next]_vars
  PROVE  /\ \A o \in organizations :
              \/ \E p \in organizations' : p.addr = o.addr /\ p.id = o.id
              \/ o.addr \in removed'
         /\ \A e \in elections :
              \/ \E f \in elections' : f.pid = e.pid /\ f.addr = e.addr
              \/ e.addr \in removed'
<1>1. CASE SameRows
  BY <1>1 DEF SameRows
<1>2. CASE \E id \in Ids, k \in Keys, email \in Emails, profile \in Profiles :
             AdminCreateIntegrator(id, k, email, profile)
  BY <1>2 DEF AdminCreateIntegrator, CreateIntegrator
<1>3. ASSUME NEW id \in Ids, NEW k \in Keys, AdminResetIntegratorKey(id, k)
      PROVE  /\ \A o \in organizations : \E p \in organizations' :
                  p.addr = o.addr /\ p.id = o.id
             /\ \A e \in elections : \E f \in elections' :
                  f.pid = e.pid /\ f.addr = e.addr
  <2>1. PICK i \in integrators :
          organizations' = Rekey(organizations, i.key, k) /\ elections' = Rekey(elections, i.key, k)
    BY <1>3 DEF AdminResetIntegratorKey, UpdateIntegratorApiKey
  <2> DEFINE Row(r) == IF r.key = i.key THEN [r EXCEPT !.key = k] ELSE r
  <2>2. /\ organizations' = {Row(o) : o \in organizations}
        /\ elections' = {Row(e) : e \in elections}
    BY <2>1 DEF Rekey
  <2>3. /\ \A o \in organizations : Row(o).addr = o.addr /\ Row(o).id = o.id
        /\ \A e \in elections : Row(e).addr = e.addr /\ Row(e).pid = e.pid
    BY DEF TypeOK, SqlTypeOK, OrganizationRow, ElectionRow
  <2> HIDE DEF Row
  <2>4. QED  BY <2>2, <2>3
<1>4. ASSUME NEW id \in Ids, AdminDeleteIntegrator(id)
      PROVE  /\ \A o \in organizations : o \in organizations' \/ o.addr \in removed'
             /\ \A e \in elections : e \in elections' \/ e.addr \in removed'
  <2>1. PICK i \in integrators :
          /\ organizations' = organizations \ OrganizationsOf(i)
          /\ elections' = {e \in elections :
                             /\ e.key # i.key
                             /\ \A o \in OrganizationsOf(i) : e.addr # o.addr}
    BY <1>4 DEF AdminDeleteIntegrator, DeleteIntegrator
  <2>2. removed' = removed \cup {o.addr : o \in organizations \ organizations'}
    BY <1>4 DEF AdminDeleteIntegrator
  <2>3. \A o \in OrganizationsOf(i) : o.addr \in removed'
    BY <2>1, <2>2 DEF OrganizationsOf
  <2>4. ASSUME NEW e \in elections, e.key = i.key
        PROVE  e.addr \in removed'
    <3>1. PICK o \in organizations : o.addr = e.addr /\ o.key = e.key
      BY DEF ElectionUnderItsKey
    <3>2. QED  BY <2>3, <2>4, <3>1 DEF OrganizationsOf
  <2>5. QED  BY <2>1, <2>3, <2>4
<1>5. ASSUME NEW h \in Hashes, CommitOrganization(h) \/ CommitElection(h)
      PROVE  organizations \subseteq organizations' /\ elections \subseteq elections'
  BY <1>5 DEF CommitOrganization, CommitElection, CreateElection
<1>6. ASSUME NEW w \in Workers, RemoveOrganization(w)
      PROVE  /\ \A o \in organizations : o \in organizations' \/ o.addr \in removed'
             /\ \A e \in elections : e \in elections' \/ e.addr \in removed'
  <2>1. PICK k, a : /\ organizations' = organizations \ GetOrganization(k, a)
                    /\ elections' = {e \in elections : e.addr # a}
                    /\ removed' = removed \cup {a}
    BY <1>6 DEF RemoveOrganization, DeleteOrganization
  <2>2. QED  BY <2>1 DEF GetOrganization
<1>7. QED  BY <1>1, <1>2, <1>3, <1>4, <1>5, <1>6, RowSteps

(* A row appears only when the monitor commits, and an organization is    *)
(* recorded as removed only when it had a row.                            *)
LEMMA RowsAppear ==
  ASSUME TypeOK, CacheAgrees, [Next]_vars, NEW a \in Addrs
  PROVE  /\ HasRow(a)' => \/ HasRow(a)
                          \/ \E h \in Hashes :
                               CommitVisited(h) /\ Caching(h, a) /\ fate'[h] = "committed"
         /\ a \in removed' => a \in removed \/ HasRow(a)
<1>1. CASE SameRows
  BY <1>1 DEF SameRows, HasRow
<1>2. CASE \E id \in Ids, k \in Keys, email \in Emails, profile \in Profiles :
             AdminCreateIntegrator(id, k, email, profile)
  BY <1>2 DEF AdminCreateIntegrator, CreateIntegrator, HasRow
<1>3. ASSUME NEW id \in Ids, NEW k \in Keys, AdminResetIntegratorKey(id, k)
      PROVE  (HasRow(a)' => HasRow(a)) /\ removed' = removed
  <2>1. PICK i \in integrators : organizations' = Rekey(organizations, i.key, k)
    BY <1>3 DEF AdminResetIntegratorKey, UpdateIntegratorApiKey
  <2>2. \A o \in organizations : [o EXCEPT !.key = k].addr = o.addr
    BY DEF TypeOK, SqlTypeOK, OrganizationRow
  <2>3. QED  BY <1>3, <2>1, <2>2 DEF Rekey, HasRow, AdminResetIntegratorKey
<1>4. ASSUME NEW id \in Ids, AdminDeleteIntegrator(id)
      PROVE  (HasRow(a)' => HasRow(a)) /\ (a \in removed' => a \in removed \/ HasRow(a))
  BY <1>4 DEF AdminDeleteIntegrator, DeleteIntegrator, HasRow
<1>5. ASSUME NEW h \in Hashes, CommitOrganization(h)
      PROVE  /\ HasRow(a)' => HasRow(a) \/ (Caching(h, a) /\ fate'[h] = "committed")
             /\ CommitVisited(h) /\ removed' = removed
  <2>1. kvTx[h] # Nil
    BY <1>5 DEF CommitOrganization, CommitVisited, CacheAgrees, Pending
  <2>2. kvTx[h].body.type = "createOrganization"
    BY <1>5 DEF CommitOrganization, CreateOrganizationTx
  <2>3. QED  BY <1>5, <2>1, <2>2 DEF CommitOrganization, HasRow, Caching
<1>6. ASSUME NEW h \in Hashes, CommitElection(h)
      PROVE  (HasRow(a)' => HasRow(a)) /\ removed' = removed
  BY <1>6 DEF CommitElection, CreateElection, HasRow
<1>7. ASSUME NEW w \in Workers, RemoveOrganization(w)
      PROVE  (HasRow(a)' => HasRow(a)) /\ (a \in removed' => a \in removed \/ HasRow(a))
  <2>1. PICK k, b : /\ organizations' = organizations \ GetOrganization(k, b)
                    /\ GetOrganization(k, b) # {}
                    /\ removed' = removed \cup {b}
    BY <1>7 DEF RemoveOrganization, DeleteOrganization
  <2>2. QED  BY <2>1 DEF GetOrganization, HasRow
<1>8. QED  BY <1>1, <1>2, <1>3, <1>4, <1>5, <1>6, <1>7, RowSteps

LEMMA VisibleStep ==
  ASSUME TypeOK, CacheAgrees, KeysIssued, RequestsOwned, ProcessesKnown, ElectionUnderItsKey,
         HashesDrawn, CommittedIsVisible, [Next]_vars
  PROVE  CommittedIsVisible'
<1> DEFINE OrganizationVisible(body) ==
             \/ \E o \in organizations : o.addr = body.addr /\ o.id = keyOwner[body.key]
             \/ body.addr \in removed
           ElectionVisible(body) ==
             \/ \E e \in elections : e.pid = body.pid /\ e.addr = body.addr
             \/ body.addr \in removed
<1>1. SUFFICES ASSUME NEW h \in Hashes, fate'[h] = "committed"
               PROVE  /\ cached'[h].type = "createOrganization" =>
                           OrganizationVisible(cached[h])'
                      /\ cached'[h].type = "createElection" => ElectionVisible(cached[h])'
  BY DEF CommittedIsVisible
<1>2. removed \subseteq removed'
  BY HistorySteps
<1>3. cached'[h] = cached[h]
  BY <1>1, CacheSteps
<1>4. CASE fate[h] = "committed"
  <2>1. cached[h] \in TxBody
    BY <1>4 DEF CacheAgrees, TypeOK
  <2>2. cached[h].key \in Keys
    BY <2>1, RequestFields DEF Requests
  <2>3. ASSUME cached[h].type = "createOrganization" PROVE OrganizationVisible(cached[h])'
    <3>1. OrganizationVisible(cached[h])
      BY <1>4, <2>3 DEF CommittedIsVisible
    <3>2. \A o \in organizations : o.id = keyOwner[cached[h].key] =>
            keyOwner'[cached[h].key] = keyOwner[cached[h].key]
      BY <2>2, HistorySteps, NilIsNoValue DEF TypeOK, SqlTypeOK, OrganizationRow
    <3>3. QED  BY <1>2, <1>3, <3>1, <3>2, RowsKept
  <2>4. ASSUME cached[h].type = "createElection" PROVE ElectionVisible(cached[h])'
    <3>1. ElectionVisible(cached[h])
      BY <1>4, <2>4 DEF CommittedIsVisible
    <3>2. QED  BY <1>2, <1>3, <3>1, RowsKept
  <2>5. QED  BY <1>3, <2>3, <2>4
<1>5. CASE fate[h] # "committed"
  <2>1. CommitVisited(h)
    BY <1>1, <1>5, CacheSteps
  <2>2. /\ kvTx[h] \in SerializableTx /\ cached[h] = kvTx[h].body
        /\ Commit(cached[h]) /\ keyOwner' = keyOwner
    BY <1>1, <1>5, <2>1, VisitFacts, NilIsNoEntry DEF CacheAgrees, Failed
  <2>3. ASSUME cached[h].type = "createOrganization" PROVE OrganizationVisible(cached[h])'
    <3> DEFINE body == cached[h]
    <3>1. CreateOrganization(body.key, body.addr, body.cipher, Nil, Empty, body.token, body.uri)
      BY <2>2, <2>3 DEF Commit
    <3>2. PICK i \in integrators :
            /\ i.key = body.key
            /\ organizations' = organizations \cup
                 {[addr |-> body.addr, id |-> i.id, key |-> i.key, uri |-> body.uri,
                   token |-> body.token, cipher |-> body.cipher, plan |-> Nil, quota |-> Empty]}
      BY <3>1 DEF CreateOrganization, GetIntegratorByKey
    <3>3. keyOwner[body.key] = i.id
      BY <3>2 DEF KeysIssued
    <3>4. \E o \in organizations' : o.addr = body.addr /\ o.id = i.id
      <4> DEFINE row == [addr |-> body.addr, id |-> i.id, key |-> i.key, uri |-> body.uri,
                         token |-> body.token, cipher |-> body.cipher, plan |-> Nil,
                         quota |-> Empty]
      <4>1. row \in organizations' /\ row.addr = body.addr /\ row.id = i.id
        BY <3>2
      <4>2. QED  BY <4>1
    <3>5. QED  BY <1>3, <2>2, <3>3, <3>4
  <2>4. ASSUME cached[h].type = "createElection" PROVE ElectionVisible(cached[h])'
    <3> DEFINE row == [pid |-> cached[h].pid, addr |-> cached[h].addr, key |-> cached[h].key]
    <3>1. elections' = elections \cup {row}
      BY <2>2, <2>4 DEF Commit, CreateElection
    <3>2. row.pid = cached[h].pid /\ row.addr = cached[h].addr
      OBVIOUS
    <3> HIDE DEF row
    <3>3. QED  BY <1>3, <3>1, <3>2
  <2>5. QED  BY <1>3, <2>3, <2>4
<1>6. QED  BY <1>4, <1>5
-----------------------------------------------------------------------------
(* One carrier for each account, and no second try without a failure. *)

(* A creation under way has its account, and a new one has none before it. *)
LEMMA CreatingSteps ==
  ASSUME TypeOK, RequestsOwned, [Next]_vars, NEW w \in Workers, NEW a \in Addrs,
         Creating(w, a)'
  PROVE  \/ Creating(w, a)
         \/ /\ accountTx[a] = Nil
            /\ UNCHANGED <<organizations, kvTx, removed>>
            /\ \A v \in Workers : v # w => worker'[v] = worker[v]
<1>1. CASE Busy(w) /\ worker'[w].req = worker[w].req
  BY <1>1 DEF Creating
<1>2. ASSUME NEW req \in CreateOrganizationTx, SubmitOrganization(w, req), worker'[w].req = req
      PROVE  /\ accountTx[a] = Nil
             /\ UNCHANGED <<organizations, kvTx, removed>>
             /\ \A v \in Workers : v # w => worker'[v] = worker[v]
  BY <1>2 DEF SubmitOrganization, Creating, Become, sqlVars, kvVars, TypeOK
<1>3. ASSUME NEW req \in Requests \ CreateOrganizationTx, worker'[w].req = req
      PROVE  FALSE
  BY <1>3, CreateFields DEF Creating
<1>4. QED  BY <1>1, <1>2, <1>3, RequestSteps DEF Creating

LEMMA CachingSteps ==
  ASSUME TypeOK, [Next]_vars, NEW h \in Hashes, NEW a \in Addrs, Caching(h, a)'
  PROVE  \/ Caching(h, a) /\ (fate'[h] = "pending" => fate[h] = "pending")
         \/ \E w \in Workers :
              Enqueue(w) /\ h = worker[w].hash /\ Creating(w, a) /\ ~Busy(w)'
<1>1. CASE kvTx[h] # Nil /\ kvTx'[h].body = kvTx[h].body
  <2>1. Caching(h, a)
    BY <1>1 DEF Caching
  <2>2. CASE fate'[h] = "pending" /\ fate[h] # "pending"
    <3>1. PICK w \in Workers :
            Enqueue(w) /\ h = worker[w].hash /\ kvTx'[h].body = worker[w].req
      BY <2>2, CacheSteps
    <3>2. Busy(w) /\ ~Busy(w)'
      BY <3>1, EnqueueFacts DEF Busy, Idle
    <3>3. QED  BY <3>1, <3>2 DEF Caching, Creating
  <2>3. QED  BY <2>1, <2>2
<1>2. ASSUME NEW w \in Workers, Enqueue(w), h = worker[w].hash, Busy(w), ~Busy(w)',
             kvTx'[h].body = worker[w].req
      PROVE  Creating(w, a)
  BY <1>2 DEF Caching, Creating
<1>3. QED  BY <1>1, <1>2, RequestSteps DEF Caching

LEMMA CarrierStep ==
  ASSUME TypeOK, SqlIntegrity, CacheAgrees, RequestsOwned, ProcessesKnown, RowsWereAccepted,
         OneCarrier, [Next]_vars
  PROVE  OneCarrier'
<1>1. ASSUME NEW a \in Addrs, HasRow(a) \/ a \in removed
      PROVE  accountTx[a] # Nil
  BY <1>1 DEF HasRow, RowsWereAccepted, OneCarrier
<1>2. ASSUME NEW a \in removed' PROVE accountTx'[a] # Nil
  <2>1. a \in Addrs
    BY <1>2, TypeStep DEF TypeOK
  <2>2. a \in removed \/ HasRow(a)
    BY <1>2, <2>1, RowsAppear
  <2>3. QED  BY <1>1, <2>1, <2>2, HistorySteps
<1>3. ASSUME NEW a \in Addrs, NEW w \in Workers, Creating(w, a) PROVE accountTx[a] # Nil
  BY <1>3 DEF Creating, RequestsOwned, Owned
<1>4. ASSUME NEW a \in Addrs, NEW h \in Hashes, Caching(h, a) PROVE accountTx[a] # Nil
  BY <1>4 DEF Caching, RequestsOwned, Owned
<1>5. ASSUME NEW w \in Workers, NEW a \in Addrs, Creating(w, a)'
      PROVE  /\ ~HasRow(a)' /\ a \notin removed'
             /\ \A v \in Workers : v # w => ~Creating(v, a)'
             /\ \A h \in Hashes : ~Caching(h, a)'
  <2>1. CASE /\ accountTx[a] = Nil
             /\ UNCHANGED <<organizations, kvTx, removed>>
             /\ \A v \in Workers : v # w => worker'[v] = worker[v]
    BY <1>1, <1>3, <1>4, <2>1 DEF HasRow, Creating, Busy, Caching
  <2>2. CASE Creating(w, a)
    <3>1. /\ ~HasRow(a) /\ a \notin removed
          /\ \A v \in Workers : v # w => ~Creating(v, a)
          /\ \A h \in Hashes : ~Caching(h, a)
      BY <2>2 DEF OneCarrier
    <3>2. ~HasRow(a)' /\ a \notin removed'
      BY <3>1, RowsAppear
    <3>3. accountTx[a] # Nil
      BY <1>3, <2>2
    <3>4. \A v \in Workers : v # w => ~Creating(v, a)'
      BY <3>1, <3>3, CreatingSteps
    <3>5. Busy(w)'
      BY <1>5 DEF Creating
    <3>6. \A h \in Hashes : ~Caching(h, a)'
      BY <3>1, <3>5, CachingSteps
    <3>7. QED  BY <3>2, <3>4, <3>6
  <2>3. QED  BY <1>5, <2>1, <2>2, CreatingSteps
<1>6. ASSUME NEW h \in Hashes, NEW a \in Addrs, Caching(h, a)'
      PROVE  /\ \A g \in Hashes : g # h => ~Caching(g, a)'
             /\ fate'[h] = "pending" => ~HasRow(a)' /\ a \notin removed'
  <2>1. ASSUME NEW w \in Workers, Creating(w, a), Enqueue(w), h = worker[w].hash
        PROVE  /\ \A g \in Hashes : g # h => ~Caching(g, a)'
               /\ ~HasRow(a)' /\ a \notin removed'
    <3>1. /\ ~HasRow(a) /\ a \notin removed
          /\ \A v \in Workers : v # w => ~Creating(v, a)
          /\ \A g \in Hashes : ~Caching(g, a)
      BY <2>1 DEF OneCarrier
    <3>2. QED  BY <2>1, <3>1, RowsAppear, CachingSteps
  <2>2. ASSUME Caching(h, a), fate'[h] = "pending" => fate[h] = "pending"
        PROVE  /\ \A g \in Hashes : g # h => ~Caching(g, a)'
               /\ fate'[h] = "pending" => ~HasRow(a)' /\ a \notin removed'
    <3>1. /\ \A g \in Hashes : g # h => ~Caching(g, a)
          /\ fate[h] = "pending" => ~HasRow(a) /\ a \notin removed
          /\ \A w \in Workers : ~Creating(w, a)
      BY <2>2 DEF OneCarrier
    <3>2. \A g \in Hashes : g # h => ~Caching(g, a)'
      BY <3>1, CachingSteps
    <3>3. ASSUME fate'[h] = "pending"
          PROVE  ~HasRow(a)' /\ a \notin removed'
      BY <2>2, <3>1, <3>3, RowsAppear
    <3>4. QED  BY <3>2, <3>3
  <2>3. QED  BY <1>6, <2>1, <2>2, CachingSteps
<1>7. QED  BY <1>2, <1>5, <1>6 DEF OneCarrier

LEMMA FailureSteps ==
  ASSUME TypeOK, [Next]_vars
  PROVE  /\ crashes' \in Nat /\ faults' \in Nat
         /\ crashes' >= crashes /\ faults' >= faults
         /\ \/ cur' = cur
            \/ \E h \in Hashes : CommitVisited(h)
            \/ DeleteVisited
            \/ crashes' > crashes
<1> USE DEF TypeOK
<1>1. ASSUME NEW w \in Workers, Handler(w)
      PROVE  cur' = cur /\ crashes' = crashes /\ (faults' = faults \/ faults' = faults + 1)
  BY <1>1 DEF Handler, HandlerUnchanged, monitorVars, SubmitOrganization, Authorize, Submit,
       Refuse, LoseAnswer, StoreTime, Enqueue, EnqueueFails, RemoveOrganization
<1>2. ASSUME Admin
      PROVE  cur' = cur /\ crashes' = crashes /\ faults' = faults
  BY <1>2 DEF Admin, AdminCreateIntegrator, AdminUpdateIntegrator, AdminResetIntegratorKey,
       AdminDeleteIntegrator, AdminUnchanged, monitorVars, bounds
<1>3. ASSUME Monitor
      PROVE  /\ crashes' = crashes /\ (faults' = faults \/ faults' = faults + 1)
             /\ \/ cur' = cur
                \/ \E h \in Hashes : CommitVisited(h)
                \/ DeleteVisited
  BY <1>3 DEF Monitor, MonitorUnchanged, BeginIteration, CommitVisited, DeleteVisited
<1>4. ASSUME Crash
      PROVE  crashes' = crashes + 1 /\ faults' = faults
  BY <1>4 DEF Crash
<1>5. ASSUME \/ \E k \in Keys, a \in Addrs, token \in Tokens : ResetOrganizationKey(k, a, token)
             \/ \E h \in Hashes : ConfirmTx(h)
             \/ Tick
             \/ UNCHANGED vars
      PROVE  cur' = cur /\ crashes' = crashes /\ faults' = faults
  BY <1>5 DEF ResetOrganizationKey, HandlerUnchanged, ConfirmTx, Tick, vars, monitorVars, bounds
<1>6. QED  BY <1>1, <1>2, <1>3, <1>4, <1>5 DEF Next

LEMMA ReplayStep ==
  ASSUME TypeOK, CacheAgrees, ReplayNeedsFailure, [Next]_vars
  PROVE  ReplayNeedsFailure'
<1> SUFFICES ASSUME crashes' = 0, faults' = 0, NEW h \in Hashes, kvTx'[h] # Nil,
                    fate'[h] # "pending"
             PROVE  h = cur'
  BY DEF ReplayNeedsFailure
<1>1. crashes = 0 /\ faults = 0 /\ crashes' = crashes /\ faults' = faults
  BY FailureSteps DEF TypeOK
<1>2. kvTx[h] # Nil
  BY CacheSteps, EnqueueFacts
<1>3. fate[h] = "pending" \/ h = cur
  BY <1>1, <1>2 DEF ReplayNeedsFailure
<1>4. ASSUME CommitVisited(h) PROVE h = cur'
  BY <1>4, VisitFacts
<1>5. CASE fate[h] = "pending"
  BY <1>4, <1>5, CacheSteps
<1>6. CASE h = cur
  <2>1. cur # Nil
    BY <1>6, NilIsNoEntry
  <2>2. \A g \in Hashes : ~CommitVisited(g)
    BY <2>1 DEF CommitVisited
  <2>3. ASSUME DeleteVisited PROVE FALSE
    <3>1. kvTx' = [kvTx EXCEPT ![h] = Nil]
      BY <1>1, <1>6, <2>3 DEF DeleteVisited, DeleteTx, TypeOK
    <3>2. QED  BY <3>1 DEF TypeOK, KvTypeOK
  <2>4. QED  BY <1>1, <1>6, <2>2, <2>3, FailureSteps DEF TypeOK
<1>7. QED  BY <1>3, <1>5, <1>6
-----------------------------------------------------------------------------
(* Everything at once. *)

LEMMA InitInv == Init => IInv
<1> SUFFICES ASSUME Init PROVE IInv
  OBVIOUS
<1> USE DEF Init, SqlInit, KvInit
<1>1. TypeOK
  BY DEF TypeOK, SqlTypeOK, KvTypeOK, WorkerState, Fates
<1>2. SqlIntegrity
  BY DEF SqlIntegrity, UniqueKeys, OneIntegratorPerOrganization, NoDanglingElection, NoDanglingPlan
<1>3. KeysIssued /\ RowsWereAccepted /\ ElectionUnderItsKey /\ CommittedIsVisible
  BY DEF KeysIssued, RowsWereAccepted, ElectionUnderItsKey, CommittedIsVisible
<1>4. \A w \in Workers : ~Busy(w) /\ worker[w].pc # "timed"
  BY DEF Busy, Idle
<1>5. RequestsOwned /\ RequestsHaveTarget /\ ProcessesKnown /\ HashesDrawn
  BY <1>4 DEF RequestsOwned, RequestsHaveTarget, ProcessesKnown, HashesDrawn
<1>6. CacheAgrees /\ OneCarrier /\ ReplayNeedsFailure
  BY <1>4 DEF CacheAgrees, OneCarrier, Creating, Caching, ReplayNeedsFailure
<1>7. QED  BY <1>1, <1>2, <1>3, <1>5, <1>6 DEF IInv

LEMMA InductiveStep == IInv /\ [Next]_vars => IInv'
<1> SUFFICES ASSUME IInv, [Next]_vars PROVE IInv'
  OBVIOUS
<1> USE DEF IInv
<1>1. TypeOK' /\ SqlIntegrity'
  BY TypeStep
<1>2. KeysIssued' /\ RequestsOwned' /\ RequestsHaveTarget'
  BY KeysStep, OwnedStep, TargetStep
<1>3. ProcessesKnown' /\ HashesDrawn' /\ CacheAgrees'
  BY ProcessStep, HashesStep, CacheStep
<1>4. OneCarrier' /\ ReplayNeedsFailure'
  BY CarrierStep, ReplayStep
<1>5. RowsWereAccepted' /\ ElectionUnderItsKey' /\ CommittedIsVisible'
  BY DbStep, ElectionStep, VisibleStep
<1>6. QED  BY <1>1, <1>2, <1>3, <1>4, <1>5
(* The invariant holds of every state the write path reaches, with any       *)
(* number of concurrent handlers, crashes and failed operations.             *)
THEOREM Invariant == Spec => []IInv
<1>1. QED  BY InitInv, InductiveStep, PTL DEF Spec

(* No step puts a value of another type anywhere.                            *)
THEOREM TypeCorrect == Spec => []TypeOK
<1>1. IInv => TypeOK
  BY DEF IInv
<1>2. QED  BY <1>1, Invariant, PTL

(* The tables stay consistent whatever handlers, the monitor and the         *)
(* super-admin do to them at the same time.                                  *)
THEOREM IntegrityKept == Spec => []SqlIntegrity
<1>1. IInv => SqlIntegrity
  BY DEF IInv
<1>2. QED  BY <1>1, Invariant, PTL

(* The database never holds an organization or an election whose transaction *)
(* no gateway accepted before, under the integrator that made it.            *)
THEOREM AcceptedFirst == Spec => []RowsWereAccepted
<1>1. IInv => RowsWereAccepted
  BY DEF IInv
<1>2. QED  BY <1>1, Invariant, PTL

(* Key resets and the commits of elections that were authorized with an      *)
(* earlier key never leave an election under a key that is not its           *)
(* organization's.                                                           *)
THEOREM ElectionKeys == Spec => []ElectionUnderItsKey
<1>1. IInv => ElectionUnderItsKey
  BY DEF IInv
<1>2. QED  BY <1>1, Invariant, PTL

(* The order in which the monitor meets the hashes never makes a             *)
(* transaction fail: what it is about is there, or was deleted.              *)
THEOREM TargetsReady == Spec => []PendingHasTarget
<1>1. IInv => PendingHasTarget
  BY DEF IInv, RequestsHaveTarget, HasTarget, PendingHasTarget, Pending
<1>2. QED  BY <1>1, Invariant, PTL

(* What was committed can be seen until it is deleted.                       *)
THEOREM CommitsVisible == Spec => []CommittedIsVisible
<1>1. IInv => CommittedIsVisible
  BY DEF IInv
<1>2. QED  BY <1>1, Invariant, PTL

(* Without a crash and without a failed operation, an organization that was  *)
(* deleted never comes back.                                                 *)
THEOREM DeletionIsFinal == Spec => DeletedStaysDeleted
<1> DEFINE Final == \A a \in removed : ~HasRow(a) /\ HasRow(a)' => crashes + faults > 0
<1>1. ASSUME IInv, [Next]_vars
      PROVE  Final
  <2> SUFFICES ASSUME NEW a \in removed, ~HasRow(a), HasRow(a)'
               PROVE  crashes + faults > 0
    OBVIOUS
  <2>1. a \in Addrs
    BY <1>1 DEF IInv, TypeOK
  <2>2. PICK h \in Hashes : CommitVisited(h) /\ Caching(h, a)
    BY <1>1, <2>1, RowsAppear DEF IInv
  <2>3. fate[h] # "pending"
    BY <1>1, <2>1, <2>2 DEF IInv, OneCarrier
  <2>4. h # cur
    BY <2>2, NilIsNoEntry DEF CommitVisited
  <2>5. ~(crashes = 0 /\ faults = 0)
    BY <1>1, <2>2, <2>3, <2>4 DEF IInv, ReplayNeedsFailure, Caching
  <2>6. QED  BY <1>1, <2>5 DEF IInv, TypeOK
<1>2. IInv /\ [Next]_vars => [Final]_vars
  BY <1>1
<1>3. QED  BY <1>2, Invariant, PTL DEF Spec, DeletedStaysDeleted

-----------------------------------------------------------------------------
(* The cache implements the outbox. *)

LEMMA OutboxStep ==
  ASSUME IInv, [Next]_vars
  PROVE  [Outbox!OutboxNext]_<<Pending, Settled, confirmed>>
<1> DEFINE Waits(h) == kvTx[h] # Nil
           Done(h) == \/ fate[h] \in {"committed", "failed"} /\ kvTx[h] = Nil
                      \/ fate[h] = "none" /\ h \in issued
<1> USE DEF IInv
<1>1. \A h \in Hashes : /\ h \in Pending <=> Waits(h)
                        /\ h \in Settled <=> Done(h)
  BY DEF Pending, Settled
<1>2. \A h \in Hashes : /\ h \in Pending' <=> Waits(h)'
                        /\ h \in Settled' <=> Done(h)'
  BY DEF Pending, Settled
<1>3. Pending \subseteq Hashes /\ Settled \subseteq Hashes
  BY DEF Pending, Settled
<1>4. Pending' \subseteq Hashes /\ Settled' \subseteq Hashes
  BY DEF Pending, Settled
<1> DEFINE Same(S) == \A h \in Hashes \ S : (Waits(h)' <=> Waits(h)) /\ (Done(h)' <=> Done(h))
<1>5. ASSUME Same({}), confirmed' = confirmed
      PROVE  UNCHANGED <<Pending, Settled, confirmed>>
  <2>1. Pending' = Pending
    BY <1>1, <1>2, <1>3, <1>4, <1>5
  <2>2. Settled' = Settled
    BY <1>1, <1>2, <1>3, <1>4, <1>5
  <2>3. QED  BY <1>5, <2>1, <2>2
<1>6. ASSUME NEW w \in Workers, NEW h \in Hashes, Enqueue(w), h = worker[w].hash
      PROVE  Outbox!Accept(h)
  <2>1. ~Waits(h) /\ ~Done(h)
    BY <1>6, EnqueueFacts DEF HashesDrawn
  <2>2. /\ kvTx' = [kvTx EXCEPT ![h] = [body |-> worker[w].req, age |-> 0]]
        /\ fate' = [fate EXCEPT ![h] = "pending"]
        /\ issued' = issued \/ issued' = issued \cup {h}
        /\ confirmed' = confirmed
    BY <1>6 DEF Enqueue, HandlerUnchanged, StoreTx
  <2>3. kvTx'[h] # Nil
    BY <1>6, CacheSteps, EnqueueFacts, TypeStep, NilIsNoEntry DEF CacheAgrees
  <2>4. Waits(h)' /\ ~Done(h)'
    BY <2>2, <2>3 DEF TypeOK
  <2>5. Same({h})
    BY <2>2 DEF TypeOK, KvTypeOK
  <2> HIDE DEF Waits, Done
  <2>6. Pending' = Pending \cup {h} /\ Settled' = Settled
    BY <1>1, <1>2, <1>3, <1>4, <2>1, <2>4, <2>5
  <2>7. h \notin Pending \cup Settled
    BY <1>1, <2>1
  <2>8. QED  BY <2>2, <2>6, <2>7 DEF Outbox!Accept
<1>7. ASSUME NEW w \in Workers, NEW h \in Hashes, StoreTime(w, h)
      PROVE  Outbox!AcceptSettled(h) \/ UNCHANGED <<Pending, Settled, confirmed>>
  <2>1. /\ kvTx' = kvTx /\ fate' = fate /\ confirmed' = confirmed
        /\ issued' = issued \/ issued' = issued \cup {h}
        /\ kvTime[h] = Nil /\ kvTx[h] = Nil /\ fate[h] = "none"
    BY <1>7 DEF StoreTime, HandlerUnchanged, txVars
  <2>2. CASE issued' = issued
    BY <1>5, <2>1, <2>2
  <2>3. CASE issued' = issued \cup {h}
    <3>1. ~Waits(h) /\ ~Done(h) /\ ~Waits(h)' /\ Done(h)' /\ Same({h})
      BY <2>1, <2>3 DEF HashesDrawn
    <3> HIDE DEF Waits, Done
    <3>2. Pending' = Pending /\ Settled' = Settled \cup {h}
      BY <1>1, <1>2, <1>3, <1>4, <3>1
    <3>3. h \notin Pending \cup Settled
      BY <1>1, <3>1
    <3>4. QED  BY <2>1, <3>2, <3>3 DEF Outbox!AcceptSettled
  <2>4. QED  BY <2>1, <2>2, <2>3
<1>8. ASSUME NEW h \in Hashes, CommitVisited(h)
      PROVE  UNCHANGED <<Pending, Settled, confirmed>>
  <2>1. kvTx[h] # Nil /\ fate[h] # "none"
    BY <1>8, VisitFacts, NilIsNoEntry DEF CacheAgrees
  <2>2. issued' = issued /\ confirmed' = confirmed
    BY <1>8 DEF CommitVisited, MonitorUnchanged, clientVars
  <2>3. Same({})
    BY <1>8, <2>1, <2>2, VisitFacts
  <2>4. QED  BY <1>5, <2>2, <2>3
<1>9. ASSUME DeleteVisited
      PROVE  Outbox!Settle(cur) \/ UNCHANGED <<Pending, Settled, confirmed>>
  <2>1. /\ cur \in Hashes /\ Waits(cur) /\ fate[cur] \in {"committed", "failed"}
        /\ fate' = fate /\ issued' = issued /\ confirmed' = confirmed
        /\ kvTx' = [kvTx EXCEPT ![cur] = Nil] \/ kvTx' = kvTx
    BY <1>9 DEF DeleteVisited, DeleteTx, CacheAgrees, Pending, MonitorUnchanged, clientVars,
         TypeOK
  <2>2. CASE kvTx' = kvTx
    BY <1>5, <2>1, <2>2
  <2>3. CASE kvTx' = [kvTx EXCEPT ![cur] = Nil]
    <3>1. PICK h \in Hashes : h = cur
      BY <2>1
    <3>2. Waits(h) /\ ~Done(h) /\ ~Waits(h)' /\ Done(h)' /\ Same({h})
      BY <2>1, <2>3, <3>1 DEF TypeOK, KvTypeOK
    <3> HIDE DEF Waits, Done
    <3>3. Pending' = Pending \ {h} /\ Settled' = Settled \cup {h} /\ h \in Pending
      BY <1>1, <1>2, <1>3, <1>4, <3>2
    <3>4. QED  BY <2>1, <3>1, <3>3 DEF Outbox!Settle
  <2>4. QED  BY <2>1, <2>2, <2>3
<1>10. ASSUME NEW h \in Hashes, ConfirmTx(h)
       PROVE  Outbox!Tell(h)
  <2>1. /\ h \in issued /\ kvTx[h] = Nil /\ confirmed' = confirmed \cup {h}
        /\ UNCHANGED <<kvTx, fate, issued>>
    BY <1>10 DEF ConfirmTx, StatusIsMined, kvVars, txVars
  <2>2. Done(h)
    BY <2>1 DEF CacheAgrees, TypeOK, Fates
  <2>3. Same({})
    BY <2>1
  <2> HIDE DEF Waits, Done
  <2>4. Pending' = Pending /\ Settled' = Settled
    BY <1>1, <1>2, <1>3, <1>4, <2>3
  <2>5. QED  BY <1>1, <2>1, <2>2, <2>4 DEF Outbox!Tell
<1>11. ASSUME Tick PROVE UNCHANGED <<Pending, Settled, confirmed>>
  <2>1. /\ fate' = fate /\ issued' = issued /\ confirmed' = confirmed
        /\ \A h \in Hashes : kvTx'[h] = Nil <=> kvTx[h] = Nil
    <3>1. \A h \in Hashes : kvTx[h] # Nil => [kvTx[h] EXCEPT !.age = Older(@)] # Nil
      <4>1. \A age \in Ages : Older(age) \in Ages
        BY CacheConstants DEF Ages, Old, Older
      <4>2. \A tx \in SerializableTx : [tx EXCEPT !.age = Older(@)] \in SerializableTx
        BY <4>1 DEF SerializableTx
      <4>3. QED  BY <4>2, NilIsNoEntry DEF KvTypeOK, TypeOK
    <3>2. QED  BY <1>11, <3>1 DEF Tick, Age, clientVars, txVars
  <2>2. QED  BY <1>5, <2>1
<1>12. ASSUME \/ Admin \/ BeginIteration \/ Crash \/ UNCHANGED vars
              \/ \E k \in Keys, a \in Addrs, token \in Tokens : ResetOrganizationKey(k, a, token)
       PROVE  UNCHANGED <<Pending, Settled, confirmed>>
  <2>1. UNCHANGED <<kvTx, fate, issued, confirmed>>
    BY <1>12 DEF Admin, AdminCreateIntegrator, AdminUpdateIntegrator, AdminResetIntegratorKey,
         AdminDeleteIntegrator, AdminUnchanged, BeginIteration, MonitorUnchanged, Crash, vars,
         ResetOrganizationKey, HandlerUnchanged, kvVars, clientVars, txVars
  <2>2. QED  BY <1>5, <2>1
<1>13. ASSUME NEW w \in Workers, NEW req,
              \/ SubmitOrganization(w, req) \/ Authorize(w, req) \/ Submit(w) \/ Refuse(w)
              \/ LoseAnswer(w) \/ EnqueueFails(w) \/ RemoveOrganization(w)
       PROVE  UNCHANGED <<Pending, Settled, confirmed>>
  <2>1. UNCHANGED <<kvTx, fate, issued, confirmed>>
    BY <1>13 DEF SubmitOrganization, Authorize, Submit, Refuse, LoseAnswer, EnqueueFails,
         RemoveOrganization, HandlerUnchanged, kvVars, txVars
  <2>2. QED  BY <1>5, <2>1
<1>14. ASSUME NEW w \in Workers, Handler(w)
       PROVE  \/ \E h \in Hashes : Outbox!Accept(h) \/ Outbox!AcceptSettled(h)
              \/ UNCHANGED <<Pending, Settled, confirmed>>
  <2>1. CASE Enqueue(w)
    BY <1>6, <2>1, EnqueueFacts
  <2>2. CASE \E h \in Hashes : StoreTime(w, h)
    BY <1>7, <2>2
  <2>3. QED  BY <1>13, <1>14, <2>1, <2>2 DEF Handler
<1>15. ASSUME Monitor
       PROVE  \/ \E h \in Hashes : Outbox!Settle(h)
              \/ UNCHANGED <<Pending, Settled, confirmed>>
  <2>1. DeleteVisited => cur \in Hashes
    BY DEF DeleteVisited, TypeOK
  <2>2. QED  BY <1>8, <1>9, <1>12, <1>15, <2>1 DEF Monitor
<1>16. QED
  BY <1>10, <1>11, <1>12, <1>14, <1>15 DEF Next, Outbox!OutboxNext

(* The cache implements the outbox: a hash a client has waits at most once,  *)
(* is settled at most once and never waits again, and "mined" is only said   *)
(* of what is settled, through crashes and failed operations.                *)
THEOREM CacheIsOutbox == Spec => Outbox!OutboxSafety
<1>1. Init => Outbox!OutboxInit
  BY DEF Init, KvInit, Pending, Settled, Outbox!OutboxInit
<1>2. IInv /\ [Next]_vars => [Outbox!OutboxNext]_(Outbox!outboxVars)
  BY OutboxStep DEF Outbox!outboxVars
<1>3. QED  BY <1>1, <1>2, Invariant, PTL DEF Spec, Outbox!OutboxSafety
=============================================================================
