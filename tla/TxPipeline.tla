----------------------------- MODULE TxPipeline -----------------------------
(***************************************************************************)
(* The write path of the VaaS API.  A handler of urlapi checks the request *)
(* against the database, submits it to the Vochain, caches the matching    *)
(* database transaction under a random hash and answers with the hash; the *)
(* goroutine monitorCachedTxs commits what is cached; the client asks for  *)
(* the status of its hash until the answer is "mined".  Handlers run       *)
(* concurrently, the super-admin changes integrators and their keys        *)
(* meanwhile, and the process may crash between any two steps: the         *)
(* database, the key-value store and the Vochain keep their state.  The    *)
(* handler goes on at the gateway's answer: what was accepted may be mined *)
(* later or dropped (AccountNonce), and nothing here waits for it.         *)
(***************************************************************************)
EXTENDS TxCache

CONSTANTS
  Workers,     \* goroutines of the http router that serve write requests
  StaleKeys,   \* whether a key that was replaced may still open the api
  MaxCrashes,  \* bound: crashes of the process
  MaxFaults    \* bound: failed operations of the database or of the store

ASSUME StaleKeysOrNot == StaleKeys \in BOOLEAN

VARIABLES
  worker,     \* what each request goroutine is doing
  todo,       \* hashes the running iteration of monitorCachedTxs has left
  cur,        \* hash committed and not yet deleted; not Nil: kv.Lock is held
  accountTx,  \* accepted by a gateway: the transaction that creates each
              \* account, named by the api key of its request
  processTx,  \* accepted by a gateway: the one that creates each process,
              \* named by its entity
  keyOwner,   \* history: the integrator each api key was issued to
  issued,     \* history: hashes clients have
  confirmed,  \* history: hashes whose status was answered with mined=true
  cached,     \* history: the transaction cached under each hash
  fate,       \* history: what became of it
  removed,    \* history: organizations deleted from the database
  crashes,    \* counts crashes, up to MaxCrashes
  faults      \* counts failed operations, up to MaxFaults

monitorVars == <<todo, cur>>
gatewayVars == <<accountTx, processTx>>
clientVars == <<issued, confirmed>>
txVars == <<cached, fate>>
bounds == <<crashes, faults>>
vars == <<sqlVars, kvVars, worker, monitorVars, gatewayVars, keyOwner,
          clientVars, txVars, removed, bounds>>

(* Requests that cache no transaction. *)
SetProcessStatusRequest ==
  [type: {"setProcessStatus"}, key: Keys, addr: Addrs, pid: Pids]
DeleteOrganizationRequest ==
  [type: {"deleteOrganization"}, key: Keys, addr: Addrs]
Requests == TxBody \cup SetProcessStatusRequest \cup DeleteOrganizationRequest

(* A request is authorized once the database was asked, submitted once the *)
(* gateway took it, and timed once its hash is drawn and StoreTxTime done.  *)
Idle == [pc |-> "idle"]
WorkerState ==
  {Idle}
  \cup [pc: {"authorized"}, req: Requests]
  \cup [pc: {"submitted"}, req: TxBody \cup SetProcessStatusRequest]
  \cup [pc: {"timed"}, req: TxBody, hash: Hashes]

Fates == {"none", "pending", "committed", "failed"}

TypeOK ==
  /\ SqlTypeOK
  /\ KvTypeOK
  /\ worker \in [Workers -> WorkerState]
  /\ todo \subseteq Hashes
  /\ cur \in Hashes \cup {Nil}
  /\ accountTx \in [Addrs -> Keys \cup {Nil}]
  /\ processTx \in [Pids -> Addrs \cup {Nil}]
  /\ keyOwner \in [Keys -> Ids \cup {Nil}]
  /\ issued \subseteq Hashes
  /\ confirmed \subseteq Hashes
  /\ cached \in [Hashes -> TxBody \cup {Nil}]
  /\ fate \in [Hashes -> Fates]
  /\ removed \subseteq Addrs
  /\ crashes \in Nat
  /\ faults \in Nat

Init ==
  /\ SqlInit
  /\ KvInit
  /\ worker = [w \in Workers |-> Idle]
  /\ todo = {}
  /\ cur = Nil
  /\ accountTx = [a \in Addrs |-> Nil]
  /\ processTx = [p \in Pids |-> Nil]
  /\ keyOwner = [k \in Keys |-> Nil]
  /\ issued = {}
  /\ confirmed = {}
  /\ cached = [h \in Hashes |-> Nil]
  /\ fate = [h \in Hashes |-> "none"]
  /\ removed = {}
  /\ crashes = 0
  /\ faults = 0

-----------------------------------------------------------------------------
(* The super-admin api: one statement each.  A new key is 32 random bytes, *)
(* an id comes from a sequence: neither was ever used before.              *)

AdminUnchanged ==
  UNCHANGED <<kvVars, worker, monitorVars, gatewayVars, clientVars, txVars, bounds>>

AdminCreateIntegrator(id, k, email, profile) ==
  /\ \A old \in Keys : keyOwner[old] # id
  /\ keyOwner[k] = Nil
  /\ CreateIntegrator(id, k, email, profile)
  /\ keyOwner' = [keyOwner EXCEPT ![k] = id]
  /\ UNCHANGED removed
  /\ AdminUnchanged

AdminUpdateIntegrator(id, profile) ==
  /\ UpdateIntegrator(id, profile)
  /\ UNCHANGED <<keyOwner, removed>>
  /\ AdminUnchanged

AdminResetIntegratorKey(id, k) ==
  /\ keyOwner[k] = Nil
  /\ UpdateIntegratorApiKey(id, k)
  /\ keyOwner' = [keyOwner EXCEPT ![k] = id]
  /\ UNCHANGED removed
  /\ AdminUnchanged

AdminDeleteIntegrator(id) ==
  /\ DeleteIntegrator(id)
  /\ removed' = removed \cup {o.addr : o \in organizations \ organizations'}
  /\ UNCHANGED keyOwner
  /\ AdminUnchanged

-----------------------------------------------------------------------------
(* Request handlers.  A step that only answers an error ends the request.  *)

Become(w, state) == worker' = [worker EXCEPT ![w] = state]

InFlight == {worker[w] : w \in {v \in Workers : worker[v].pc # "idle"}}

HandlerUnchanged ==
  UNCHANGED <<monitorVars, keyOwner, confirmed, crashes>>

(* createOrganizationHandler up to the gateway's answer to SetAccountInfo: *)
(* it asks the database nothing, so any key that still opens the api will  *)
(* do, a replaced one among them.  The account has fresh keys.             *)
SubmitOrganization(w, req) ==
  /\ worker[w] = Idle
  /\ req \in CreateOrganizationTx
  /\ keyOwner[req.key] # Nil
  /\ StaleKeys \/ GetIntegratorByKey(req.key) # {}
  /\ accountTx[req.addr] = Nil
  /\ accountTx' = [accountTx EXCEPT ![req.addr] = req.key]
  /\ Become(w, [pc |-> "submitted", req |-> req])
  /\ HandlerUnchanged
  /\ UNCHANGED <<sqlVars, kvVars, processTx, issued, txVars, removed, faults>>

(* Mutant: an organization is not looked up under the key of the request.  *)
AuthorizeAnyKey(w, req) ==
  /\ worker[w] = Idle
  /\ req \in Requests \ CreateOrganizationTx
  /\ req.type = "setProcessStatus" => processTx[req.pid] = req.addr
  /\ req.type = "createElection" =>
       /\ processTx[req.pid] = Nil
       /\ \A s \in InFlight : s.req.type = "createElection" => s.req.pid # req.pid
  /\ Become(w, [pc |-> "authorized", req |-> req])
  /\ HandlerUnchanged
  /\ UNCHANGED <<sqlVars, kvVars, gatewayVars, issued, txVars, removed, faults>>

(* authEntityPermissions, and setProcessStatusHandler's own lookup of the  *)
(* organization of the process: one that was accepted may be mined by now. *)
(* A new process id is random.                                             *)
Authorize(w, req) ==
  /\ worker[w] = Idle
  /\ req \in Requests \ CreateOrganizationTx
  /\ GetOrganization(req.key, req.addr) # {}
  /\ req.type = "setProcessStatus" => processTx[req.pid] = req.addr
  /\ req.type = "createElection" =>
       /\ processTx[req.pid] = Nil
       /\ \A s \in InFlight : s.req.type = "createElection" => s.req.pid # req.pid
  /\ Become(w, [pc |-> "authorized", req |-> req])
  /\ HandlerUnchanged
  /\ UNCHANGED <<sqlVars, kvVars, gatewayVars, issued, txVars, removed, faults>>

(* Mutant: a deletion goes on like a request for the Vochain.              *)
SubmitDeletion(w) ==
  /\ worker[w].pc = "authorized"
  /\ processTx' = IF worker[w].req.type = "createElection"
                    THEN [processTx EXCEPT ![worker[w].req.pid] = worker[w].req.addr]
                    ELSE processTx
  /\ Become(w, [pc |-> "submitted", req |-> worker[w].req])
  /\ HandlerUnchanged
  /\ UNCHANGED <<sqlVars, kvVars, accountTx, issued, txVars, removed, faults>>

(* Mutant: the handler goes on when CreateProcess returned an error.       *)
SubmitUnheard(w) ==
  /\ worker[w].pc = "authorized"
  /\ worker[w].req.type # "deleteOrganization"
  /\ Become(w, [pc |-> "submitted", req |-> worker[w].req])
  /\ HandlerUnchanged
  /\ UNCHANGED <<sqlVars, kvVars, gatewayVars, issued, txVars, removed, faults>>

(* SetAccountInfo, CreateProcess or SetProcessStatus of the Vochain client *)
(* when the gateway accepts the transaction: they do not wait any longer.  *)
(* createProcessHandler also looks the integrator up in between: right     *)
(* after the authorization the lookup succeeds, later it may be a Refuse.  *)
Submit(w) ==
  /\ worker[w].pc = "authorized"
  /\ LET req == worker[w].req IN
       /\ req.type # "deleteOrganization"
       /\ processTx' = IF req.type = "createElection"
                         THEN [processTx EXCEPT ![req.pid] = req.addr]
                         ELSE processTx
       /\ Become(w, [pc |-> "submitted", req |-> req])
  /\ HandlerUnchanged
  /\ UNCHANGED <<sqlVars, kvVars, accountTx, issued, txVars, removed, faults>>

(* Any call before the submission, or the submission, may return an error. *)
Refuse(w) ==
  /\ worker[w].pc = "authorized"
  /\ Become(w, Idle)
  /\ HandlerUnchanged
  /\ UNCHANGED <<sqlVars, kvVars, gatewayVars, issued, txVars, removed, faults>>

(* A gateway took the transaction and the answer was lost: the handler     *)
(* answers an error and caches nothing.                                    *)
LoseAnswer(w) ==
  /\ worker[w].pc = "submitted"
  /\ Become(w, Idle)
  /\ HandlerUnchanged
  /\ UNCHANGED <<sqlVars, kvVars, gatewayVars, issued, txVars, removed, faults>>

(* txHash := RandomBytes(32) and StoreTxTime.  Only setProcessStatusHandler *)
(* looks at its error; with nothing to cache, it then answers.              *)
StoreTime(w, h) ==
  /\ worker[w].pc = "submitted"
  /\ kvTime[h] = Nil /\ kvTx[h] = Nil /\ fate[h] = "none"
  /\ \A s \in InFlight : s.pc = "timed" => s.hash # h
  /\ \/ /\ StoreTxTime(h)
        /\ UNCHANGED faults
     \/ /\ faults < MaxFaults
        /\ faults' = faults + 1
        /\ UNCHANGED kvTime
  /\ LET req == worker[w].req IN
       IF req.type = "setProcessStatus"
         THEN /\ Become(w, Idle)
              /\ issued' = IF faults' = faults THEN issued \cup {h} ELSE issued
         ELSE /\ Become(w, [pc |-> "timed", req |-> req, hash |-> h])
              /\ UNCHANGED issued
  /\ HandlerUnchanged
  /\ UNCHANGED <<sqlVars, kvTx, gatewayVars, txVars, removed>>

(* StoreTx, and the answer with the hash, which may not reach the client.  *)
Enqueue(w) ==
  /\ worker[w].pc = "timed"
  /\ LET h == worker[w].hash IN
       /\ StoreTx(h, worker[w].req)
       /\ cached' = [cached EXCEPT ![h] = worker[w].req]
       /\ fate' = [fate EXCEPT ![h] = "pending"]
       /\ \E answered \in {{}, {h}} : issued' = issued \cup answered
  /\ Become(w, Idle)
  /\ HandlerUnchanged
  /\ UNCHANGED <<sqlVars, kvTime, gatewayVars, removed, faults>>

EnqueueFails(w) ==
  /\ worker[w].pc = "timed"
  /\ faults < MaxFaults
  /\ faults' = faults + 1
  /\ Become(w, Idle)
  /\ HandlerUnchanged
  /\ UNCHANGED <<sqlVars, kvVars, gatewayVars, issued, txVars, removed>>

(* deleteOrganizationHandler.  When the statement fails the answer is the  *)
(* same and nothing changes: that is Refuse.                               *)
RemoveOrganization(w) ==
  /\ worker[w].pc = "authorized"
  /\ LET req == worker[w].req IN
       /\ req.type = "deleteOrganization"
       /\ DeleteOrganization(req.key, req.addr)
       /\ removed' = removed \cup {req.addr}
  /\ Become(w, Idle)
  /\ HandlerUnchanged
  /\ UNCHANGED <<kvVars, gatewayVars, issued, txVars, faults>>

(* resetOrganizationKeyHandler in one step: its UPDATE looks for the row   *)
(* the authorization found and uses nothing else of it.                    *)
ResetOrganizationKey(k, a, token) ==
  /\ GetOrganization(k, a) # {}
  /\ UpdateOrganizationPublicAPIToken(k, a, token)
  /\ HandlerUnchanged
  /\ UNCHANGED <<kvVars, worker, gatewayVars, issued, txVars, removed, faults>>

(* Mutant: the status is the time alone.                                   *)
StatusIsTime(h) ==
  /\ kvTime[h] # Nil
  /\ Mined(kvTime[h])

(* The two reads of getTxStatusHandler when it answers mined=true.         *)
StatusIsMined(h) ==
  /\ kvTime[h] # Nil
  /\ Mined(kvTime[h])
  /\ kvTx[h] = Nil

(* The first read, without the lock, can only become true with time; the   *)
(* second is under RLock.  The other answers change nothing.               *)
ConfirmTx(h) ==
  /\ h \in issued
  /\ cur = Nil
  /\ StatusIsMined(h)
  /\ confirmed' = confirmed \cup {h}
  /\ UNCHANGED <<sqlVars, kvVars, worker, monitorVars, gatewayVars, keyOwner,
                 issued, txVars, removed, bounds>>

-----------------------------------------------------------------------------
(* monitorCachedTxs: a new iteration sees what is cached at its start, in  *)
(* the order of the hashes, that is in any order.                          *)

MonitorUnchanged ==
  UNCHANGED <<worker, gatewayVars, keyOwner, clientVars, cached, removed, crashes>>

BeginIteration ==
  /\ todo = {}
  /\ cur = Nil
  /\ Pending # {}
  /\ todo' = Pending
  /\ MonitorUnchanged
  /\ UNCHANGED <<sqlVars, kvVars, cur, fate, faults>>

(* What a failed commit leaves of an earlier successful one. *)
Failed(h) == IF fate[h] = "committed" THEN "committed" ELSE "failed"

(* The callback up to Commit.  A transaction that is not mined is skipped; *)
(* the entry can not be newer than txTimeout from now, so the branch that  *)
(* deletes it there is left out.  A failed Commit is only logged.          *)
CommitVisited(h) ==
  /\ cur = Nil
  /\ h \in todo
  /\ LET tx == Decode(kvTx[h]) IN
       IF ~Mined(tx.age)
         THEN /\ todo' = todo \ {h}
              /\ UNCHANGED <<sqlVars, cur, fate, faults>>
         ELSE /\ cur' = h
              /\ UNCHANGED todo
              /\ \/ /\ Commit(tx.body)
                    /\ fate' = [fate EXCEPT ![h] = "committed"]
                    /\ UNCHANGED faults
                 \/ /\ ~CanCommit(tx.body)
                    /\ fate' = [fate EXCEPT ![h] = Failed(h)]
                    /\ UNCHANGED <<sqlVars, faults>>
                 \/ /\ faults < MaxFaults
                    /\ faults' = faults + 1
                    /\ fate' = [fate EXCEPT ![h] = Failed(h)]
                    /\ UNCHANGED sqlVars
  /\ MonitorUnchanged
  /\ UNCHANGED kvVars

(* Mutants: the entry stays, or stays when its commit failed.              *)
KeepVisited ==
  /\ cur # Nil
  /\ cur' = Nil
  /\ todo' = todo \ {cur}
  /\ MonitorUnchanged
  /\ UNCHANGED <<sqlVars, kvVars, fate, faults>>
DeleteCommitted ==
  /\ cur # Nil
  /\ cur' = Nil
  /\ todo' = todo \ {cur}
  /\ kvTx' = IF fate[cur] = "committed" THEN [kvTx EXCEPT ![cur] = Nil] ELSE kvTx
  /\ MonitorUnchanged
  /\ UNCHANGED <<sqlVars, kvTime, fate, faults>>

(* DeleteTx, whatever became of the commit, and the end of the callback.   *)
DeleteVisited ==
  /\ cur # Nil
  /\ cur' = Nil
  /\ todo' = todo \ {cur}
  /\ \/ /\ DeleteTx(cur)
        /\ UNCHANGED faults
     \/ /\ faults < MaxFaults
        /\ faults' = faults + 1
        /\ UNCHANGED kvTx
  /\ MonitorUnchanged
  /\ UNCHANGED <<sqlVars, kvTime, fate>>

-----------------------------------------------------------------------------
Tick ==
  /\ Age
  /\ UNCHANGED <<sqlVars, worker, monitorVars, gatewayVars, keyOwner, clientVars,
                 txVars, removed, bounds>>

(* Goroutines and locks are gone; a restart begins a new iteration.        *)
Crash ==
  /\ crashes < MaxCrashes
  /\ crashes' = crashes + 1
  /\ worker' = [w \in Workers |-> Idle]
  /\ todo' = {}
  /\ cur' = Nil
  /\ UNCHANGED <<sqlVars, kvVars, gatewayVars, keyOwner, clientVars, txVars,
                 removed, faults>>

Admin ==
  \E id \in Ids :
    \/ \E k \in Keys, email \in Emails, profile \in Profiles :
         AdminCreateIntegrator(id, k, email, profile)
    \/ \E profile \in Profiles : AdminUpdateIntegrator(id, profile)
    \/ \E k \in Keys : AdminResetIntegratorKey(id, k)
    \/ AdminDeleteIntegrator(id)

Handler(w) ==
  \/ \E req \in CreateOrganizationTx : SubmitOrganization(w, req)
  \/ \E req \in Requests \ CreateOrganizationTx : Authorize(w, req)
  \/ Submit(w)
  \/ Refuse(w)
  \/ LoseAnswer(w)
  \/ \E h \in Hashes : StoreTime(w, h)
  \/ Enqueue(w)
  \/ EnqueueFails(w)
  \/ RemoveOrganization(w)

Monitor ==
  \/ BeginIteration
  \/ \E h \in Hashes : CommitVisited(h)
  \/ DeleteVisited

Next ==
  \/ Admin
  \/ \E w \in Workers : Handler(w)
  \/ \E k \in Keys, a \in Addrs, token \in Tokens : ResetOrganizationKey(k, a, token)
  \/ \E h \in Hashes : ConfirmTx(h)
  \/ Monitor
  \/ Tick
  \/ Crash

Spec == Init /\ [][Next]_vars

(* The monitor's loop never ends and time passes; clients and handlers owe *)
(* nothing.                                                                *)
FairSpec == Spec /\ WF_vars(Monitor) /\ WF_vars(Tick)

-----------------------------------------------------------------------------
(* Nothing is in the database that was not sent to the Vochain first: a    *)
(* gateway accepted the transaction of an organization's account, and it   *)
(* came from a key of the integrator that owns the row now; it accepted    *)
(* that of an election's process for the row's organization.  The two      *)
(* sides are written by different goroutines and keys change in between.   *)
(* That the transaction is executed is not promised: RowsHaveAccounts of   *)
(* AccountNonce says when it is not.                                       *)
RowsWereAccepted ==
  /\ \A o \in organizations :
       accountTx[o.addr] # Nil /\ keyOwner[accountTx[o.addr]] = o.id
  /\ \A e \in elections : processTx[e.pid] = e.addr

(* An election is stored under the current key of its organization: no     *)
(* schema constraint says so, and the transaction was authorized before    *)
(* the keys were reset.                                                    *)
ElectionUnderItsKey ==
  \A e \in elections : \E o \in organizations : o.addr = e.addr /\ o.key = e.key

(* What is cached never waits for an earlier transaction: as long as the   *)
(* key it was authorized with is current, its organization is in the       *)
(* database already, or was deleted.  The order of the hashes is harmless. *)
PendingHasTarget ==
  \A h \in Pending :
    LET body == kvTx[h].body IN
      /\ body.type # "createOrganization"
      /\ GetIntegratorByKey(body.key) # {}
      => GetOrganization(body.key, body.addr) # {} \/ body.addr \in removed

(* A created organization that was committed is in the database, with the  *)
(* integrator that asked for it, or was deleted; so is an election, or its *)
(* organization was deleted.                                               *)
CommittedIsVisible ==
  \A h \in Hashes :
    fate[h] = "committed" =>
      LET body == cached[h] IN
        /\ body.type = "createOrganization" =>
             \/ \E o \in organizations : o.addr = body.addr /\ o.id = keyOwner[body.key]
             \/ body.addr \in removed
        /\ body.type = "createElection" =>
             \/ \E e \in elections : e.pid = body.pid /\ e.addr = body.addr
             \/ body.addr \in removed

HasRow(a) == \E o \in organizations : o.addr = a

(* A deleted organization comes back only if a crash or a failed operation *)
(* made the monitor run a committed transaction again.                     *)
DeletedStaysDeleted ==
  [][\A a \in removed : ~HasRow(a) /\ HasRow(a)' => crashes + faults > 0]_vars

(* The cache keeps the promise of TxOutbox.                                *)
Settled ==
  {h \in Hashes : \/ fate[h] \in {"committed", "failed"} /\ kvTx[h] = Nil
                  \/ fate[h] = "none" /\ h \in issued}

Outbox == INSTANCE TxOutbox WITH waiting <- Pending, settled <- Settled,
                                 told <- confirmed

OutboxSpec == Outbox!OutboxSpec

(* A client that has a hash, and whose hash has its instant stored, gets   *)
(* to a state where the status is "mined" whenever no other entry is       *)
(* between its commit and its deletion.                                    *)
Confirmable ==
  \A h \in Hashes :
    h \in issued /\ kvTime[h] # Nil ~> StatusIsMined(h)

-----------------------------------------------------------------------------
(* urlapi/README.md:164, of a created organization: once the status of its *)
(* hash is "mined" it "is safe to query for the organization".  Integrators *)
(* that were deleted do not count.                                         *)
MinedMeansQueryable ==
  \A h \in confirmed :
    /\ cached[h] # Nil
    /\ cached[h].type = "createOrganization"
    /\ \E i \in integrators : i.id = keyOwner[cached[h].key]
    => HasRow(cached[h].addr) \/ cached[h].addr \in removed

(* urlapi.go:188, "commit that tx to the database if mined", that is 15    *)
(* seconds after its creation.                                             *)
CommitOnlyIfMined ==
  [][\A h \in Hashes :
       fate[h] = "pending" /\ fate'[h] = "committed" => Mined(kvTx[h].age)]_vars
=============================================================================
