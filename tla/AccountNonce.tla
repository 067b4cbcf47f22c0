---------------------------- MODULE AccountNonce ----------------------------
(***************************************************************************)
(* The accounts that pay for transactions.  A write handler reads its      *)
(* organization's balance and nonce, asks the faucet for tokens when the   *)
(* balance is low, and signs its transaction with the nonce it read.  The  *)
(* gateway's answer says that the transaction is valid in the last block;  *)
(* it is executed with a later one, if it still is.  What the handler then *)
(* caches reaches the database in no particular order, or fails to reach   *)
(* it.  Requests of one organization, and of all of them at the faucet,    *)
(* overlap freely.                                                         *)
(* Balances count transactions: one token is AcctTxCost.                   *)
(***************************************************************************)
EXTENDS Integers, FiniteSets

CONSTANTS
  Requests,       \* the requests: each runs its handler once
  Orgs,           \* addresses of organizations
  Existing,       \* organizations that were created before
  Faucet,         \* the account of the faucet
  StartBalances,  \* balances an existing organization may have
  FaucetBalances, \* balances the faucet may have
  Multiplier,     \* DefaultFaucetMultiplier, 20 in the code
  Threshold,      \* TxOperationsThreshold, 4 in the code
  Nil

Accounts == Orgs \cup {Faucet}

ASSUME AccountNonceConstants ==
  /\ Existing \subseteq Orgs
  /\ Faucet \notin Orgs
  /\ Multiplier \in Nat /\ Threshold \in Nat \ {0}
  /\ Multiplier >= Threshold
  /\ StartBalances \subseteq Nat
  /\ \A b \in StartBalances : b >= Threshold - 1
  /\ FaucetBalances \subseteq Nat
  /\ IsFiniteSet(Requests)
  /\ Nil \notin Requests \cup Orgs

VARIABLES
  account,    \* the Vochain: balance, nonce and metadata of each account
  pool,       \* transactions it took and did not execute yet
  handler,    \* what the handler of each request does and knows
  cache,      \* requests whose database transaction is in the key-value store
  db,         \* the request each organization's row has its URIs from
  failed,     \* history: requests whose URI a failed commit did not save
  owed,       \* history: requests whose top-up was taken and not credited
  contended   \* history: accounts on which requests overlapped

vars == <<account, pool, handler, cache, db, failed, owed, contended>>

(* A request for metadata sets the header URI, or leaves it blank.         *)
Metadata == {"metadata", "blank"}
Kinds == {"create", "process", "status"} \cup Metadata
(* CollectFaucet spends the faucet's tokens under the faucet's nonce; a    *)
(* faucet package that creates an account needs no nonce of the faucet.    *)
Draws == {"create", "collect"}
Tx == [kind: Kinds \cup {"collect"}, req: Requests, org: Orgs, nonce: Nat]

Handler == [
  pc: {"new", "collect", "collecting", "submit", "store",
       "stored", "refused", "rejected", "stopped", "lost"},
  kind: Kinds, org: Orgs \cup {Nil}, nonce: Nat, faucetNonce: Nat]

(* The metadata, and the header URI of the row, are named by the request   *)
(* that set them, Nil before any did.  The avatar fares as the header.     *)
Account == [exists: BOOLEAN, balance: Nat, nonce: Nat, uri: Requests \cup {Nil}]
Row == [exists: BOOLEAN, uri: Requests \cup {Nil}]

TypeOK ==
  /\ account \in [Accounts -> Account]
  /\ pool \subseteq Tx
  /\ handler \in [Requests -> Handler]
  /\ cache \subseteq Requests
  /\ db \in [Orgs -> Row]
  /\ failed \subseteq Requests
  /\ owed \subseteq Requests
  /\ contended \subseteq Accounts

Init ==
  /\ \E b \in [Existing -> StartBalances], f \in FaucetBalances :
       account = [a \in Accounts |->
                    [exists |-> a \in Existing \cup {Faucet},
                     balance |-> IF a = Faucet THEN f ELSE
                                 IF a \in Existing THEN b[a] ELSE 0,
                     nonce |-> 0, uri |-> Nil]]
  /\ pool = {}
  /\ handler = [r \in Requests |->
                  [pc |-> "new", kind |-> "create", org |-> Nil, nonce |-> 0,
                   faucetNonce |-> 0]]
  /\ cache = {}
  /\ db = [o \in Orgs |-> [exists |-> o \in Existing, uri |-> Nil]]
  /\ failed = {}
  /\ owed = {}
  /\ contended = {}

-----------------------------------------------------------------------------
(* The Vochain.                                                            *)

(* Nonce and funds of the sender; a draw needs the funds of the faucet.    *)
Valid(t) ==
  CASE t.kind = "create"  -> /\ ~account[t.org].exists
                             /\ account[Faucet].balance >= Multiplier
    [] t.kind = "collect" -> /\ t.nonce = account[Faucet].nonce
                             /\ account[Faucet].balance >= Multiplier
    [] OTHER              -> /\ t.nonce = account[t.org].nonce
                             /\ account[t.org].balance >= 1

Credit(org, uri) ==
  [account EXCEPT ![Faucet].balance = @ - Multiplier,
                  ![org].balance = @ + Multiplier, ![org].exists = TRUE, ![org].uri = uri]

(* Mutant: the faucet package that comes with metadata pays an account     *)
(* that exists, too.                                                       *)
ExecutePackage(t) ==
  account' = CASE t.kind = "create" -> Credit(t.org, t.req)
               [] t.kind = "collect" ->
                    [Credit(t.org, account[t.org].uri) EXCEPT ![Faucet].nonce = @ + 1]
               [] t.kind \in Metadata /\ account[Faucet].balance >= Multiplier ->
                    [Credit(t.org, t.req) EXCEPT ![t.org].nonce = @ + 1]
               [] OTHER ->
                    [account EXCEPT ![t.org].balance = @ - 1, ![t.org].nonce = @ + 1,
                       ![t.org].uri = IF t.kind \in Metadata THEN t.req ELSE @]

Execute(t) ==
  account' = CASE t.kind = "create" -> Credit(t.org, t.req)
               [] t.kind = "collect" ->
                    [Credit(t.org, account[t.org].uri) EXCEPT ![Faucet].nonce = @ + 1]
               [] OTHER ->
                    [account EXCEPT ![t.org].balance = @ - 1, ![t.org].nonce = @ + 1,
                       ![t.org].uri = IF t.kind \in Metadata THEN t.req ELSE @]

(* Mutant: executed as it was checked.                                     *)
MineUnchecked(t) ==
  /\ t \in pool
  /\ pool' = pool \ {t}
  /\ Execute(t)
  /\ owed' = IF t.kind = "collect" THEN owed \ {t.req} ELSE owed
  /\ UNCHANGED <<handler, cache, db, failed, contended>>

(* A transaction that is not valid any more is dropped.                    *)
Mine(t) ==
  /\ t \in pool
  /\ pool' = pool \ {t}
  /\ IF Valid(t) THEN Execute(t) ELSE UNCHANGED account
  /\ owed' = IF t.kind = "collect" /\ Valid(t) THEN owed \ {t.req} ELSE owed
  /\ UNCHANGED <<handler, cache, db, failed, contended>>

-----------------------------------------------------------------------------
(* What overlaps: other requests of the organization that run, wait in the *)
(* pool or in the cache; other draws on the faucet.                        *)

Running(r) == handler[r].pc \in {"collect", "collecting", "submit", "store"}

Busy(org) ==
  \/ \E r \in Requests : handler[r].org = org /\ (Running(r) \/ r \in cache)
  \/ \E t \in pool : t.org = org

FaucetBusy(r) ==
  \/ \E q \in Requests \ {r} :
       \/ handler[q].pc = "collecting"
       \/ handler[q].pc = "submit" /\ handler[q].kind = "create"
  \/ \E t \in pool : t.kind \in Draws /\ t.req # r

Contend(a, busy) == contended' = IF busy THEN contended \cup {a} ELSE contended

-----------------------------------------------------------------------------
(* The handlers.                                                           *)

ChainUnchanged == UNCHANGED <<account, pool, cache, db, failed, owed>>

SetHandler(r, pc) == handler' = [handler EXCEPT ![r].pc = pc]

(* createOrganization: a new key pair, and the faucet's balance.           *)
CreateOrganization(r, org) ==
  /\ handler[r].pc = "new"
  /\ ~db[org].exists
  /\ \A q \in Requests : handler[q].org # org
  /\ handler' = [handler EXCEPT ![r] =
       [@ EXCEPT !.kind = "create", !.org = org,
                 !.pc = IF account[Faucet].balance < Multiplier THEN "refused"
                                                                ELSE "submit"]]
  /\ Contend(Faucet, FaucetBusy(r))
  /\ ChainUnchanged

(* Mutants: an account is topped up whatever it has; or never.             *)
AlwaysLow(balance) == TRUE
NeverLow(balance) == FALSE
(* The balance is below the buffer an account should keep.                 *)
Low(balance) == balance < Threshold

(* The account of an organization whose creation was lost is not found.    *)
ReadAccount(r, kind, org) ==
  /\ handler[r].pc = "new"
  /\ db[org].exists
  /\ handler' = [handler EXCEPT ![r] =
       [@ EXCEPT !.kind = kind, !.org = org, !.nonce = account[org].nonce,
                 !.pc = CASE ~account[org].exists -> "refused"
                          [] account[org].exists /\ Low(account[org].balance) -> "collect"
                          [] OTHER -> "submit"]]
  /\ Contend(org, Busy(org))
  /\ ChainUnchanged

SetOrganizationMetadata(r, org) == \E kind \in Metadata : ReadAccount(r, kind, org)
CreateProcess(r, org) == ReadAccount(r, "process", org)
SetProcessStatus(r, org) == ReadAccount(r, "status", org)

(* CollectFaucet, its first request: the faucet's balance and nonce.       *)
ReadFaucet(r) ==
  /\ handler[r].pc = "collect"
  /\ handler' = [handler EXCEPT
       ![r].pc = IF account[Faucet].balance < Multiplier THEN "refused" ELSE "collecting",
       ![r].faucetNonce = account[Faucet].nonce]
  /\ Contend(Faucet, FaucetBusy(r))
  /\ ChainUnchanged

CollectTx(r) ==
  [kind |-> "collect", req |-> r, org |-> handler[r].org, nonce |-> handler[r].faucetNonce]

CollectFaucet(r) ==
  /\ handler[r].pc = "collecting"
  /\ IF Valid(CollectTx(r))
       THEN /\ pool' = pool \cup {CollectTx(r)}
            /\ owed' = owed \cup {r}
            /\ SetHandler(r, "submit")
       ELSE /\ SetHandler(r, "rejected")
            /\ UNCHANGED <<pool, owed>>
  /\ UNCHANGED <<account, cache, db, failed, contended>>

(* Mutant: with the nonce the faucet's transactions take.                  *)
FaucetNonceTx(r) ==
  [kind |-> handler[r].kind, req |-> r, org |-> handler[r].org, nonce |-> handler[r].faucetNonce]
SubmitTx(r) ==
  [kind |-> handler[r].kind, req |-> r, org |-> handler[r].org, nonce |-> handler[r].nonce]

(* SetAccountInfo, CreateProcess, SetProcessStatus of the client.          *)
Submit(r) ==
  /\ handler[r].pc = "submit"
  /\ IF Valid(SubmitTx(r))
       THEN /\ pool' = pool \cup {SubmitTx(r)}
            /\ SetHandler(r, "store")
       ELSE /\ SetHandler(r, "rejected")
            /\ UNCHANGED pool
  /\ UNCHANGED <<account, cache, db, failed, owed, contended>>

(* StoreTx.  A change of status has no counterpart in the database.        *)
StoreTx(r) ==
  /\ handler[r].pc = "store"
  /\ cache' = IF handler[r].kind = "status" THEN cache ELSE cache \cup {r}
  /\ SetHandler(r, "stored")
  /\ UNCHANGED <<account, pool, db, failed, owed, contended>>

(* Mutant: an error of the client is not looked at.                        *)
StopUnheeded(r) ==
  /\ Running(r)
  /\ SetHandler(r, IF handler[r].pc = "store" THEN "lost" ELSE "stopped")
  /\ cache' = IF handler[r].pc = "submit" THEN cache \cup {r} ELSE cache
  /\ UNCHANGED <<account, pool, db, failed, owed, contended>>

(* A request to the gateway fails or its answer is lost, StoreTx fails, or *)
(* the process stops.  Lost is what the Vochain took and nobody caches.    *)
Stop(r) ==
  /\ Running(r)
  /\ SetHandler(r, IF handler[r].pc = "store" THEN "lost" ELSE "stopped")
  /\ UNCHANGED contended
  /\ ChainUnchanged

(* What the statement of a cached transaction does when it succeeds:       *)
(* CreateOrganization, UpdateOrganization, which keeps the URI that is     *)
(* there when it is given an empty one, or CreateElection.                 *)
Write(r, org) ==
  \/ /\ handler[r].kind = "create" /\ ~db[org].exists
     /\ db' = [db EXCEPT ![org] = [exists |-> TRUE, uri |-> r]]
  \/ handler[r].kind = "metadata" /\ db' = [db EXCEPT ![org].uri = r]
  \/ handler[r].kind \in {"blank", "process"} /\ UNCHANGED db

(* monitorCachedTxs.  The commit fails, or finds no row, when the key in   *)
(* the cached body was reset since or the database has an error; the entry *)
(* is deleted all the same.  After a crash before that the commit runs     *)
(* again.                                                                  *)
Commit(r) ==
  /\ r \in cache
  /\ \/ /\ Write(r, handler[r].org)
        /\ cache' \in {cache, cache \ {r}}
        /\ UNCHANGED failed
     \/ /\ cache' = cache \ {r}
        /\ failed' = IF handler[r].kind = "metadata" /\ db[handler[r].org].uri # r
                       THEN failed \cup {r} ELSE failed
        /\ UNCHANGED db
  /\ UNCHANGED <<account, pool, handler, owed, contended>>

Start(r) ==
  \E org \in Orgs :
    \/ CreateOrganization(r, org)
    \/ SetOrganizationMetadata(r, org)
    \/ CreateProcess(r, org)
    \/ SetProcessStatus(r, org)

Next ==
  \/ \E r \in Requests :
       \/ Start(r)
       \/ ReadFaucet(r)
       \/ CollectFaucet(r)
       \/ Submit(r)
       \/ StoreTx(r)
       \/ Stop(r)
       \/ Commit(r)
  \/ \E t \in pool : Mine(t)

Spec == Init /\ [][Next]_vars

-----------------------------------------------------------------------------
(* Requests that may leave the row with the URI it has: an empty field is  *)
(* not written, a commit fails, or the handler stops before it caches what *)
(* the Vochain took.                                                       *)
Unsaved ==
  failed \cup {r \in Requests : handler[r].kind = "blank" \/ handler[r].pc = "lost"}

(* Once nothing of an organization is under way its row and its account    *)
(* have their URIs from the same request, unless requests overlapped or    *)
(* the one the account has was not saved.  A client that waits for "mined" *)
(* before the next request is safe, whatever else the faucet and the other *)
(* organizations do, and what an earlier request lost is made good by the  *)
(* next one that is saved.                                                 *)
UrisAgree ==
  \A o \in Orgs :
    \/ ~db[o].exists \/ ~account[o].exists
    \/ Busy(o)
    \/ o \in contended
    \/ db[o].uri = account[o].uri
    \/ account[o].uri \in Unsaved

(* A row whose account was never created is what is left of requests that  *)
(* shared the last tokens of the faucet: createOrganization looks at its   *)
(* balance and caches the row before the account exists.                   *)
RowsHaveAccounts ==
  \A o \in Orgs :
    db[o].exists /\ ~Busy(o) /\ ~account[o].exists => Faucet \in contended

TopUpsOwed(o) == Cardinality({r \in owed : handler[r].org = o})

(* A transaction signed with the current nonce finds the tokens it needs,  *)
(* and so does each one after it, unless Threshold top-ups that the        *)
(* gateway had taken were not credited: the low balance is the one read    *)
(* together with the nonce, so no other transaction came in between.       *)
Funded ==
  \A t \in pool :
    t.kind \notin Draws /\ t.nonce = account[t.org].nonce
      => account[t.org].balance + TopUpsOwed(t.org) >= Threshold

(* A gateway rejects a transaction, for its nonce or its funds, only if    *)
(* another request of the organization, or another draw on the faucet,     *)
(* was under way when the account was read.                                *)
RejectionsExplained ==
  \A r \in Requests :
    handler[r].pc = "rejected" => {handler[r].org, Faucet} \cap contended # {}

(* What a gateway accepted is still valid when its block comes, and is not *)
(* dropped, unless another draw on the faucet, or another request of the   *)
(* organization, was under way: the handler has answered by then and       *)
(* nobody looks at the transaction again.                                  *)
DropsExplained ==
  \A t \in pool :
    ~Valid(t) => (IF t.kind \in Draws THEN Faucet ELSE t.org) \in contended

(* Tokens go to an account that has enough of them only if requests of its *)
(* organization overlapped.                                                *)
OneTopUp ==
  [][\A o \in Orgs \ contended :
       account[o].exists /\ account'[o].balance > account[o].balance
         => account[o].balance < Threshold]_vars
=============================================================================
