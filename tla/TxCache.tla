------------------------------ MODULE TxCache -------------------------------
(***************************************************************************)
(* database/transactions: the transactions that wait for the Vochain in a  *)
(* key-value store, and how one of them is committed to the database.      *)
(*                                                                         *)
(* An instant t is kept as its age, now - t: both readers of an instant    *)
(* only ask whether t + 15s is before now.  Time is counted in steps of    *)
(* which MinedDelay make 15s, and an age stops at Old, past which every    *)
(* age reads alike; Go's zero time is Old from the start.                  *)
(***************************************************************************)
EXTENDS SqlStore

CONSTANTS
  Hashes,      \* transaction hashes: 32 random bytes, not the chain's
  MinedDelay   \* 15 * time.Second, urlapi.go:179 and txhash.go:32

(* Organizations start with a quota of 0. *)
ASSUME CacheConstants == MinedDelay \in Nat /\ Empty \in Quotas

VARIABLES
  kvTx,    \* entries "tx"<hash>: the serialized transaction
  kvTime   \* entries "tm"<hash>: the instant the hash was drawn

kvVars == <<kvTx, kvTime>>

Old == MinedDelay + 1
Ages == 0..Old

CreateOrganizationTx ==
  [type: {"createOrganization"}, key: Keys, addr: Addrs,
   cipher: Ciphers, token: Tokens, uri: Uris]
UpdateOrganizationTx ==
  [type: {"updateOrganization"}, key: Keys, addr: Addrs, uri: Uris]
CreateElectionTx ==
  [type: {"createElection"}, key: Keys, addr: Addrs, pid: Pids]

TxBody == CreateOrganizationTx \cup UpdateOrganizationTx \cup CreateElectionTx
SerializableTx == [body: TxBody, age: Ages]

(* A missing entry is told from every entry. *)
ASSUME NilIsNoEntry == Nil \notin Hashes \cup Ages \cup TxBody \cup SerializableTx

KvTypeOK ==
  /\ kvTx \in [Hashes -> SerializableTx \cup {Nil}]
  /\ kvTime \in [Hashes -> Ages \cup {Nil}]

KvInit ==
  /\ kvTx = [h \in Hashes |-> Nil]
  /\ kvTime = [h \in Hashes |-> Nil]

-----------------------------------------------------------------------------
StoreTx(h, body) == kvTx' = [kvTx EXCEPT ![h] = [body |-> body, age |-> 0]]
DeleteTx(h) == kvTx' = [kvTx EXCEPT ![h] = Nil]
StoreTxTime(h) == kvTime' = [kvTime EXCEPT ![h] = 0]

(* The hashes the iteration over the prefix "tx" meets. *)
Pending == {h \in Hashes : kvTx[h] # Nil}

(* t.Add(15 * time.Second).Before(time.Now()) *)
Mined(age) == age > MinedDelay

(* UnmarshalJSON restores the type and the body and nothing else: what the *)
(* cache gives back has the zero CreationTime.                             *)
Decode(tx) == [tx EXCEPT !.age = Old]

(* One step of time, for everything that is stored. *)
Older(age) == IF age < Old THEN age + 1 ELSE age
Age ==
  /\ kvTx' = [h \in Hashes |->
                IF kvTx[h] = Nil THEN Nil ELSE [kvTx[h] EXCEPT !.age = Older(@)]]
  /\ kvTime' = [h \in Hashes |-> IF kvTime[h] = Nil THEN Nil ELSE Older(kvTime[h])]

-----------------------------------------------------------------------------
(* The statement each body runs.  Organizations are created without a plan *)
(* and with a quota of 0; an update that finds no row is a success.        *)
CanCommit(body) ==
  CASE body.type = "createOrganization" -> CanCreateOrganization(body.key, body.addr, Nil)
    [] body.type = "createElection" -> CanCreateElection(body.key, body.addr, body.pid)
    [] OTHER -> TRUE

(* Mutant: the commit of an election runs no statement. *)
CommitNoElection(body) ==
  \/ /\ body.type = "createOrganization"
     /\ CreateOrganization(body.key, body.addr, body.cipher, Nil, Empty, body.token, body.uri)
  \/ /\ body.type = "updateOrganization"
     /\ UpdateOrganization(body.key, body.addr, body.uri)
  \/ /\ body.type = "createElection"
     /\ UNCHANGED sqlVars

Commit(body) ==
  \/ /\ body.type = "createOrganization"
     /\ CreateOrganization(body.key, body.addr, body.cipher, Nil, Empty, body.token, body.uri)
  \/ /\ body.type = "updateOrganization"
     /\ UpdateOrganization(body.key, body.addr, body.uri)
  \/ /\ body.type = "createElection"
     /\ CreateElection(body.key, body.addr, body.pid)
=============================================================================
