------------------------ MODULE AccountOverlapProofs ------------------------
(***************************************************************************)
(* What overlapping requests can do to the account of an organization, for *)
(* any number of requests and organizations.  Every property says that a   *)
(* fault is seen only where requests overlapped; the invariant says what   *)
(* is true of an organization, and of the faucet, until they do.           *)
(***************************************************************************)
EXTENDS AccountNonceProofs

(* A request is engaged while its handler runs, while its database         *)
(* transaction is cached and while a transaction of it is in the pool.     *)
Engaged(r) == Running(r) \/ r \in cache \/ \E t \in pool : t.req = r

(* It draws on the faucet while it relies on what it read of it.           *)
Drawing(r) ==
  \/ handler[r].pc = "collecting"
  \/ handler[r].pc = "submit" /\ handler[r].kind = "create"
  \/ \E t \in pool : t.kind \in Draws /\ t.req = r

(* Transactions are those of their handlers, which are past sending them.  *)
Sent ==
  /\ \A r \in Requests :
       handler[r].pc = "new" => handler[r].org = Nil /\ handler[r].kind = "create"
  /\ \A r \in cache : handler[r].pc = "stored"
  /\ \A t \in pool :
       IF t.kind = "collect"
         THEN /\ t = CollectTx(t.req)
              /\ handler[t.req].pc \notin {"new", "collect", "collecting"}
              /\ handler[t.req].kind # "create"
              /\ account[t.org].exists
         ELSE /\ t = SubmitTx(t.req)
              /\ handler[t.req].pc \in {"store", "stored", "lost"}

(* An organization has one creator, alone until its row is there.          *)
ExistingReady == \A o \in Existing : db[o].exists /\ account[o].exists

OneCreator ==
  \A q, r \in Requests :
    /\ handler[q].kind = "create" /\ handler[r].kind = "create"
    /\ handler[q].org = handler[r].org /\ handler[r].org \in Orgs
    => q = r

RowHasCreator ==
  \A o \in Orgs : db[o].exists /\ o \notin Existing =>
    \E r \in Requests :
      handler[r].kind = "create" /\ handler[r].org = o /\ handler[r].pc = "stored"

AccountHasRequest ==
  \A o \in Orgs : account[o].exists /\ o \notin Existing =>
    \E r \in Requests : handler[r].org = o

CreatorFirst ==
  \A r \in Requests : handler[r].org \in Orgs =>
    /\ ~db[handler[r].org].exists =>
         /\ handler[r].kind = "create"
         /\ account[handler[r].org].exists => account[handler[r].org].uri = r
    /\ handler[r].kind = "create" /\ handler[r].pc = "submit" =>
         ~db[handler[r].org].exists /\ ~account[handler[r].org].exists

Founded == ExistingReady /\ OneCreator /\ RowHasCreator /\ AccountHasRequest /\ CreatorFirst

(* Requests of an organization overlap only if that is remembered.         *)
Alone ==
  \A q, r \in Requests :
    /\ Engaged(q) /\ Engaged(r)
    /\ handler[q].org = handler[r].org /\ handler[r].org \notin contended
    => q = r

(* Until draws on the faucet overlap, what was read of it stays true and   *)
(* every draw is credited.                                                 *)
OneDraw == \A q, r \in Requests : Drawing(q) /\ Drawing(r) => q = r

DrawsFunded == \A r \in Requests : Drawing(r) => account[Faucet].balance >= Multiplier

NonceFresh ==
  /\ \A r \in Requests :
       handler[r].pc = "collecting" => handler[r].faucetNonce = account[Faucet].nonce
  /\ \A t \in pool : t.kind = "collect" => t.nonce = account[Faucet].nonce

TopUpsComing == \A r \in owed : CollectTx(r) \in pool

AccountsComing ==
  \A r \in Requests :
    handler[r].kind = "create" /\ handler[r].pc \in {"store", "stored", "lost"}
      => account[handler[r].org].exists \/ SubmitTx(r) \in pool

FaucetKept ==
  Faucet \notin contended =>
    OneDraw /\ DrawsFunded /\ NonceFresh /\ TopUpsComing /\ AccountsComing

Reads(r) == handler[r].kind # "create" /\ handler[r].pc \in {"collect", "collecting", "submit"}

(* Until requests of an organization overlap, what they read of its        *)
(* account stays true.                                                     *)
AccountKept ==
  /\ \A r \in Requests : Reads(r) /\ handler[r].org \notin contended =>
       LET a == account[handler[r].org]
       IN  /\ a.exists /\ handler[r].nonce = a.nonce
           /\ handler[r].pc # "submit" => a.balance < Threshold
           /\ Faucet \notin contended => a.balance >= Threshold - 1
  /\ \A t \in pool : t.org \notin contended =>
       /\ t.kind = "collect" => account[t.org].balance < Threshold
       /\ t.kind \notin Draws => Valid(t)

(* URIs that differ are those of metadata that is on its way, or of a      *)
(* request that was not saved: while metadata is on its way the row has    *)
(* what the account had before, so nothing is wrong if it does not arrive. *)
Moving(r) ==
  handler[r].kind \in Metadata /\ handler[r].pc \in {"store", "stored"} /\ Engaged(r)

Agree(o) ==
  db[o].exists /\ account[o].exists =>
    db[o].uri = account[o].uri \/ account[o].uri \in Unsaved

UrisKept ==
  \A o \in Orgs : o \notin contended =>
    /\ Agree(o) \/ \E r \in Requests : Moving(r) /\ handler[r].org = o
    /\ \A r \in Requests : Moving(r) /\ handler[r].org = o =>
         /\ SubmitTx(r) \in pool \/ account[o].uri = r
         /\ handler[r].pc = "store" \/ r \in cache \/ db[o].uri = r \/ r \in Unsaved
         /\ handler[r].pc = "store" /\ SubmitTx(r) \in pool => Agree(o)
    /\ \A t \in pool : t.kind = "create" /\ t.org = o /\ db[o].exists => db[o].uri = t.req

(* With a threshold of 1 the account that is topped up may have nothing    *)
(* until it is credited, and the next transaction is rejected.             *)
Explained == Threshold > 1 => RejectionsExplained

Overlap ==
  Sent /\ Founded /\ Alone /\ FaucetKept /\ AccountKept /\ UrisKept /\ Explained

OInv == IInv /\ Overlap

-----------------------------------------------------------------------------
(* What each step does, one request at a time.                             *)

LEMMA Known1 ==
  ASSUME IInv
  PROVE  /\ handler \in [Requests -> Handler]
         /\ account \in [Accounts -> Account] /\ db \in [Orgs -> Row]
         /\ pool \subseteq Tx /\ owed \subseteq Requests /\ cache \subseteq Requests
         /\ \A t \in pool : t.req \in Requests /\ t.org \in Orgs /\ handler[t.req].org = t.org
         /\ Nil \notin Orgs /\ Faucet \notin Orgs
  BY AccountNonceConstants DEF IInv, TypeOK, Known, Tx

LEMMA CreateEffect ==
  ASSUME IInv, NEW r \in Requests, NEW org \in Orgs, CreateOrganization(r, org)
  PROVE  /\ UNCHANGED <<account, pool, cache, db, failed, owed>>
         /\ \A q \in Requests \ {r} : handler'[q] = handler[q]
         /\ handler[r].pc = "new" /\ ~db[org].exists
         /\ \A q \in Requests : handler[q].org # org
         /\ handler'[r].kind = "create" /\ handler'[r].org = org
         /\ handler'[r].pc \in {"refused", "submit"}
         /\ handler'[r].pc = "submit" => account[Faucet].balance >= Multiplier
         /\ contended \subseteq contended'
         /\ \A o \in Orgs : o \in contended' => o \in contended
         /\ Faucet \notin contended' => \A q \in Requests \ {r} : ~Drawing(q)
<1>1. handler[r] \in Handler /\ Faucet \notin Orgs /\ Faucet \in Accounts
      /\ account[Faucet].balance \in Nat /\ handler \in [Requests -> Handler]
  BY AccountNonceConstants DEF IInv, TypeOK, Accounts, Account
<1> DEFINE h == [handler[r] EXCEPT !.kind = "create", !.org = org,
                   !.pc = IF account[Faucet].balance < Multiplier THEN "refused"
                                                                  ELSE "submit"]
<1>2. handler' = [handler EXCEPT ![r] = h]
  BY <1>1 DEF CreateOrganization
<1>3. /\ h.kind = "create" /\ h.org = org
      /\ h.pc = IF account[Faucet].balance < Multiplier THEN "refused" ELSE "submit"
  BY <1>1 DEF Handler
<1> HIDE DEF h
<1>4. handler'[r] = h /\ \A q \in Requests \ {r} : handler'[q] = handler[q]
  BY <1>1, <1>2
<1>5. h.pc = "submit" => account[Faucet].balance >= Multiplier
  BY <1>1, <1>3, AccountNonceConstants
<1>6. /\ UNCHANGED <<account, pool, cache, db, failed, owed>>
      /\ handler[r].pc = "new" /\ ~db[org].exists
      /\ \A q \in Requests : handler[q].org # org
      /\ contended' = IF FaucetBusy(r) THEN contended \cup {Faucet} ELSE contended
  BY DEF CreateOrganization, ChainUnchanged, Contend
<1>7. ~FaucetBusy(r) => \A q \in Requests \ {r} : ~Drawing(q)
  BY DEF FaucetBusy, Drawing
<1>8. QED  BY <1>1, <1>3, <1>4, <1>5, <1>6, <1>7

LEMMA ReadEffect ==
  ASSUME IInv, NEW r \in Requests, NEW org \in Orgs, NEW kind \in Kinds \ {"create"},
         ReadAccount(r, kind, org)
  PROVE  /\ UNCHANGED <<account, pool, cache, db, failed, owed>>
         /\ \A q \in Requests \ {r} : handler'[q] = handler[q]
         /\ handler[r].pc = "new" /\ db[org].exists
         /\ handler'[r].kind = kind /\ handler'[r].org = org
         /\ handler'[r].nonce = account[org].nonce
         /\ handler'[r].pc \in {"refused", "collect", "submit"}
         /\ handler'[r].pc # "refused" => account[org].exists
         /\ handler'[r].pc = "collect" => account[org].balance < Threshold
         /\ contended \subseteq contended'
         /\ \A a : a # org => (a \in contended' <=> a \in contended)
         /\ org \notin contended' => \A q \in Requests : handler[q].org = org => ~Engaged(q)
<1>1. handler[r] \in Handler /\ handler \in [Requests -> Handler]
      /\ account[org].exists \in BOOLEAN
      /\ \A t \in pool : t.req \in Requests /\ t.org = handler[t.req].org
  BY Known1 DEF Accounts, Account
<1> DEFINE h == [handler[r] EXCEPT !.kind = kind, !.org = org, !.nonce = account[org].nonce,
                   !.pc = CASE ~account[org].exists -> "refused"
                            [] account[org].exists /\ Low(account[org].balance) -> "collect"
                            [] OTHER -> "submit"]
<1>2. handler' = [handler EXCEPT ![r] = h]
  BY <1>1 DEF ReadAccount
<1>3. /\ h.kind = kind /\ h.org = org /\ h.nonce = account[org].nonce
      /\ h.pc \in {"refused", "collect", "submit"}
      /\ h.pc # "refused" => account[org].exists
      /\ h.pc = "collect" => account[org].balance < Threshold
  BY <1>1 DEF Handler, Low
<1> HIDE DEF h
<1>4. handler'[r] = h /\ \A q \in Requests \ {r} : handler'[q] = handler[q]
  BY <1>1, <1>2
<1>5. /\ UNCHANGED <<account, pool, cache, db, failed, owed>>
      /\ handler[r].pc = "new" /\ db[org].exists
      /\ contended' = IF Busy(org) THEN contended \cup {org} ELSE contended
  BY DEF ReadAccount, ChainUnchanged, Contend
<1>6. ~Busy(org) => \A q \in Requests : handler[q].org = org => ~Engaged(q)
  BY <1>1 DEF Busy, Engaged
<1>7. QED  BY <1>3, <1>4, <1>5, <1>6

LEMMA FaucetEffect ==
  ASSUME IInv, NEW r \in Requests, ReadFaucet(r)
  PROVE  /\ UNCHANGED <<account, pool, cache, db, failed, owed>>
         /\ \A q \in Requests \ {r} : handler'[q] = handler[q]
         /\ handler[r].pc = "collect" /\ handler'[r].pc \in {"refused", "collecting"}
         /\ handler'[r].kind = handler[r].kind /\ handler'[r].org = handler[r].org
         /\ handler'[r].nonce = handler[r].nonce
         /\ handler'[r].faucetNonce = account[Faucet].nonce
         /\ handler'[r].pc = "collecting" => account[Faucet].balance >= Multiplier
         /\ contended \subseteq contended'
         /\ \A o \in Orgs : o \in contended' => o \in contended
         /\ Faucet \notin contended' => \A q \in Requests \ {r} : ~Drawing(q)
<1>1. handler[r] \in Handler /\ Faucet \notin Orgs /\ Faucet \in Accounts
      /\ account[Faucet].balance \in Nat /\ handler \in [Requests -> Handler]
  BY AccountNonceConstants DEF IInv, TypeOK, Accounts, Account
<1> DEFINE h == [handler[r] EXCEPT
                   !.pc = IF account[Faucet].balance < Multiplier THEN "refused"
                                                                  ELSE "collecting",
                   !.faucetNonce = account[Faucet].nonce]
<1>2. handler' = [handler EXCEPT ![r] = h]
  BY <1>1 DEF ReadFaucet
<1>3. /\ h.kind = handler[r].kind /\ h.org = handler[r].org /\ h.nonce = handler[r].nonce
      /\ h.faucetNonce = account[Faucet].nonce
      /\ h.pc = IF account[Faucet].balance < Multiplier THEN "refused" ELSE "collecting"
  BY <1>1 DEF Handler
<1> HIDE DEF h
<1>4. handler'[r] = h /\ \A q \in Requests \ {r} : handler'[q] = handler[q]
  BY <1>1, <1>2
<1>5. h.pc = "collecting" => account[Faucet].balance >= Multiplier
  BY <1>1, <1>3, AccountNonceConstants
<1>6. /\ UNCHANGED <<account, pool, cache, db, failed, owed>> /\ handler[r].pc = "collect"
      /\ contended' = IF FaucetBusy(r) THEN contended \cup {Faucet} ELSE contended
  BY DEF ReadFaucet, ChainUnchanged, Contend
<1>7. ~FaucetBusy(r) => \A q \in Requests \ {r} : ~Drawing(q)
  BY DEF FaucetBusy, Drawing
<1>8. QED  BY <1>1, <1>3, <1>4, <1>5, <1>6, <1>7

LEMMA MoveEffect ==
  ASSUME IInv, NEW r \in Requests, NEW pc, SetHandler(r, pc)
  PROVE  /\ \A q \in Requests \ {r} : handler'[q] = handler[q]
         /\ handler'[r].pc = pc
         /\ handler'[r].kind = handler[r].kind /\ handler'[r].org = handler[r].org
         /\ handler'[r].nonce = handler[r].nonce
         /\ handler'[r].faucetNonce = handler[r].faucetNonce
  BY DEF SetHandler, IInv, TypeOK, Handler

(* A transaction that is executed, as far as URIs and the faucet go.       *)
LEMMA UriEffect ==
  ASSUME IInv, NEW t \in pool, Execute(t)
  PROVE  /\ \A o \in Orgs \ {t.org} : account'[o] = account[o]
         /\ t.kind \in {"create"} \cup Metadata => account'[t.org].uri = t.req
         /\ t.kind \notin {"create"} \cup Metadata => account'[t.org].uri = account[t.org].uri
         /\ t.kind \notin Draws => account'[Faucet] = account[Faucet]
<1>1. t.org \in Accounts /\ Faucet \in Accounts /\ t.org # Faucet
      /\ account \in [Accounts -> Account] /\ t.org \in Orgs
      /\ \A o \in Orgs : o \in Accounts /\ o # Faucet
  BY Known1 DEF Accounts
<1>2. account[t.org] \in Account /\ account[Faucet] \in Account
  BY <1>1
<1>3. \A uri : /\ Credit(t.org, uri)[t.org].uri = uri
               /\ \A o \in Orgs \ {t.org} : Credit(t.org, uri)[o] = account[o]
               /\ \A o \in Orgs : [Credit(t.org, uri) EXCEPT ![Faucet].nonce = @ + 1][o]
                                    = Credit(t.org, uri)[o]
  BY <1>1, <1>2 DEF Credit, Account
<1>4. CASE t.kind = "create"
  BY <1>3, <1>4 DEF Execute, Draws
<1>5. CASE t.kind = "collect"
  BY <1>1, <1>3, <1>5 DEF Execute, Draws, Metadata
<1>6. CASE t.kind \notin Draws
  <2>1. account' = [account EXCEPT ![t.org].balance = @ - 1, ![t.org].nonce = @ + 1,
                      ![t.org].uri = IF t.kind \in Metadata THEN t.req ELSE @]
    BY <1>6 DEF Execute, Draws
  <2>2. QED  BY <1>1, <1>2, <1>6, <2>1 DEF Draws, Account
<1>7. QED  BY <1>4, <1>5, <1>6 DEF Draws

LEMMA Untouched ==
  ASSUME NEW q, handler'[q] = handler[q]
  PROVE  /\ SubmitTx(q)' = SubmitTx(q) /\ CollectTx(q)' = CollectTx(q)
         /\ pool' = pool => (Drawing(q)' <=> Drawing(q))
         /\ pool' = pool /\ cache' = cache => (Engaged(q)' <=> Engaged(q))
  BY DEF SubmitTx, CollectTx, Drawing, Engaged, Running

(* What was not saved stays so: the row and the account agree for good.    *)
LEMMA UnsavedGrows ==
  ASSUME failed \subseteq failed',
         \A q \in Requests : /\ handler[q].kind = "blank" => handler'[q].kind = "blank"
                             /\ handler[q].pc = "lost" => handler'[q].pc = "lost"
  PROVE  /\ Unsaved \subseteq Unsaved'
         /\ \A o : account'[o] = account[o] /\ db'[o] = db[o] /\ Agree(o) => Agree(o)'
<1>1. Unsaved \subseteq Unsaved'  BY DEF Unsaved
<1>2. QED  BY <1>1 DEF Agree

(* A request that is new has nothing under way.                            *)
LEMMA NewIsIdle ==
  ASSUME OInv, NEW r \in Requests, handler[r].pc = "new"
  PROVE  /\ ~Engaged(r) /\ ~Drawing(r) /\ r \notin cache /\ r \notin owed
         /\ \A t \in pool : t.req # r
         /\ handler[r].org \notin Orgs /\ handler[r].kind = "create"
<1>1. r \notin cache /\ r \notin owed /\ \A t \in pool : t.req # r
  BY DEF OInv, IInv, Overlap, Sent, Known
<1>2. handler[r].org \notin Orgs /\ handler[r].kind = "create"
  BY Known1 DEF OInv, Overlap, Sent
<1>3. QED  BY <1>1, <1>2 DEF Engaged, Running, Drawing

-----------------------------------------------------------------------------
(* Each step keeps the invariant.                                          *)

LEMMA CreateOverlap ==
  ASSUME OInv, NEW r \in Requests, NEW org \in Orgs, CreateOrganization(r, org)
  PROVE  Overlap'
<1>1. /\ UNCHANGED <<account, pool, cache, db, failed, owed>>
      /\ \A q \in Requests \ {r} : handler'[q] = handler[q]
      /\ handler[r].pc = "new" /\ ~db[org].exists
      /\ \A q \in Requests : handler[q].org # org
      /\ handler'[r].kind = "create" /\ handler'[r].org = org
      /\ handler'[r].pc \in {"refused", "submit"}
      /\ handler'[r].pc = "submit" => account[Faucet].balance >= Multiplier
      /\ contended \subseteq contended'
      /\ \A o \in Orgs : o \in contended' => o \in contended
      /\ Faucet \notin contended' => \A q \in Requests \ {r} : ~Drawing(q)
  BY CreateEffect DEF OInv
<1>2. /\ ~Engaged(r) /\ ~Drawing(r) /\ r \notin cache /\ r \notin owed
      /\ \A t \in pool : t.req # r
      /\ handler[r].org \notin Orgs /\ handler[r].kind = "create"
  BY <1>1, NewIsIdle
<1>3. \A q \in Requests \ {r} :
        /\ (Engaged(q)' <=> Engaged(q)) /\ (Drawing(q)' <=> Drawing(q))
        /\ SubmitTx(q)' = SubmitTx(q) /\ CollectTx(q)' = CollectTx(q)
  BY <1>1, Untouched
<1>4. /\ \A t \in pool : t.req \in Requests \ {r} /\ t.org \in Orgs
      /\ owed \subseteq Requests \ {r} /\ cache \subseteq Requests \ {r}
      /\ Nil \notin Orgs
  BY <1>2, Known1 DEF OInv
<1>5. Sent'
  BY <1>1, <1>3, <1>4 DEF OInv, Overlap, Sent
<1>6. ~account[org].exists
  BY <1>1 DEF OInv, Overlap, Founded, ExistingReady, AccountHasRequest
<1>7. Founded'
  <2> ExistingReady /\ OneCreator /\ RowHasCreator /\ AccountHasRequest /\ CreatorFirst
    BY DEF OInv, Overlap, Founded
  <2>1. ExistingReady'  BY <1>1, <1>6 DEF ExistingReady
  <2>2. OneCreator'  BY <1>1, <1>6 DEF OneCreator
  <2>3. RowHasCreator'
    <3>1. \A q \in Requests : handler[q].pc = "stored" => handler'[q] = handler[q]
      BY <1>1, <1>6
    <3>2. QED  BY <3>1, <1>1 DEF RowHasCreator
  <2>4. AccountHasRequest'
    <3>1. \A q \in Requests : handler[q].org \in Orgs => handler'[q].org = handler[q].org
      BY <1>1, <1>2
    <3>2. QED  BY <3>1, <1>1 DEF AccountHasRequest
  <2>5. CreatorFirst'  BY <1>1, <1>6 DEF CreatorFirst
  <2>6. QED  BY <2>1, <2>2, <2>3, <2>4, <2>5 DEF Founded
<1>8. Alone'
  BY <1>1, <1>3 DEF OInv, Overlap, Alone
<1>9. FaucetKept'
  <2> SUFFICES ASSUME Faucet \notin contended'
               PROVE  (OneDraw /\ DrawsFunded /\ NonceFresh /\ TopUpsComing /\ AccountsComing)'
    BY DEF FaucetKept
  <2> OneDraw /\ DrawsFunded /\ NonceFresh /\ TopUpsComing /\ AccountsComing
    BY <1>1 DEF OInv, Overlap, FaucetKept
  <2>a. \A q \in Requests \ {r} : ~Drawing(q)'
    BY <1>1, <1>3
  <2>1. OneDraw'  BY <2>a DEF OneDraw
  <2>b. Drawing(r)' => account[Faucet].balance >= Multiplier
    BY <1>1, <1>4 DEF Drawing
  <2>2. DrawsFunded'  BY <1>1, <2>a, <2>b DEF DrawsFunded
  <2>3. NonceFresh'  BY <1>1, <1>3, <1>4 DEF NonceFresh
  <2>4. TopUpsComing'  BY <1>1, <1>3, <1>4 DEF TopUpsComing
  <2>5. AccountsComing'  BY <1>1, <1>3, <1>4 DEF AccountsComing
  <2>6. QED  BY <2>1, <2>2, <2>3, <2>4, <2>5
<1>10. AccountKept'
  BY <1>1, <1>4 DEF OInv, Overlap, AccountKept, Reads, Valid
<1>11. UrisKept'
  <2>1. \A q \in Requests \ {r} : Moving(q)' <=> Moving(q)
    BY <1>1, <1>3 DEF Moving
  <2>2. ~Moving(r)' /\ ~Moving(r)
    BY <1>1, <1>2 DEF Moving
  <2>3. Unsaved \subseteq Unsaved' /\ \A o : Agree(o) => Agree(o)'
    BY <1>1, <1>2, UnsavedGrows
  <2>4. QED  BY <1>1, <1>3, <2>1, <2>2, <2>3 DEF OInv, Overlap, UrisKept
<1>12. Explained'
  BY <1>1 DEF OInv, Overlap, Explained, RejectionsExplained
<1>13. QED  BY <1>5, <1>7, <1>8, <1>9, <1>10, <1>11, <1>12 DEF Overlap

LEMMA ReadOverlap ==
  ASSUME OInv, NEW r \in Requests, NEW org \in Orgs, NEW kind \in Kinds \ {"create"},
         ReadAccount(r, kind, org)
  PROVE  Overlap'
<1>1. /\ UNCHANGED <<account, pool, cache, db, failed, owed>>
      /\ \A q \in Requests \ {r} : handler'[q] = handler[q]
      /\ handler[r].pc = "new" /\ db[org].exists
      /\ handler'[r].kind = kind /\ handler'[r].org = org
      /\ handler'[r].nonce = account[org].nonce
      /\ handler'[r].pc \in {"refused", "collect", "submit"}
      /\ handler'[r].pc # "refused" => account[org].exists
      /\ handler'[r].pc = "collect" => account[org].balance < Threshold
      /\ contended \subseteq contended'
      /\ \A a : a # org => (a \in contended' <=> a \in contended)
      /\ org \notin contended' => \A q \in Requests : handler[q].org = org => ~Engaged(q)
  BY ReadEffect DEF OInv
<1>2. /\ ~Engaged(r) /\ ~Drawing(r) /\ r \notin cache /\ r \notin owed
      /\ \A t \in pool : t.req # r
      /\ handler[r].org \notin Orgs /\ handler[r].kind = "create"
  BY <1>1, NewIsIdle
<1>3. \A q \in Requests \ {r} :
        /\ (Engaged(q)' <=> Engaged(q)) /\ (Drawing(q)' <=> Drawing(q))
        /\ SubmitTx(q)' = SubmitTx(q) /\ CollectTx(q)' = CollectTx(q)
  BY <1>1, Untouched
<1>4. /\ \A t \in pool : t.req \in Requests \ {r} /\ t.org \in Orgs /\ handler[t.req].org = t.org
      /\ owed \subseteq Requests \ {r} /\ cache \subseteq Requests \ {r}
      /\ Nil \notin Orgs /\ Faucet # org
  BY <1>2, Known1 DEF OInv
<1>5. Sent'
  BY <1>1, <1>3, <1>4 DEF OInv, Overlap, Sent
<1>6. Founded'
  <2> ExistingReady /\ OneCreator /\ RowHasCreator /\ AccountHasRequest /\ CreatorFirst
    BY DEF OInv, Overlap, Founded
  <2>1. ExistingReady'  BY <1>1, <1>2 DEF ExistingReady
  <2>2. OneCreator'  BY <1>1, <1>2 DEF OneCreator
  <2>3. RowHasCreator'
    <3>1. \A q \in Requests : handler[q].pc = "stored" => handler'[q] = handler[q]
      BY <1>1, <1>2
    <3>2. QED  BY <3>1, <1>1 DEF RowHasCreator
  <2>4. AccountHasRequest'
    <3>1. \A q \in Requests : handler[q].org \in Orgs => handler'[q].org = handler[q].org
      BY <1>1, <1>2
    <3>2. QED  BY <3>1, <1>1 DEF AccountHasRequest
  <2>5. CreatorFirst'  BY <1>1, <1>2 DEF CreatorFirst
  <2>6. QED  BY <2>1, <2>2, <2>3, <2>4, <2>5 DEF Founded
<1>7. Alone'
  BY <1>1, <1>3 DEF OInv, Overlap, Alone
<1>8. ~Drawing(r)'
  BY <1>1, <1>2 DEF Drawing
<1>9. FaucetKept'
  <2> SUFFICES ASSUME Faucet \notin contended'
               PROVE  (OneDraw /\ DrawsFunded /\ NonceFresh /\ TopUpsComing /\ AccountsComing)'
    BY DEF FaucetKept
  <2> OneDraw /\ DrawsFunded /\ NonceFresh /\ TopUpsComing /\ AccountsComing
    BY <1>1 DEF OInv, Overlap, FaucetKept
  <2>1. OneDraw'  BY <1>1, <1>3, <1>4, <1>8 DEF OneDraw
  <2>2. DrawsFunded'  BY <1>1, <1>3, <1>4, <1>8 DEF DrawsFunded
  <2>3. NonceFresh'  BY <1>1, <1>3, <1>4, <1>8 DEF NonceFresh
  <2>4. TopUpsComing'  BY <1>1, <1>3, <1>4, <1>8 DEF TopUpsComing
  <2>5. AccountsComing'  BY <1>1, <1>3, <1>4, <1>8 DEF AccountsComing
  <2>6. QED  BY <2>1, <2>2, <2>3, <2>4, <2>5
<1>10. ASSUME org \notin contended', Faucet \notin contended', account[org].exists
       PROVE  account[org].balance >= Threshold - 1
  <2>1. ASSUME NEW q \in owed, handler[q].org = org  PROVE FALSE
    <3>1. CollectTx(q) \in pool /\ q \in Requests
      BY <1>1, <1>4, <1>10, <2>1 DEF OInv, Overlap, FaucetKept, TopUpsComing
    <3>2. Engaged(q)
      BY <3>1 DEF Engaged, CollectTx
    <3>3. QED  BY <1>1, <1>10, <2>1, <3>1, <3>2
  <2>2. {q \in owed : handler[q].org = org} = {}
    BY <2>1
  <2>3. TopUpsOwed(org) = 0
    BY <2>2, FS_EmptySet DEF TopUpsOwed
  <2>4. account[org].balance \in Nat
    BY Known1 DEF OInv, Accounts, Account
  <2>5. Means(org) >= Threshold - 1
    BY <1>10 DEF OInv, IInv, Kept
  <2>6. QED  BY <2>3, <2>4, <2>5 DEF Means
<1>11. AccountKept'
  <2>1. ASSUME NEW q \in Requests, Reads(q)', handler'[q].org \notin contended'
        PROVE  LET a == account'[handler'[q].org]
               IN  /\ a.exists /\ handler'[q].nonce = a.nonce
                   /\ handler'[q].pc # "submit" => a.balance < Threshold
                   /\ Faucet \notin contended' => a.balance >= Threshold - 1
    <3>1. CASE q = r
      BY <3>1, <2>1, <1>1, <1>10 DEF Reads
    <3>2. CASE q # r
      BY <3>2, <2>1, <1>1 DEF Reads, OInv, Overlap, AccountKept
    <3>3. QED  BY <3>1, <3>2
  <2>2. \A t \in pool' : t.org \notin contended' =>
          /\ t.kind = "collect" => account'[t.org].balance < Threshold
          /\ t.kind \notin Draws => Valid(t)'
    BY <1>1 DEF OInv, Overlap, AccountKept, Valid
  <2>3. QED  BY <2>1, <2>2 DEF AccountKept
<1>12. UrisKept'
  <2>1. \A q \in Requests \ {r} : Moving(q)' <=> Moving(q)
    BY <1>1, <1>3 DEF Moving
  <2>2. ~Moving(r)' /\ ~Moving(r)
    BY <1>1, <1>2 DEF Moving
  <2>3. Unsaved \subseteq Unsaved' /\ \A o : Agree(o) => Agree(o)'
    BY <1>1, <1>2, UnsavedGrows
  <2>4. QED  BY <1>1, <1>3, <2>1, <2>2, <2>3 DEF OInv, Overlap, UrisKept
<1>13. Explained'
  BY <1>1 DEF OInv, Overlap, Explained, RejectionsExplained
<1>14. QED  BY <1>5, <1>6, <1>7, <1>9, <1>11, <1>12, <1>13 DEF Overlap

LEMMA FaucetOverlap ==
  ASSUME OInv, NEW r \in Requests, ReadFaucet(r)
  PROVE  Overlap'
<1>1. /\ UNCHANGED <<account, pool, cache, db, failed, owed>>
      /\ \A q \in Requests \ {r} : handler'[q] = handler[q]
      /\ handler[r].pc = "collect" /\ handler'[r].pc \in {"refused", "collecting"}
      /\ handler'[r].kind = handler[r].kind /\ handler'[r].org = handler[r].org
      /\ handler'[r].nonce = handler[r].nonce
      /\ handler'[r].faucetNonce = account[Faucet].nonce
      /\ handler'[r].pc = "collecting" => account[Faucet].balance >= Multiplier
      /\ contended \subseteq contended'
      /\ \A o \in Orgs : o \in contended' => o \in contended
      /\ Faucet \notin contended' => \A q \in Requests \ {r} : ~Drawing(q)
  BY FaucetEffect DEF OInv
<1>2. \A q \in Requests \ {r} :
        /\ (Engaged(q)' <=> Engaged(q)) /\ (Drawing(q)' <=> Drawing(q))
        /\ SubmitTx(q)' = SubmitTx(q) /\ CollectTx(q)' = CollectTx(q)
  BY <1>1, Untouched
<1>3. /\ SubmitTx(r)' = SubmitTx(r) /\ Engaged(r) /\ handler[r].org \in Orgs
      /\ handler[r].kind # "create" /\ r \notin owed /\ r \notin cache
  BY <1>1 DEF OInv, IInv, Known, Overlap, Sent, SubmitTx, Engaged, Running
<1>4. \A t \in pool : t.req \in Requests /\ t.req # r /\ t.org \in Orgs
  BY <1>1, Known1 DEF OInv, Overlap, Sent
<1>5. owed \subseteq Requests \ {r} /\ cache \subseteq Requests \ {r}
  BY <1>3, Known1 DEF OInv
<1>6. Sent'
  BY <1>1, <1>2, <1>3, <1>4, <1>5 DEF OInv, Overlap, Sent
<1>7. Founded'
  <2> ExistingReady /\ OneCreator /\ RowHasCreator /\ AccountHasRequest /\ CreatorFirst
    BY DEF OInv, Overlap, Founded
  <2>1. ExistingReady'  BY <1>1 DEF ExistingReady
  <2>2. OneCreator'  BY <1>1 DEF OneCreator
  <2>3. RowHasCreator'
    <3>1. \A q \in Requests : handler[q].pc = "stored" => handler'[q] = handler[q]
      BY <1>1
    <3>2. QED  BY <3>1, <1>1 DEF RowHasCreator
  <2>4. AccountHasRequest'
    <3>1. \A q \in Requests : handler[q].org \in Orgs => handler'[q].org = handler[q].org
      BY <1>1
    <3>2. QED  BY <3>1, <1>1 DEF AccountHasRequest
  <2>5. CreatorFirst'  BY <1>1 DEF CreatorFirst
  <2>6. QED  BY <2>1, <2>2, <2>3, <2>4, <2>5 DEF Founded
<1>8. Alone'
  <2>1. \A q \in Requests : /\ Engaged(q)' => Engaged(q)
                            /\ handler'[q].org = handler[q].org
    BY <1>1, <1>2, <1>3
  <2>2. QED  BY <1>1, <2>1 DEF OInv, Overlap, Alone
<1>9. FaucetKept'
  <2> SUFFICES ASSUME Faucet \notin contended'
               PROVE  (OneDraw /\ DrawsFunded /\ NonceFresh /\ TopUpsComing /\ AccountsComing)'
    BY DEF FaucetKept
  <2> OneDraw /\ DrawsFunded /\ NonceFresh /\ TopUpsComing /\ AccountsComing
    BY <1>1 DEF OInv, Overlap, FaucetKept
  <2>a. \A q \in Requests \ {r} : ~Drawing(q)'
    BY <1>1, <1>2
  <2>1. OneDraw'  BY <2>a DEF OneDraw
  <2>b. Drawing(r)' => account[Faucet].balance >= Multiplier
    BY <1>1, <1>4 DEF Drawing
  <2>2. DrawsFunded'  BY <1>1, <2>a, <2>b DEF DrawsFunded
  <2>3. NonceFresh'  BY <1>1, <1>2, <1>3, <1>4, <1>5 DEF NonceFresh
  <2>4. TopUpsComing'  BY <1>1, <1>2, <1>3, <1>4, <1>5 DEF TopUpsComing
  <2>5. AccountsComing'  BY <1>1, <1>2, <1>3, <1>4, <1>5 DEF AccountsComing
  <2>6. QED  BY <2>1, <2>2, <2>3, <2>4, <2>5
<1>10. AccountKept'
  BY <1>1, <1>3, <1>4 DEF OInv, Overlap, AccountKept, Reads, Valid
<1>11. UrisKept'
  <2>1. \A q \in Requests \ {r} : Moving(q)' <=> Moving(q)
    BY <1>1, <1>2 DEF Moving
  <2>2. ~Moving(r)' /\ ~Moving(r)
    BY <1>1 DEF Moving
  <2>3. Unsaved \subseteq Unsaved' /\ \A o : Agree(o) => Agree(o)'
    BY <1>1, UnsavedGrows
  <2>4. QED  BY <1>1, <1>2, <2>1, <2>2, <2>3 DEF OInv, Overlap, UrisKept
<1>12. Explained'
  BY <1>1 DEF OInv, Overlap, Explained, RejectionsExplained
<1>13. QED  BY <1>6, <1>7, <1>8, <1>9, <1>10, <1>11, <1>12 DEF Overlap

(* A handler that gives up: rejected by the gateway, stopped or lost.      *)
LEMMA LeaveOverlap ==
  ASSUME OInv, NEW r \in Requests, NEW pc \in {"rejected", "stopped", "lost"},
         Running(r), SetHandler(r, pc),
         UNCHANGED <<account, pool, cache, db, failed, owed, contended>>,
         handler[r].pc = "store" <=> pc = "lost",
         pc = "rejected" /\ Threshold > 1 => {handler[r].org, Faucet} \cap contended # {}
  PROVE  Overlap'
<1>1. /\ UNCHANGED <<account, pool, cache, db, failed, owed, contended>>
      /\ \A q \in Requests \ {r} : handler'[q] = handler[q]
      /\ handler'[r].pc = pc
      /\ handler'[r].kind = handler[r].kind /\ handler'[r].org = handler[r].org
      /\ handler'[r].nonce = handler[r].nonce
      /\ handler'[r].faucetNonce = handler[r].faucetNonce
      /\ handler[r].pc \in {"collect", "collecting", "submit", "store"}
  BY MoveEffect DEF OInv, Running
<1>2. \A q \in Requests \ {r} :
        /\ (Engaged(q)' <=> Engaged(q)) /\ (Drawing(q)' <=> Drawing(q))
        /\ SubmitTx(q)' = SubmitTx(q) /\ CollectTx(q)' = CollectTx(q)
  BY <1>1, Untouched
<1>3. /\ SubmitTx(r)' = SubmitTx(r) /\ CollectTx(r)' = CollectTx(r)
      /\ Engaged(r) /\ (Drawing(r)' => Drawing(r)) /\ r \notin cache
  BY <1>1 DEF OInv, Overlap, Sent, SubmitTx, CollectTx, Engaged, Running, Drawing
<1>4. /\ \A t \in pool : t.req \in Requests /\ t.org \in Orgs
      /\ \A q \in Requests : handler'[q].org = handler[q].org /\ handler'[q].kind = handler[q].kind
      /\ owed \subseteq Requests /\ cache \subseteq Requests
  BY <1>1, Known1 DEF OInv
<1>5. Sent'
  BY <1>1, <1>2, <1>3, <1>4 DEF OInv, Overlap, Sent
<1>6. Founded'
  <2> ExistingReady /\ OneCreator /\ RowHasCreator /\ AccountHasRequest /\ CreatorFirst
    BY DEF OInv, Overlap, Founded
  <2>1. ExistingReady'  BY <1>1, <1>4 DEF ExistingReady
  <2>2. OneCreator'  BY <1>1, <1>4 DEF OneCreator
  <2>3. RowHasCreator'  BY <1>1, <1>4 DEF RowHasCreator
  <2>4. AccountHasRequest'  BY <1>1, <1>4 DEF AccountHasRequest
  <2>5. CreatorFirst'  BY <1>1, <1>4 DEF CreatorFirst
  <2>6. QED  BY <2>1, <2>2, <2>3, <2>4, <2>5 DEF Founded
<1>7. Alone'
  <2>1. \A q \in Requests : Engaged(q)' => Engaged(q)
    BY <1>2, <1>3
  <2>2. QED  BY <1>1, <1>4, <2>1 DEF OInv, Overlap, Alone
<1>8. \A q \in Requests : Drawing(q)' => Drawing(q)
  BY <1>2, <1>3
<1>9. FaucetKept'
  <2> SUFFICES ASSUME Faucet \notin contended'
               PROVE  (OneDraw /\ DrawsFunded /\ NonceFresh /\ TopUpsComing /\ AccountsComing)'
    BY DEF FaucetKept
  <2> OneDraw /\ DrawsFunded /\ NonceFresh /\ TopUpsComing /\ AccountsComing
    BY <1>1 DEF OInv, Overlap, FaucetKept
  <2>1. OneDraw'  BY <1>8 DEF OneDraw
  <2>2. DrawsFunded'  BY <1>1, <1>8 DEF DrawsFunded
  <2>3. NonceFresh'  BY <1>1, <1>2, <1>3, <1>4 DEF NonceFresh
  <2>4. TopUpsComing'  BY <1>1, <1>2, <1>3, <1>4 DEF TopUpsComing
  <2>5. AccountsComing'  BY <1>1, <1>2, <1>3, <1>4 DEF AccountsComing
  <2>6. QED  BY <2>1, <2>2, <2>3, <2>4, <2>5
<1>10. AccountKept'
  BY <1>1, <1>4 DEF OInv, Overlap, AccountKept, Reads, Valid
<1>11. UrisKept'
  <2>1. \A q \in Requests \ {r} : Moving(q)' <=> Moving(q)
    BY <1>1, <1>2 DEF Moving
  <2>2. ~Moving(r)'  BY <1>1 DEF Moving
  <2>3. Unsaved \subseteq Unsaved' /\ \A o : Agree(o) => Agree(o)'
    BY <1>1, UnsavedGrows
  <2>4. ASSUME NEW o \in Orgs, o \notin contended, Moving(r), handler[r].org = o
        PROVE  Agree(o)'
    <3>1. handler[r].pc = "store" /\ r \in Unsaved'
      BY <1>1, <2>4 DEF Moving, Unsaved
    <3>2. CASE SubmitTx(r) \in pool
      BY <2>3, <2>4, <3>1, <3>2 DEF OInv, Overlap, UrisKept
    <3>3. CASE SubmitTx(r) \notin pool
      <4>1. account'[o].uri = r
        BY <1>1, <2>4, <3>3 DEF OInv, Overlap, UrisKept
      <4>2. QED  BY <3>1, <4>1 DEF Agree
    <3>4. QED  BY <3>2, <3>3
  <2>5. QED  BY <1>1, <1>2, <2>1, <2>2, <2>3, <2>4 DEF OInv, Overlap, UrisKept
<1>12. Explained'
  BY <1>1 DEF OInv, Overlap, Explained, RejectionsExplained
<1>13. QED  BY <1>5, <1>6, <1>7, <1>9, <1>10, <1>11, <1>12 DEF Overlap

(* A draw on the faucet whose nonce is fresh is valid.                     *)
LEMMA CollectOverlap ==
  ASSUME OInv, NEW r \in Requests, CollectFaucet(r)
  PROVE  Overlap'
<1> DEFINE c == CollectTx(r)
<1>a. /\ handler[r].pc = "collecting" /\ handler[r].kind # "create" /\ handler[r].org \in Orgs
      /\ c.kind = "collect" /\ c.req = r /\ c.org = handler[r].org
      /\ c.nonce = handler[r].faucetNonce /\ account[handler[r].org].exists
      /\ r \notin owed /\ Running(r)
  BY DEF CollectFaucet, CollectTx, OInv, IInv, Known, Running
<1>b. CASE ~Valid(c)
  <2>1. Faucet \in contended
    <3>1. Drawing(r)  BY <1>a DEF Drawing
    <3>2. QED
      BY <1>a, <1>b, <3>1 DEF OInv, Overlap, FaucetKept, NonceFresh, DrawsFunded, Valid
  <2>2. SetHandler(r, "rejected") /\ UNCHANGED <<account, pool, cache, db, failed, owed, contended>>
    BY <1>b DEF CollectFaucet
  <2>3. QED  BY <1>a, <2>1, <2>2, LeaveOverlap
<1>c. CASE Valid(c)
  <2>1. /\ UNCHANGED <<account, cache, db, failed, contended>>
        /\ pool' = pool \cup {c} /\ owed' = owed \cup {r}
        /\ SetHandler(r, "submit")
    BY <1>c DEF CollectFaucet
  <2>2. /\ \A q \in Requests \ {r} : handler'[q] = handler[q]
        /\ handler'[r].pc = "submit"
        /\ handler'[r].kind = handler[r].kind /\ handler'[r].org = handler[r].org
        /\ handler'[r].nonce = handler[r].nonce
        /\ handler'[r].faucetNonce = handler[r].faucetNonce
    BY <2>1, MoveEffect DEF OInv
  <2>3. CollectTx(r)' = c /\ SubmitTx(r)' = SubmitTx(r)
    BY <2>2 DEF CollectTx, SubmitTx
  <2> HIDE DEF c
  <2>4. /\ \A t \in pool : t.req \in Requests /\ t.org \in Orgs
        /\ \A q \in Requests : handler'[q].org = handler[q].org /\ handler'[q].kind = handler[q].kind
        /\ owed \subseteq Requests /\ cache \subseteq Requests
    BY <2>2, Known1 DEF OInv
  <2>5. \A q \in Requests \ {r} : SubmitTx(q)' = SubmitTx(q) /\ CollectTx(q)' = CollectTx(q)
    BY <2>2, Untouched
  <2>6. \A q \in Requests \ {r} : (Engaged(q)' <=> Engaged(q)) /\ (Drawing(q)' <=> Drawing(q))
    BY <2>1, <2>2, <1>a DEF Engaged, Running, Drawing
  <2>7. Engaged(r) /\ Drawing(r)
    BY <1>a DEF Engaged, Drawing
  <2>8. \A q \in Requests : (Engaged(q)' => Engaged(q)) /\ (Drawing(q)' => Drawing(q))
    BY <2>6, <2>7
  <2>9. Sent'
    <3>1. ASSUME NEW t \in pool'
          PROVE  IF t.kind = "collect"
                   THEN /\ t = CollectTx(t.req)'
                        /\ handler'[t.req].pc \notin {"new", "collect", "collecting"}
                        /\ handler'[t.req].kind # "create"
                        /\ account'[t.org].exists
                   ELSE /\ t = SubmitTx(t.req)'
                        /\ handler'[t.req].pc \in {"store", "stored", "lost"}
      <4>1. CASE t = c
        BY <4>1, <1>a, <2>1, <2>2, <2>3
      <4>2. CASE t \in pool
        <5>1. t.req # r
          BY <4>2, <1>a DEF OInv, Overlap, Sent
        <5>2. QED  BY <4>2, <5>1, <2>1, <2>2, <2>4, <2>5 DEF OInv, Overlap, Sent
      <4>3. QED  BY <2>1, <4>1, <4>2
    <3>2. QED  BY <3>1, <2>1, <2>2, <2>4, <1>a DEF OInv, Overlap, Sent
  <2>10. Founded'
    <3> ExistingReady /\ OneCreator /\ RowHasCreator /\ AccountHasRequest /\ CreatorFirst
    BY DEF OInv, Overlap, Founded
    <3>1. ExistingReady'  BY <2>1, <2>2, <2>4, <1>a DEF ExistingReady
    <3>2. OneCreator'  BY <2>1, <2>2, <2>4, <1>a DEF OneCreator
    <3>3. RowHasCreator'  BY <2>1, <2>2, <2>4, <1>a DEF RowHasCreator
    <3>4. AccountHasRequest'  BY <2>1, <2>2, <2>4, <1>a DEF AccountHasRequest
    <3>5. CreatorFirst'  BY <2>1, <2>2, <2>4, <1>a DEF CreatorFirst
    <3>6. QED  BY <3>1, <3>2, <3>3, <3>4, <3>5 DEF Founded
  <2>11. Alone'
    BY <2>1, <2>4, <2>8 DEF OInv, Overlap, Alone
  <2>12. FaucetKept'
    <3> SUFFICES ASSUME Faucet \notin contended'
                 PROVE  (OneDraw /\ DrawsFunded /\ NonceFresh /\ TopUpsComing /\ AccountsComing)'
      BY DEF FaucetKept
    <3> OneDraw /\ DrawsFunded /\ NonceFresh /\ TopUpsComing /\ AccountsComing
      BY <2>1 DEF OInv, Overlap, FaucetKept
    <3>1. OneDraw'  BY <2>8 DEF OneDraw
    <3>2. DrawsFunded'  BY <2>1, <2>8 DEF DrawsFunded
    <3>3. NonceFresh'  BY <1>a, <2>1, <2>2 DEF NonceFresh
    <3>4. TopUpsComing'  BY <2>1, <2>3, <2>4, <2>5, <1>a DEF TopUpsComing
    <3>5. AccountsComing'  BY <2>1, <2>2, <2>3, <2>5 DEF AccountsComing
    <3>6. QED  BY <3>1, <3>2, <3>3, <3>4, <3>5
  <2>13. AccountKept'
    <3>1. \A q \in Requests : Reads(q)' => Reads(q)
      BY <1>a, <2>2 DEF Reads
    <3>2. Reads(r) /\ c.kind \in Draws
      BY <1>a DEF Reads, Draws
    <3>3. QED  BY <1>a, <2>1, <2>2, <3>1, <3>2 DEF OInv, Overlap, AccountKept, Valid
  <2>14. UrisKept'
    <3>1. \A q \in Requests \ {r} : Moving(q)' <=> Moving(q)
      BY <2>2, <2>6 DEF Moving
    <3>2. ~Moving(r)' /\ ~Moving(r)
      BY <1>a, <2>2 DEF Moving
    <3>3. Unsaved \subseteq Unsaved' /\ \A o : Agree(o) => Agree(o)'
      BY <1>a, <2>1, <2>2, UnsavedGrows
    <3>n. \A q \in Requests \ {r} : SubmitTx(q) # c
      BY <1>a DEF SubmitTx
    <3>4. \A q \in Requests \ {r} : SubmitTx(q)' \in pool' <=> SubmitTx(q) \in pool
      BY <2>1, <2>5, <3>n
    <3>5. QED  BY <1>a, <2>1, <2>2, <2>4, <3>1, <3>2, <3>3, <3>4 DEF OInv, Overlap, UrisKept
  <2>15. Explained'
    BY <2>1, <2>2 DEF OInv, Overlap, Explained, RejectionsExplained
  <2>16. QED  BY <2>9, <2>10, <2>11, <2>12, <2>13, <2>14, <2>15 DEF Overlap
<1>d. QED  BY <1>b, <1>c

(* A transaction with what was read of the account is valid, until requests *)
(* of the organization overlap.                                            *)
LEMMA SubmitOverlap ==
  ASSUME OInv, NEW r \in Requests, Submit(r)
  PROVE  Overlap'
<1> DEFINE x == SubmitTx(r)
<1>a. /\ handler[r].pc = "submit" /\ handler[r].org \in Orgs /\ handler[r].kind \in Kinds
      /\ x.kind = handler[r].kind /\ x.req = r /\ x.org = handler[r].org
      /\ x.nonce = handler[r].nonce /\ Running(r) /\ x.kind # "collect"
  BY Known1 DEF Submit, SubmitTx, OInv, IInv, Known, Running, Handler, Kinds, Metadata
<1>b. CASE ~Valid(x)
  <2>1. ASSUME Threshold > 1, Faucet \notin contended, handler[r].org \notin contended
        PROVE  FALSE
    <3>1. CASE handler[r].kind = "create"
      <4>1. Drawing(r)  BY <1>a, <3>1 DEF Drawing
      <4>2. account[Faucet].balance >= Multiplier
        BY <4>1, <2>1 DEF OInv, Overlap, FaucetKept, DrawsFunded
      <4>3. ~account[handler[r].org].exists
        BY <1>a, <3>1 DEF OInv, Overlap, Founded, CreatorFirst
      <4>4. QED  BY <1>a, <1>b, <3>1, <4>2, <4>3 DEF Valid
    <3>2. CASE handler[r].kind # "create"
      <4>1. Reads(r)  BY <1>a, <3>2 DEF Reads
      <4>2. /\ handler[r].nonce = account[handler[r].org].nonce
            /\ account[handler[r].org].balance >= Threshold - 1
        BY <4>1, <2>1 DEF OInv, Overlap, AccountKept
      <4>3. account[handler[r].org].balance \in Nat
        BY <1>a, Known1 DEF OInv, Accounts, Account
      <4>4. account[handler[r].org].balance >= 1
        BY <4>2, <4>3, <2>1, AccountNonceConstants
      <4>5. QED  BY <1>a, <1>b, <3>2, <4>2, <4>4 DEF Valid
    <3>3. QED  BY <3>1, <3>2
  <2>2. SetHandler(r, "rejected") /\ UNCHANGED <<account, pool, cache, db, failed, owed, contended>>
    BY <1>b DEF Submit
  <2>3. QED  BY <1>a, <2>1, <2>2, LeaveOverlap
<1>c. CASE Valid(x)
  <2>1. /\ UNCHANGED <<account, cache, db, failed, owed, contended>>
        /\ pool' = pool \cup {x} /\ SetHandler(r, "store")
    BY <1>c DEF Submit
  <2>2. /\ \A q \in Requests \ {r} : handler'[q] = handler[q]
        /\ handler'[r].pc = "store"
        /\ handler'[r].kind = handler[r].kind /\ handler'[r].org = handler[r].org
        /\ handler'[r].nonce = handler[r].nonce
        /\ handler'[r].faucetNonce = handler[r].faucetNonce
    BY <2>1, MoveEffect DEF OInv
  <2>3. SubmitTx(r)' = x /\ CollectTx(r)' = CollectTx(r)
    BY <2>2 DEF CollectTx, SubmitTx
  <2> HIDE DEF x
  <2>4. /\ \A t \in pool : t.req \in Requests /\ t.org \in Orgs
        /\ \A q \in Requests : handler'[q].org = handler[q].org /\ handler'[q].kind = handler[q].kind
        /\ owed \subseteq Requests /\ cache \subseteq Requests
    BY <2>2, Known1 DEF OInv
  <2>5. /\ \A q \in Requests \ {r} : SubmitTx(q)' = SubmitTx(q)
        /\ \A q \in Requests : CollectTx(q)' = CollectTx(q)
    BY <2>2, <2>3, Untouched
  <2>6. \A q \in Requests \ {r} : (Engaged(q)' <=> Engaged(q)) /\ (Drawing(q)' <=> Drawing(q))
    BY <2>1, <2>2, <1>a DEF Engaged, Running, Drawing
  <2>7. Engaged(r) /\ (Drawing(r)' => Drawing(r))
    BY <1>a, <2>1, <2>2 DEF Engaged, Drawing, Draws
  <2>8. \A q \in Requests : (Engaged(q)' => Engaged(q)) /\ (Drawing(q)' => Drawing(q))
    BY <2>6, <2>7
  <2>9. Sent'
    <3>1. ASSUME NEW t \in pool'
          PROVE  IF t.kind = "collect"
                   THEN /\ t = CollectTx(t.req)'
                        /\ handler'[t.req].pc \notin {"new", "collect", "collecting"}
                        /\ handler'[t.req].kind # "create"
                        /\ account'[t.org].exists
                   ELSE /\ t = SubmitTx(t.req)'
                        /\ handler'[t.req].pc \in {"store", "stored", "lost"}
      <4>1. CASE t = x
        BY <4>1, <1>a, <2>1, <2>2, <2>3
      <4>2. CASE t \in pool /\ t.kind = "collect"
        BY <4>2, <2>1, <2>2, <2>4, <2>5 DEF OInv, Overlap, Sent
      <4>3. CASE t \in pool /\ t.kind # "collect"
        <5>1. t.req # r
          BY <4>3, <1>a DEF OInv, Overlap, Sent
        <5>2. QED  BY <4>3, <5>1, <2>1, <2>2, <2>4, <2>5 DEF OInv, Overlap, Sent
      <4>4. QED  BY <2>1, <4>1, <4>2, <4>3
    <3>2. QED  BY <3>1, <2>1, <2>2, <2>4, <1>a DEF OInv, Overlap, Sent
  <2>10. Founded'
    <3> ExistingReady /\ OneCreator /\ RowHasCreator /\ AccountHasRequest /\ CreatorFirst
    BY DEF OInv, Overlap, Founded
    <3>1. ExistingReady'  BY <2>1, <2>2, <2>4, <1>a DEF ExistingReady
    <3>2. OneCreator'  BY <2>1, <2>2, <2>4, <1>a DEF OneCreator
    <3>3. RowHasCreator'  BY <2>1, <2>2, <2>4, <1>a DEF RowHasCreator
    <3>4. AccountHasRequest'  BY <2>1, <2>2, <2>4, <1>a DEF AccountHasRequest
    <3>5. CreatorFirst'  BY <2>1, <2>2, <2>4, <1>a DEF CreatorFirst
    <3>6. QED  BY <3>1, <3>2, <3>3, <3>4, <3>5 DEF Founded
  <2>11. Alone'
    BY <2>1, <2>4, <2>8 DEF OInv, Overlap, Alone
  <2>12. FaucetKept'
    <3> SUFFICES ASSUME Faucet \notin contended'
                 PROVE  (OneDraw /\ DrawsFunded /\ NonceFresh /\ TopUpsComing /\ AccountsComing)'
      BY DEF FaucetKept
    <3> OneDraw /\ DrawsFunded /\ NonceFresh /\ TopUpsComing /\ AccountsComing
      BY <2>1 DEF OInv, Overlap, FaucetKept
    <3>1. OneDraw'  BY <2>8 DEF OneDraw
    <3>2. DrawsFunded'  BY <2>1, <2>8 DEF DrawsFunded
    <3>3. NonceFresh'  BY <1>a, <2>1, <2>2 DEF NonceFresh
    <3>4. TopUpsComing'  BY <2>1, <2>4, <2>5 DEF TopUpsComing
    <3>5. AccountsComing'  BY <2>1, <2>2, <2>3, <2>5 DEF AccountsComing
    <3>6. QED  BY <3>1, <3>2, <3>3, <3>4, <3>5
  <2>13. AccountKept'
    <3>1. \A q \in Requests : Reads(q)' => Reads(q) /\ q # r
      BY <1>a, <2>2 DEF Reads
    <3>2. \A t : Valid(t)' <=> Valid(t)
      BY <2>1 DEF Valid
    <3>3. \A t \in pool' : t.org \notin contended =>
            /\ t.kind = "collect" => account[t.org].balance < Threshold
            /\ t.kind \notin Draws => Valid(t)
      BY <1>a, <1>c, <2>1 DEF OInv, Overlap, AccountKept
    <3>4. \A t \in pool' : t.org \notin contended' =>
            /\ t.kind = "collect" => account'[t.org].balance < Threshold
            /\ t.kind \notin Draws => Valid(t)'
      BY <2>1, <3>2, <3>3
    <3>5. QED  BY <2>1, <2>2, <3>1, <3>4 DEF OInv, Overlap, AccountKept
  <2>14. UrisKept'
    <3>1. \A q \in Requests \ {r} : Moving(q)' <=> Moving(q)
      BY <2>2, <2>6 DEF Moving
    <3>2. ~Moving(r)
      BY <1>a DEF Moving
    <3>3. Unsaved \subseteq Unsaved' /\ \A o : Agree(o) => Agree(o)'
      BY <1>a, <2>1, <2>2, UnsavedGrows
    <3>4. x.kind = "create" => ~db[x.org].exists
      BY <1>a DEF OInv, Overlap, Founded, CreatorFirst
    <3>n. \A q \in Requests \ {r} : SubmitTx(q) # x
      BY <1>a DEF SubmitTx
    <3>5. \A q \in Requests \ {r} : SubmitTx(q)' \in pool' <=> SubmitTx(q) \in pool
      BY <2>1, <2>5, <3>n
    <3>6. ASSUME NEW o \in Orgs, o \notin contended
          PROVE  /\ Agree(o)' \/ \E q \in Requests : Moving(q)' /\ handler'[q].org = o
                 /\ \A q \in Requests : Moving(q)' /\ handler'[q].org = o =>
                      /\ SubmitTx(q)' \in pool' \/ account'[o].uri = q
                      /\ \/ handler'[q].pc = "store" \/ q \in cache'
                         \/ db'[o].uri = q \/ q \in Unsaved'
                      /\ handler'[q].pc = "store" /\ SubmitTx(q)' \in pool' => Agree(o)'
                 /\ \A t \in pool' : t.kind = "create" /\ t.org = o /\ db'[o].exists
                      => db'[o].uri = t.req
      <4>1. Agree(o) \/ \E q \in Requests \ {r} : Moving(q) /\ handler[q].org = o
        BY <3>2, <3>6 DEF OInv, Overlap, UrisKept
      <4>2. \A q \in Requests \ {r} : Moving(q) /\ handler[q].org = o =>
                      /\ SubmitTx(q) \in pool \/ account[o].uri = q
                      /\ \/ handler[q].pc = "store" \/ q \in cache
                         \/ db[o].uri = q \/ q \in Unsaved
                      /\ handler[q].pc = "store" /\ SubmitTx(q) \in pool => Agree(o)
        BY <3>6 DEF OInv, Overlap, UrisKept
      <4>3. \A t \in pool : t.kind = "create" /\ t.org = o /\ db[o].exists => db[o].uri = t.req
        BY <3>6 DEF OInv, Overlap, UrisKept
      <4>4. Agree(o)' \/ \E q \in Requests : Moving(q)' /\ handler'[q].org = o
        BY <4>1, <3>1, <3>3, <2>4
      <4>5. handler[r].org = o => Agree(o)'
        <5>1. ASSUME NEW q \in Requests \ {r}, Moving(q), handler[q].org = o,
                     handler[r].org = o
              PROVE  FALSE
          BY <2>7, <3>6, <5>1 DEF Moving, OInv, Overlap, Alone
        <5>2. QED  BY <3>3, <4>1, <5>1
      <4>6. \A q \in Requests : Moving(q)' /\ handler'[q].org = o =>
                      /\ SubmitTx(q)' \in pool' \/ account'[o].uri = q
                      /\ \/ handler'[q].pc = "store" \/ q \in cache'
                         \/ db'[o].uri = q \/ q \in Unsaved'
                      /\ handler'[q].pc = "store" /\ SubmitTx(q)' \in pool' => Agree(o)'
        BY <4>2, <4>5, <3>1, <3>3, <3>5, <2>1, <2>2, <2>3
      <4>7. QED  BY <4>3, <4>4, <4>6, <2>1, <3>4
    <3>7. QED  BY <3>6, <2>1 DEF UrisKept
  <2>15. Explained'
    BY <2>1, <2>2 DEF OInv, Overlap, Explained, RejectionsExplained
  <2>16. QED  BY <2>9, <2>10, <2>11, <2>12, <2>13, <2>14, <2>15 DEF Overlap
<1>d. QED  BY <1>b, <1>c

LEMMA StoreOverlap ==
  ASSUME OInv, NEW r \in Requests, StoreTx(r)
  PROVE  Overlap'
<1>1. /\ UNCHANGED <<account, pool, db, failed, owed, contended>>
      /\ cache' = IF handler[r].kind = "status" THEN cache ELSE cache \cup {r}
      /\ \A q \in Requests \ {r} : handler'[q] = handler[q]
      /\ handler[r].pc = "store" /\ handler'[r].pc = "stored"
      /\ handler'[r].kind = handler[r].kind /\ handler'[r].org = handler[r].org
      /\ handler'[r].nonce = handler[r].nonce
      /\ handler'[r].faucetNonce = handler[r].faucetNonce
  BY MoveEffect DEF OInv, StoreTx
<1>2. \A q \in Requests :
        SubmitTx(q)' = SubmitTx(q) /\ CollectTx(q)' = CollectTx(q)
  BY <1>1 DEF SubmitTx, CollectTx
<1>3. \A q \in Requests \ {r} :
        (Engaged(q)' <=> Engaged(q)) /\ (Drawing(q)' <=> Drawing(q))
  BY <1>1 DEF Engaged, Running, Drawing
<1>4. Engaged(r) /\ (Drawing(r)' <=> Drawing(r))
  BY <1>1 DEF Engaged, Running, Drawing
<1>5. \A q \in Requests : (Engaged(q)' => Engaged(q)) /\ (Drawing(q)' <=> Drawing(q))
  BY <1>3, <1>4
<1>6. /\ \A t \in pool : t.req \in Requests /\ t.org \in Orgs
      /\ \A q \in Requests : handler'[q].org = handler[q].org /\ handler'[q].kind = handler[q].kind
      /\ owed \subseteq Requests /\ cache \subseteq Requests
  BY <1>1, Known1 DEF OInv
<1>7. Sent'
  BY <1>1, <1>2, <1>6 DEF OInv, Overlap, Sent
<1>8. Founded'
  <2> ExistingReady /\ OneCreator /\ RowHasCreator /\ AccountHasRequest /\ CreatorFirst
    BY DEF OInv, Overlap, Founded
  <2>1. ExistingReady'  BY <1>1, <1>6 DEF ExistingReady
  <2>2. OneCreator'  BY <1>1, <1>6 DEF OneCreator
  <2>3. RowHasCreator'  BY <1>1, <1>6 DEF RowHasCreator
  <2>4. AccountHasRequest'  BY <1>1, <1>6 DEF AccountHasRequest
  <2>5. CreatorFirst'  BY <1>1, <1>6 DEF CreatorFirst
  <2>6. QED  BY <2>1, <2>2, <2>3, <2>4, <2>5 DEF Founded
<1>9. Alone'
  BY <1>1, <1>5, <1>6 DEF OInv, Overlap, Alone
<1>10. FaucetKept'
  <2> SUFFICES ASSUME Faucet \notin contended'
               PROVE  (OneDraw /\ DrawsFunded /\ NonceFresh /\ TopUpsComing /\ AccountsComing)'
    BY DEF FaucetKept
  <2> OneDraw /\ DrawsFunded /\ NonceFresh /\ TopUpsComing /\ AccountsComing
    BY <1>1 DEF OInv, Overlap, FaucetKept
  <2>1. OneDraw'  BY <1>5 DEF OneDraw
  <2>2. DrawsFunded'  BY <1>1, <1>5 DEF DrawsFunded
  <2>3. NonceFresh'  BY <1>1, <1>2, <1>6 DEF NonceFresh
  <2>4. TopUpsComing'  BY <1>1, <1>2, <1>6 DEF TopUpsComing
  <2>5. AccountsComing'  BY <1>1, <1>2, <1>6 DEF AccountsComing
  <2>6. QED  BY <2>1, <2>2, <2>3, <2>4, <2>5
<1>11. AccountKept'
  BY <1>1, <1>6 DEF OInv, Overlap, AccountKept, Reads, Valid
<1>12. UrisKept'
  <2>1. \A q \in Requests : Moving(q)' <=> Moving(q)
    <3>1. \A q \in Requests \ {r} : Moving(q)' <=> Moving(q)
      BY <1>1, <1>3 DEF Moving
    <3>2. handler[r].kind \in Metadata => Engaged(r)'
      BY <1>1 DEF Engaged, Metadata
    <3>3. Moving(r)' <=> Moving(r)
      BY <1>1, <1>4, <3>2 DEF Moving
    <3>4. QED  BY <3>1, <3>3
  <2>2. Moving(r) => r \in cache'
    BY <1>1 DEF Moving, Metadata
  <2>3. Unsaved \subseteq Unsaved' /\ \A o : Agree(o) => Agree(o)'
    BY <1>1, UnsavedGrows
  <2>4. QED  BY <1>1, <1>2, <1>6, <2>1, <2>2, <2>3 DEF OInv, Overlap, UrisKept
<1>13. Explained'
  BY <1>1 DEF OInv, Overlap, Explained, RejectionsExplained
<1>14. QED  BY <1>7, <1>8, <1>9, <1>10, <1>11, <1>12, <1>13 DEF Overlap

LEMMA CommitEffect ==
  ASSUME OInv, NEW r \in Requests, Commit(r)
  PROVE  /\ UNCHANGED <<account, pool, handler, owed, contended>>
         /\ r \in cache /\ handler[r].pc = "stored" /\ handler[r].org \in Orgs
         /\ cache' \subseteq cache /\ \A q \in cache : q # r => q \in cache'
         /\ \A o \in Orgs : o # handler[r].org => db'[o] = db[o]
         /\ \A o \in Orgs : db[o].exists => db'[o].exists
         /\ failed \subseteq failed'
         /\ \/ /\ handler[r].kind = "create" /\ ~db[handler[r].org].exists
               /\ db'[handler[r].org].exists /\ db'[handler[r].org].uri = r
            \/ /\ handler[r].kind = "metadata" /\ db'[handler[r].org].uri = r
               /\ db'[handler[r].org].exists = db[handler[r].org].exists
            \/ /\ db' = db
               /\ handler[r].kind \in Metadata
                    => r \in Unsaved' \/ db[handler[r].org].uri = r
<1> DEFINE org == handler[r].org
<1>1. /\ UNCHANGED <<account, pool, handler, owed, contended>>
      /\ r \in cache /\ cache' \in {cache, cache \ {r}}
      /\ \/ Write(r, org) /\ UNCHANGED failed
         \/ /\ failed' = IF handler[r].kind = "metadata" /\ db[org].uri # r
                          THEN failed \cup {r} ELSE failed
            /\ UNCHANGED db
  BY DEF Commit
<1>2. handler[r].pc = "stored" /\ org \in Orgs /\ db \in [Orgs -> Row]
  BY <1>1, Known1 DEF OInv, Overlap, Sent, IInv, Known
<1>3. db[org] \in Row  BY <1>2
<1>4. handler[r].kind = "blank" => r \in Unsaved'
  BY <1>1 DEF Unsaved
<1> HIDE DEF org
<1>o. org = handler[r].org  BY DEF org
<1>5. CASE /\ handler[r].kind = "create" /\ ~db[org].exists /\ UNCHANGED failed
           /\ db' = [db EXCEPT ![org] = [exists |-> TRUE, uri |-> r]]
  BY <1>1, <1>2, <1>5, <1>o
<1>6. CASE /\ handler[r].kind = "metadata" /\ UNCHANGED failed
           /\ db' = [db EXCEPT ![org].uri = r]
  BY <1>1, <1>2, <1>3, <1>6, <1>o DEF Row
<1>7. CASE handler[r].kind \in {"blank", "process"} /\ UNCHANGED <<failed, db>>
  BY <1>1, <1>2, <1>4, <1>7, <1>o DEF Metadata
<1>8. CASE /\ failed' = IF handler[r].kind = "metadata" /\ db[org].uri # r
                          THEN failed \cup {r} ELSE failed
           /\ UNCHANGED db
  <2>1. /\ failed \subseteq failed'
        /\ handler[r].kind = "metadata" => r \in failed' \/ db[org].uri = r
    BY <1>8
  <2>2. handler[r].kind \in Metadata => r \in Unsaved' \/ db[org].uri = r
    BY <1>4, <2>1 DEF Metadata, Unsaved
  <2>3. QED  BY <1>1, <1>2, <1>8, <1>o, <2>1, <2>2
<1>9. QED  BY <1>1, <1>5, <1>6, <1>7, <1>8 DEF Write

LEMMA CommitOverlap ==
  ASSUME OInv, NEW r \in Requests, Commit(r)
  PROVE  Overlap'
<1> DEFINE org == handler[r].org
<1>1. /\ UNCHANGED <<account, pool, handler, owed, contended>>
      /\ r \in cache /\ handler[r].pc = "stored" /\ org \in Orgs
      /\ cache' \subseteq cache /\ \A q \in cache : q # r => q \in cache'
      /\ \A o \in Orgs : o # org => db'[o] = db[o]
      /\ \A o \in Orgs : db[o].exists => db'[o].exists
      /\ failed \subseteq failed'
      /\ \/ /\ handler[r].kind = "create" /\ ~db[org].exists
            /\ db'[org].exists /\ db'[org].uri = r
         \/ /\ handler[r].kind = "metadata" /\ db'[org].uri = r
            /\ db'[org].exists = db[org].exists
         \/ db' = db /\ (handler[r].kind \in Metadata => r \in Unsaved' \/ db[org].uri = r)
  BY CommitEffect
<1>2. /\ \A q \in Requests : SubmitTx(q)' = SubmitTx(q) /\ CollectTx(q)' = CollectTx(q)
      /\ \A q \in Requests : (Drawing(q)' <=> Drawing(q)) /\ (Engaged(q)' => Engaged(q))
      /\ \A q \in Requests \ {r} : Engaged(q)' <=> Engaged(q)
  BY <1>1 DEF SubmitTx, CollectTx, Drawing, Engaged, Running
<1>3. /\ \A t \in pool : t.req \in Requests /\ t.org \in Orgs /\ handler[t.req].org = t.org
      /\ owed \subseteq Requests /\ cache \subseteq Requests
  BY Known1 DEF OInv
<1>4. org = handler[r].org /\ Engaged(r)
  BY <1>1 DEF Engaged
<1> HIDE DEF org
<1>5. Sent'
  BY <1>1, <1>2, <1>3 DEF OInv, Overlap, Sent
<1>6. Founded'
  <2> ExistingReady /\ OneCreator /\ RowHasCreator /\ AccountHasRequest /\ CreatorFirst
    BY DEF OInv, Overlap, Founded
  <2>1. ExistingReady'  BY <1>1, AccountNonceConstants DEF ExistingReady
  <2>2. OneCreator'  BY <1>1 DEF OneCreator
  <2>3. RowHasCreator'
    <3>1. ASSUME NEW o \in Orgs, db'[o].exists, ~db[o].exists
          PROVE  o = org /\ handler[r].kind = "create"
      BY <3>1, <1>1
    <3>2. QED  BY <3>1, <1>1, <1>4 DEF RowHasCreator
  <2>4. AccountHasRequest'  BY <1>1 DEF AccountHasRequest
  <2>5. CreatorFirst'
    <3>1. ASSUME NEW q \in Requests, handler[q].kind = "create", handler[q].pc = "submit",
                 handler[q].org \in Orgs, ~db[handler[q].org].exists
          PROVE  ~db'[handler[q].org].exists
      BY <3>1, <1>1, <1>4 DEF OneCreator
    <3>2. QED  BY <3>1, <1>1 DEF CreatorFirst
  <2>6. QED  BY <2>1, <2>2, <2>3, <2>4, <2>5 DEF Founded
<1>7. Alone'
  BY <1>1, <1>2 DEF OInv, Overlap, Alone
<1>8. FaucetKept'
  <2> SUFFICES ASSUME Faucet \notin contended'
               PROVE  (OneDraw /\ DrawsFunded /\ NonceFresh /\ TopUpsComing /\ AccountsComing)'
    BY DEF FaucetKept
  <2> OneDraw /\ DrawsFunded /\ NonceFresh /\ TopUpsComing /\ AccountsComing
    BY <1>1 DEF OInv, Overlap, FaucetKept
  <2>1. OneDraw'  BY <1>2 DEF OneDraw
  <2>2. DrawsFunded'  BY <1>1, <1>2 DEF DrawsFunded
  <2>3. NonceFresh'  BY <1>1, <1>2, <1>3 DEF NonceFresh
  <2>4. TopUpsComing'  BY <1>1, <1>2, <1>3 DEF TopUpsComing
  <2>5. AccountsComing'  BY <1>1, <1>2, <1>3 DEF AccountsComing
  <2>6. QED  BY <2>1, <2>2, <2>3, <2>4, <2>5
<1>9. AccountKept'
  BY <1>1 DEF OInv, Overlap, AccountKept, Reads, Valid
<1>u. Unsaved \subseteq Unsaved' /\ \A o : db'[o] = db[o] /\ Agree(o) => Agree(o)'
  BY <1>1, UnsavedGrows
<1>10. ASSUME NEW o \in Orgs, o \notin contended
       PROVE  /\ Agree(o)' \/ \E q \in Requests : Moving(q)' /\ handler[q].org = o
              /\ \A q \in Requests : Moving(q)' /\ handler[q].org = o =>
                   /\ SubmitTx(q) \in pool \/ account[o].uri = q
                   /\ \/ handler[q].pc = "store" \/ q \in cache'
                      \/ db'[o].uri = q \/ q \in Unsaved'
                   /\ handler[q].pc = "store" /\ SubmitTx(q) \in pool => Agree(o)'
              /\ \A t \in pool : t.kind = "create" /\ t.org = o /\ db'[o].exists
                   => db'[o].uri = t.req
  <2>1. /\ Agree(o) \/ \E q \in Requests : Moving(q) /\ handler[q].org = o
        /\ \A q \in Requests : Moving(q) /\ handler[q].org = o =>
             /\ SubmitTx(q) \in pool \/ account[o].uri = q
             /\ \/ handler[q].pc = "store" \/ q \in cache
                \/ db[o].uri = q \/ q \in Unsaved
             /\ handler[q].pc = "store" /\ SubmitTx(q) \in pool => Agree(o)
        /\ \A t \in pool : t.kind = "create" /\ t.org = o /\ db[o].exists => db[o].uri = t.req
    BY <1>10 DEF OInv, Overlap, UrisKept
  <2>2. /\ \A q \in Requests \ {r} : Moving(q)' <=> Moving(q)
        /\ Moving(r)' => Moving(r)
        /\ Moving(r) <=> handler[r].kind \in Metadata
        /\ Moving(r)' <=> handler[r].kind \in Metadata /\ Engaged(r)'
    BY <1>1, <1>2, <1>4 DEF Moving
  <2>3. CASE o # org
    <3>1. Agree(o) => Agree(o)'  BY <1>1, <1>u, <2>3
    <3>2. \A q \in Requests : handler[q].org = o => q # r /\ (q \in cache => q \in cache')
      BY <1>1, <1>4, <2>3
    <3>3. db'[o] = db[o]  BY <1>1, <2>3
    <3>4. QED  BY <1>1, <1>u, <2>1, <2>2, <2>3, <3>1, <3>2, <3>3
  <2>4. CASE o = org
    <3>1. \A q \in Requests : Engaged(q) /\ handler[q].org = org => q = r
      BY <1>4, <1>10, <2>4 DEF OInv, Overlap, Alone
    <3>2. \A q \in Requests : (Moving(q) \/ Moving(q)') /\ handler[q].org = org => q = r
      BY <1>2, <3>1, <2>2 DEF Moving
    <3>3. \A t \in pool : t.org = org => t.req = r
      BY <1>3, <3>1 DEF Engaged
    <3>4. \A t \in pool : t.kind = "create" => handler[t.req].kind = "create"
      BY DEF OInv, Overlap, Sent, SubmitTx
    <3>5. CASE handler[r].kind \in Metadata
      <4>1. \/ db'[o].uri = r
            \/ db' = db /\ r \in Unsaved'
        BY <1>1, <2>4, <3>5 DEF Metadata
      <4>2. SubmitTx(r) \in pool \/ account[o].uri = r
        BY <1>4, <2>1, <2>2, <2>4, <3>5
      <4>3. Agree(o)' \/ Moving(r)'
        <5>1. SubmitTx(r) \in pool => Engaged(r)'
          BY <1>1 DEF Engaged, SubmitTx
        <5>2. account[o].uri = r => Agree(o)'
          BY <1>1, <4>1 DEF Agree
        <5>3. QED  BY <4>2, <5>1, <5>2, <2>2, <3>5
      <4>4. \A t \in pool : ~(t.kind = "create" /\ t.org = o)
        BY <2>4, <3>3, <3>4, <3>5 DEF Metadata
      <4>5. QED  BY <1>1, <1>4, <2>4, <3>2, <4>1, <4>2, <4>3, <4>4
    <3>6. CASE handler[r].kind \notin Metadata
      <4>1. \A q \in Requests : ~(Moving(q)' /\ handler[q].org = o)
        BY <2>2, <2>4, <3>2, <3>6
      <4>2. Agree(o)
        BY <2>1, <2>2, <2>4, <3>2, <3>6
      <4>3. CASE db' = db
        BY <1>u, <2>1, <4>1, <4>2, <4>3
      <4>4. CASE ~db[org].exists /\ db'[org].uri = r
        <5>1. account[org].exists => account[org].uri = r
          BY <1>1, <1>4, <4>4 DEF OInv, Overlap, Founded, CreatorFirst
        <5>2. Agree(o)'  BY <1>1, <2>4, <4>4, <5>1 DEF Agree
        <5>3. QED  BY <2>4, <3>3, <4>1, <4>4, <5>2
      <4>5. QED  BY <1>1, <3>6, <4>3, <4>4 DEF Metadata
    <3>7. QED  BY <3>5, <3>6
  <2>5. QED  BY <2>3, <2>4
<1>11. UrisKept'
  BY <1>1, <1>2, <1>10 DEF UrisKept
<1>12. Explained'
  BY <1>1 DEF OInv, Overlap, Explained, RejectionsExplained
<1>13. QED  BY <1>5, <1>6, <1>7, <1>8, <1>9, <1>11, <1>12 DEF Overlap

LEMMA MineEffect ==
  ASSUME OInv, NEW t \in pool, Mine(t)
  PROVE  /\ pool' = pool \ {t} /\ UNCHANGED <<handler, cache, db, failed, contended>>
         /\ t.req \in Requests /\ t.org \in Orgs /\ handler[t.req].org = t.org
         /\ Engaged(t.req)
         /\ \A o \in Orgs \ {t.org} : account'[o] = account[o]
         /\ account[t.org].exists => account'[t.org].exists
         /\ t.kind \in Draws =>
              /\ account'[t.org].nonce = account[t.org].nonce
              /\ account'[t.org].balance >= account[t.org].balance
         /\ t.kind \notin Draws =>
              /\ account'[t.org].balance <= account[t.org].balance
              /\ account'[t.org].exists = account[t.org].exists
              /\ account'[Faucet] = account[Faucet]
         /\ t.kind = "create" /\ Valid(t) =>
              account'[t.org].exists /\ account'[t.org].uri = t.req
         /\ t.kind \in Metadata /\ Valid(t) => account'[t.org].uri = t.req
         /\ ~Valid(t) => account' = account
         /\ t.kind \notin {"create"} \cup Metadata => account'[t.org].uri = account[t.org].uri
         /\ owed' \subseteq owed
         /\ t.kind = "collect" /\ Valid(t) => t.req \notin owed'
<1>1. /\ pool' = pool \ {t} /\ UNCHANGED <<handler, cache, db, failed, contended>>
      /\ owed' = IF t.kind = "collect" /\ Valid(t) THEN owed \ {t.req} ELSE owed
      /\ t.req \in Requests /\ t.org \in Orgs /\ handler[t.req].org = t.org
      /\ Engaged(t.req)
  BY Known1 DEF OInv, Mine, Engaged
<1>2. \A o \in Orgs : account[o].balance \in Nat
  BY Known1 DEF OInv, Accounts, Account
<1>3. CASE ~Valid(t)
  <2>1. account' = account  BY <1>3 DEF Mine
  <2>2. QED  BY <1>1, <1>2, <1>3, <2>1
<1>4. CASE Valid(t)
  <2>1. Execute(t)  BY <1>4 DEF Mine
  <2>2. /\ \A o \in Orgs \ {t.org} : account'[o] = account[o]
        /\ t.kind \in {"create"} \cup Metadata => account'[t.org].uri = t.req
        /\ t.kind \notin {"create"} \cup Metadata => account'[t.org].uri = account[t.org].uri
        /\ t.kind \notin Draws => account'[Faucet] = account[Faucet]
    BY <2>1, UriEffect DEF OInv
  <2>3. /\ t.kind \in Draws =>
              /\ account'[t.org].exists /\ account'[t.org].nonce = account[t.org].nonce
              /\ account'[t.org].balance = account[t.org].balance + Multiplier
        /\ t.kind \notin Draws =>
              /\ account'[t.org].exists = account[t.org].exists
              /\ account'[t.org].balance = account[t.org].balance - 1
    BY <1>4, <2>1, ExecuteFacts DEF OInv
  <2>4. /\ t.kind \in Draws => account'[t.org].balance >= account[t.org].balance
        /\ t.kind \notin Draws => account'[t.org].balance <= account[t.org].balance
    BY <1>1, <1>2, <2>3, AccountNonceConstants
  <2>5. t.kind = "create" => t.kind \in Draws
    BY DEF Draws
  <2>6. QED  BY <1>1, <1>4, <2>2, <2>3, <2>4, <2>5
<1>5. QED  BY <1>3, <1>4

(* Two transactions of one request: a draw for the other one.              *)
LEMMA SameRequest ==
  ASSUME OInv, NEW t \in pool, NEW u \in pool, t # u, t.req = u.req
  PROVE  \/ t.kind = "collect" /\ u.kind \notin Draws /\ handler[t.req].kind # "create"
         \/ u.kind = "collect" /\ t.kind \notin Draws /\ handler[t.req].kind # "create"
<1>1. \A x \in pool : x.kind = "collect" => x = CollectTx(x.req) /\ handler[x.req].kind # "create"
  BY DEF OInv, Overlap, Sent
<1>2. \A x \in pool : x.kind # "collect" => x = SubmitTx(x.req)
  BY DEF OInv, Overlap, Sent
<1>3. \A x \in pool : x.kind # "collect" => x.kind = handler[x.req].kind
  BY <1>2 DEF SubmitTx
<1>4. QED  BY <1>1, <1>2, <1>3 DEF Draws

LEMMA MineOverlap ==
  ASSUME OInv, NEW t \in pool, Mine(t)
  PROVE  Overlap'
<1> DEFINE r == t.req
           p == t.org
<1>1. /\ pool' = pool \ {t} /\ UNCHANGED <<handler, cache, db, failed, contended>>
      /\ r \in Requests /\ p \in Orgs /\ handler[r].org = p
      /\ Engaged(r)
      /\ \A o \in Orgs \ {p} : account'[o] = account[o]
      /\ account[p].exists => account'[p].exists
      /\ t.kind \in Draws =>
           /\ account'[p].nonce = account[p].nonce
           /\ account'[p].balance >= account[p].balance
      /\ t.kind \notin Draws =>
           /\ account'[p].balance <= account[p].balance
           /\ account'[p].exists = account[p].exists
           /\ account'[Faucet] = account[Faucet]
      /\ t.kind = "create" /\ Valid(t) => account'[p].exists /\ account'[p].uri = r
      /\ t.kind \in Metadata /\ Valid(t) => account'[p].uri = r
      /\ ~Valid(t) => account' = account
      /\ t.kind \notin {"create"} \cup Metadata => account'[p].uri = account[p].uri
      /\ owed' \subseteq owed
      /\ t.kind = "collect" /\ Valid(t) => r \notin owed'
  BY MineEffect
<1>2. /\ \A q \in Requests : SubmitTx(q)' = SubmitTx(q) /\ CollectTx(q)' = CollectTx(q)
      /\ \A q \in Requests : (Drawing(q)' => Drawing(q)) /\ (Engaged(q)' => Engaged(q))
      /\ \A q \in Requests \ {r} : (Engaged(q)' <=> Engaged(q)) /\ (Drawing(q)' <=> Drawing(q))
  BY <1>1 DEF SubmitTx, CollectTx, Drawing, Engaged, Running
<1>3. /\ \A u \in pool : u.req \in Requests /\ u.org \in Orgs /\ handler[u.req].org = u.org
      /\ owed \subseteq Requests /\ cache \subseteq Requests
      /\ \A q \in Requests : SubmitTx(q).req = q /\ CollectTx(q).req = q
                             /\ CollectTx(q).kind = "collect"
                             /\ SubmitTx(q).kind = handler[q].kind
  BY Known1 DEF OInv, SubmitTx, CollectTx
<1>4. /\ t.kind = "collect" =>
           /\ t = CollectTx(r) /\ handler[r].kind # "create" /\ account[p].exists
           /\ handler[r].pc \notin {"new", "collect", "collecting"}
      /\ t.kind # "collect" =>
           /\ t = SubmitTx(r) /\ t.kind = handler[r].kind
           /\ handler[r].pc \in {"store", "stored", "lost"}
  BY <1>3 DEF OInv, Overlap, Sent
<1>5. \A u \in pool \ {t} : u.req = r =>
        \/ t.kind = "collect" /\ u.kind \notin Draws /\ handler[r].kind # "create"
        \/ u.kind = "collect" /\ t.kind \notin Draws /\ handler[r].kind # "create"
  BY SameRequest
<1> HIDE DEF r, p
<1>r. r = t.req /\ p = t.org
  BY DEF r, p
<1>6. Sent'
  <2>1. \A u \in pool : account[u.org].exists => account'[u.org].exists
    BY <1>1, <1>3
  <2>2. QED  BY <1>1, <1>2, <1>3, <2>1 DEF OInv, Overlap, Sent
<1>7. Founded'
  <2> ExistingReady /\ OneCreator /\ RowHasCreator /\ AccountHasRequest /\ CreatorFirst
    BY DEF OInv, Overlap, Founded
  <2>1. ExistingReady'  BY <1>1, AccountNonceConstants DEF ExistingReady
  <2>2. OneCreator'  BY <1>1 DEF OneCreator
  <2>3. RowHasCreator'  BY <1>1 DEF RowHasCreator
  <2>4. AccountHasRequest'  BY <1>1 DEF AccountHasRequest
  <2>5. CreatorFirst'
    <3>1. ASSUME NEW q \in Requests, handler[q].org = p, ~db[p].exists
          PROVE  /\ account'[p].exists => account'[p].uri = q
                 /\ ~(handler[q].kind = "create" /\ handler[q].pc = "submit")
      <4>1. handler[q].kind = "create" /\ handler[r].kind = "create"
            /\ (account[p].exists => account[p].uri = q)
        BY <3>1, <1>1 DEF CreatorFirst
      <4>2. q = r
        BY <4>1, <3>1, <1>1 DEF OneCreator
      <4>3. t.kind = "create"
        BY <4>1, <1>4
      <4>4. QED  BY <4>1, <4>2, <4>3, <1>1, <1>4
    <3>2. QED  BY <3>1, <1>1 DEF CreatorFirst
  <2>6. QED  BY <2>1, <2>2, <2>3, <2>4, <2>5 DEF Founded
<1>8. Alone'
  BY <1>1, <1>2 DEF OInv, Overlap, Alone
<1>9. FaucetKept'
  <2> SUFFICES ASSUME Faucet \notin contended'
               PROVE  (OneDraw /\ DrawsFunded /\ NonceFresh /\ TopUpsComing /\ AccountsComing)'
    BY DEF FaucetKept
  <2> OneDraw /\ DrawsFunded /\ NonceFresh /\ TopUpsComing /\ AccountsComing
    BY <1>1 DEF OInv, Overlap, FaucetKept
  <2>1. CASE t.kind \notin Draws
    <3>1. OneDraw'  BY <1>2 DEF OneDraw
    <3>2. DrawsFunded'  BY <1>1, <1>2, <2>1 DEF DrawsFunded
    <3>3. NonceFresh'  BY <1>1, <2>1 DEF NonceFresh
    <3>4. TopUpsComing'  BY <1>1, <1>2, <1>3, <2>1 DEF TopUpsComing, Draws
    <3>5. AccountsComing'
      <4>1. ASSUME NEW q \in Requests, handler[q].kind = "create",
                   handler[q].pc \in {"store", "stored", "lost"}
            PROVE  account'[handler[q].org].exists \/ SubmitTx(q) \in pool'
        <5>1. handler[q].org \in Orgs
          BY <4>1 DEF OInv, IInv, Known
        <5>2. SubmitTx(q) # t
          BY <4>1, <1>3, <2>1 DEF Draws
        <5>3. QED  BY <4>1, <5>1, <5>2, <1>1 DEF AccountsComing
      <4>2. QED  BY <4>1, <1>1, <1>2 DEF AccountsComing
    <3>6. QED  BY <3>1, <3>2, <3>3, <3>4, <3>5
  <2>2. CASE t.kind \in Draws
    <3>1. Drawing(r) /\ account[Faucet].balance >= Multiplier
      BY <1>1, <1>r, <2>2 DEF Drawing, DrawsFunded
    <3>2. \A q \in Requests \ {r} : ~Drawing(q)'
      BY <1>1, <1>2, <3>1 DEF OneDraw
    <3>3. ~Drawing(r)'
      BY <1>1, <1>4, <1>5, <2>2 DEF Drawing, Draws
    <3>4. \A q \in Requests : ~Drawing(q)'
      BY <3>2, <3>3
    <3>5. /\ \A q \in Requests : handler[q].pc # "collecting"
          /\ \A u \in pool' : u.kind # "collect"
      BY <1>1, <1>3, <3>4 DEF Drawing, Draws
    <3>6. t.kind = "collect" => Valid(t)
      BY <3>1 DEF NonceFresh, Valid
    <3>7. OneDraw'  BY <3>4 DEF OneDraw
    <3>8. DrawsFunded'  BY <3>4 DEF DrawsFunded
    <3>9. NonceFresh'  BY <1>1, <3>5 DEF NonceFresh
    <3>10. TopUpsComing'
      <4>1. ASSUME NEW q \in owed'  PROVE CollectTx(q) \in pool'
        <5>1. CollectTx(q) \in pool /\ q \in Requests  BY <1>1, <1>3 DEF TopUpsComing
        <5>2. CollectTx(q) # t  BY <1>1, <1>3, <1>r, <3>6, <5>1
        <5>3. QED  BY <1>1, <5>1, <5>2
      <4>2. QED  BY <4>1, <1>1, <1>2, <1>3 DEF TopUpsComing
    <3>11. AccountsComing'
      <4>1. ASSUME NEW q \in Requests, handler[q].kind = "create",
                   handler[q].pc \in {"store", "stored", "lost"}
            PROVE  account'[handler[q].org].exists \/ SubmitTx(q) \in pool'
        <5>1. handler[q].org \in Orgs
          BY <4>1 DEF OInv, IInv, Known
        <5>2. CASE SubmitTx(q) = t
          <6>1. q = r /\ handler[q].org = p /\ t.kind = "create"
            BY <4>1, <5>2, <1>1, <1>3, <1>r
          <6>2. account[p].exists \/ Valid(t)
            BY <3>1, <6>1, <1>r DEF Valid
          <6>3. QED  BY <1>1, <6>1, <6>2
        <5>3. CASE SubmitTx(q) # t
          BY <4>1, <5>1, <5>3, <1>1 DEF AccountsComing
        <5>4. QED  BY <5>2, <5>3
      <4>2. QED  BY <4>1, <1>1, <1>2 DEF AccountsComing
    <3>12. QED  BY <3>7, <3>8, <3>9, <3>10, <3>11
  <2>3. QED  BY <2>1, <2>2
<1>10. ASSUME NEW q \in Requests, p \notin contended, Engaged(q), handler[q].org = p
       PROVE  q = r
  BY <1>1, <1>10 DEF OInv, Overlap, Alone
<1>11. \A u \in pool : u.org = p /\ p \notin contended => u.req = r
  BY <1>3, <1>10 DEF Engaged
<1>12. AccountKept'
  <2>1. ASSUME NEW q \in Requests, Reads(q), handler[q].org \notin contended
        PROVE  LET a == account'[handler[q].org]
               IN  /\ a.exists /\ handler[q].nonce = a.nonce
                   /\ handler[q].pc # "submit" => a.balance < Threshold
                   /\ Faucet \notin contended => a.balance >= Threshold - 1
    <3>0. LET a == account[handler[q].org]
          IN  /\ a.exists /\ handler[q].nonce = a.nonce
              /\ handler[q].pc # "submit" => a.balance < Threshold
              /\ Faucet \notin contended => a.balance >= Threshold - 1
      BY <2>1 DEF OInv, Overlap, AccountKept
    <3>1. Engaged(q) /\ handler[q].org \in Orgs
      BY <2>1 DEF Reads, Engaged, Running, OInv, IInv, Known
    <3>2. CASE handler[q].org # p
      BY <3>0, <3>1, <3>2, <1>1
    <3>3. CASE handler[q].org = p
      <4>1. q = r
        BY <3>1, <3>3, <2>1, <1>10
      <4>2. t.kind = "collect" /\ handler[q].pc = "submit"
        BY <4>1, <2>1, <1>4 DEF Reads
      <4>3. /\ account'[p].nonce = account[p].nonce /\ account'[p].exists
            /\ account'[p].balance >= account[p].balance
        BY <4>2, <3>0, <3>3, <1>1 DEF Draws
      <4>4. account'[p].balance \in Nat /\ account[p].balance \in Nat
        <5>1. TypeOK'  BY MineKeeps DEF OInv
        <5>2. QED  BY <5>1, <1>1, Known1 DEF OInv, TypeOK, Accounts, Account
      <4>5. QED  BY <3>0, <3>3, <4>2, <4>3, <4>4, AccountNonceConstants
    <3>4. QED  BY <3>2, <3>3
  <2>2. ASSUME NEW u \in pool', u.org \notin contended
        PROVE  /\ u.kind = "collect" => account'[u.org].balance < Threshold
               /\ u.kind \notin Draws => Valid(u)'
    <3>1. u \in pool /\ u # t /\ u.org \in Orgs
      BY <1>1, <1>3
    <3>2. /\ u.kind = "collect" => account[u.org].balance < Threshold
          /\ u.kind \notin Draws =>
               u.nonce = account[u.org].nonce /\ account[u.org].balance >= 1
      BY <3>1, <2>2 DEF OInv, Overlap, AccountKept, Valid, Draws
    <3>3. u.kind \notin Draws =>
            (Valid(u)' <=> u.nonce = account'[u.org].nonce /\ account'[u.org].balance >= 1)
      BY DEF Valid, Draws
    <3>4. CASE u.org # p
      BY <3>1, <3>2, <3>3, <3>4, <1>1
    <3>5. CASE u.org = p
      <4>1. \/ t.kind = "collect" /\ u.kind \notin Draws
            \/ u.kind = "collect" /\ t.kind \notin Draws
        BY <3>1, <3>5, <2>2, <1>5, <1>11
      <4>2. account'[p].balance \in Nat /\ account[p].balance \in Nat
        <5>1. TypeOK'  BY MineKeeps DEF OInv
        <5>2. QED  BY <5>1, <1>1, Known1 DEF OInv, TypeOK, Accounts, Account
      <4>3. CASE t.kind = "collect" /\ u.kind \notin Draws
        BY <4>2, <4>3, <3>2, <3>3, <3>5, <1>1 DEF Draws
      <4>4. CASE u.kind = "collect" /\ t.kind \notin Draws
        BY <4>2, <4>4, <3>2, <3>5, <1>1, AccountNonceConstants DEF Draws
      <4>5. QED  BY <4>1, <4>3, <4>4
    <3>6. QED  BY <3>4, <3>5
  <2>3. \A q \in Requests : Reads(q)' <=> Reads(q)
    BY <1>1 DEF Reads
  <2>4. QED  BY <1>1, <2>1, <2>2, <2>3 DEF AccountKept
<1>u. Unsaved \subseteq Unsaved' /\ \A o : account'[o] = account[o] /\ Agree(o) => Agree(o)'
  BY <1>1, UnsavedGrows
<1>13. ASSUME NEW o \in Orgs, o \notin contended
       PROVE  /\ Agree(o)' \/ \E q \in Requests : Moving(q)' /\ handler[q].org = o
              /\ \A q \in Requests : Moving(q)' /\ handler[q].org = o =>
                   /\ SubmitTx(q) \in pool' \/ account'[o].uri = q
                   /\ \/ handler[q].pc = "store" \/ q \in cache
                      \/ db[o].uri = q \/ q \in Unsaved'
                   /\ handler[q].pc = "store" /\ SubmitTx(q) \in pool' => Agree(o)'
              /\ \A u \in pool' : u.kind = "create" /\ u.org = o /\ db[o].exists
                   => db[o].uri = u.req
  <2>1. /\ Agree(o) \/ \E q \in Requests : Moving(q) /\ handler[q].org = o
        /\ \A q \in Requests : Moving(q) /\ handler[q].org = o =>
             /\ SubmitTx(q) \in pool \/ account[o].uri = q
             /\ \/ handler[q].pc = "store" \/ q \in cache
                \/ db[o].uri = q \/ q \in Unsaved
             /\ handler[q].pc = "store" /\ SubmitTx(q) \in pool => Agree(o)
        /\ \A u \in pool : u.kind = "create" /\ u.org = o /\ db[o].exists => db[o].uri = u.req
    BY <1>13 DEF OInv, Overlap, UrisKept
  <2>2. /\ \A q \in Requests \ {r} : Moving(q)' <=> Moving(q)
        /\ Moving(r)' => Moving(r)
        /\ Moving(r) => (Moving(r)' \/ ~Engaged(r)')
    BY <1>1, <1>2 DEF Moving
  <2>3. \A u \in pool' : u.kind = "create" /\ u.org = o /\ db[o].exists => db[o].uri = u.req
    BY <1>1, <2>1
  <2>4. CASE o # p
    <3>1. Agree(o) => Agree(o)'  BY <1>1, <1>u, <2>4
    <3>2. \A q \in Requests : handler[q].org = o => q # r /\ SubmitTx(q) # t
      BY <1>1, <1>3, <1>r, <2>4
    <3>3. account'[o] = account[o]  BY <1>1, <2>4
    <3>4. QED  BY <1>1, <1>u, <2>1, <2>2, <2>3, <2>4, <3>1, <3>2, <3>3
  <2>5. CASE o = p
    <3>1. \A q \in Requests : (Moving(q) \/ Moving(q)') /\ handler[q].org = p => q = r
      BY <1>2, <1>10, <1>13, <2>2, <2>5 DEF Moving
    <3>2. ~Engaged(r)' => r \notin cache /\ handler[r].pc # "store" /\ SubmitTx(r) \notin pool'
      BY <1>1, <1>3 DEF Engaged, Running
    <3>3. Moving(r) =>
            /\ SubmitTx(r) \in pool \/ account[p].uri = r
            /\ \/ handler[r].pc = "store" \/ r \in cache
               \/ db[p].uri = r \/ r \in Unsaved
            /\ handler[r].pc = "store" /\ SubmitTx(r) \in pool => Agree(o)
      BY <1>1, <2>1, <2>5
    <3>a. t.kind \in Metadata => account'[p].uri = r
      BY <1>1, <1>13, <1>r, <2>5 DEF OInv, Overlap, AccountKept, Draws, Metadata
    <3>b. t.kind = "collect" => account'[p].exists = account[p].exists
      <4>1. t.kind = "collect" => account[p].exists /\ account'[p].exists
        BY <1>1, <1>4
      <4>2. account[p].exists \in BOOLEAN /\ account'[p].exists \in BOOLEAN
        <5>1. TypeOK'  BY MineKeeps DEF OInv
        <5>2. QED  BY <5>1, <1>1, Known1 DEF OInv, TypeOK, Accounts, Account
      <4>3. QED  BY <4>1, <4>2
    <3>4. Moving(r) =>
            /\ account'[p].uri = r \/ SubmitTx(r) \in pool'
            /\ handler[r].pc = "store" /\ SubmitTx(r) \in pool' => Agree(o)'
      <4>1. CASE t.kind = "collect"
        <5>1. account'[p].uri = account[p].uri
          BY <1>1, <4>1 DEF Metadata
        <5>2. Moving(r) => SubmitTx(r) # t
          BY <1>1, <1>3, <4>1 DEF Moving, Metadata
        <5>3. Agree(o) => Agree(o)'
          BY <1>1, <1>u, <2>5, <3>b, <4>1, <5>1 DEF Agree
        <5>4. QED  BY <1>1, <3>3, <5>1, <5>2, <5>3
      <4>2. CASE t.kind \in Metadata
        <5>1. SubmitTx(r) \notin pool'
          BY <1>1, <1>4, <4>2 DEF Metadata
        <5>2. QED  BY <3>a, <4>2, <5>1
      <4>3. CASE t.kind \notin {"collect"} \cup Metadata
        BY <1>4, <4>3 DEF Moving
      <4>4. QED  BY <4>1, <4>2, <4>3
    <3>5. CASE Moving(r)
      <4>1. Agree(o)' \/ Moving(r)'
        <5>1. CASE ~Engaged(r)'
          <6>1. account'[p].uri = r /\ (db[p].uri = r \/ r \in Unsaved')
            BY <1>u, <3>2, <3>3, <3>4, <3>5, <5>1
          <6>2. QED  BY <1>1, <2>5, <6>1 DEF Agree
        <5>2. QED  BY <2>2, <3>5, <5>1
      <4>2. QED  BY <1>1, <1>u, <2>3, <2>5, <3>1, <3>3, <3>4, <3>5, <4>1
    <3>6. CASE ~Moving(r)
      <4>1. \A q \in Requests : ~(Moving(q)' /\ handler[q].org = o)
        BY <2>2, <2>5, <3>1, <3>6
      <4>2. Agree(o)
        BY <2>1, <2>5, <3>1, <3>6
      <4>3. CASE t.kind \in Metadata
        <5>1. r \in Unsaved'
          <6>1. handler[r].pc = "lost"
            BY <1>1, <1>4, <3>6, <4>3 DEF Moving, Metadata
          <6>2. QED  BY <1>1, <1>u, <6>1 DEF Unsaved
        <5>2. Agree(o)'  BY <2>5, <3>a, <4>3, <5>1 DEF Agree
        <5>3. QED  BY <2>3, <4>1, <5>2
      <4>4. CASE t.kind = "create" /\ Valid(t)
        <5>1. account'[p].uri = r /\ (db[p].exists => db[p].uri = r)
          BY <1>1, <1>r, <2>1, <2>5, <4>4
        <5>2. Agree(o)'  BY <1>1, <2>5, <5>1 DEF Agree
        <5>3. QED  BY <2>3, <4>1, <5>2
      <4>5. CASE t.kind \notin Metadata /\ ~(t.kind = "create" /\ Valid(t))
        <5>1. account'[p].uri = account[p].uri /\ account'[p].exists = account[p].exists
          <6>1. CASE ~Valid(t)  BY <1>1, <6>1
          <6>2. CASE t.kind = "collect"  BY <1>1, <3>b, <4>5, <6>2
          <6>3. CASE t.kind \notin Draws
            BY <1>1, <4>5, <6>3 DEF Draws
          <6>4. QED  BY <4>5, <6>1, <6>2, <6>3 DEF Draws
        <5>2. Agree(o)'  BY <1>1, <1>u, <2>5, <4>2, <5>1 DEF Agree
        <5>3. QED  BY <2>3, <4>1, <5>2
      <4>6. QED  BY <4>3, <4>4, <4>5
    <3>7. QED  BY <3>5, <3>6
  <2>6. QED  BY <2>4, <2>5
<1>14. UrisKept'
  BY <1>1, <1>2, <1>13 DEF UrisKept
<1>15. Explained'
  BY <1>1 DEF OInv, Overlap, Explained, RejectionsExplained
<1>16. QED  BY <1>6, <1>7, <1>8, <1>9, <1>12, <1>14, <1>15 DEF Overlap

-----------------------------------------------------------------------------
LEMMA InitOverlap ==
  ASSUME Init
  PROVE  OInv
<1>1. IInv  BY InitInv
<1>2. /\ pool = {} /\ cache = {} /\ owed = {}
      /\ \A r \in Requests : /\ handler[r].pc = "new" /\ handler[r].org = Nil
                             /\ handler[r].kind = "create"
      /\ \A o \in Orgs : (db[o].exists <=> o \in Existing) /\ db[o].uri = Nil
      /\ \A o \in Orgs : (account[o].exists <=> o \in Existing) /\ account[o].uri = Nil
      /\ Nil \notin Orgs /\ Existing \subseteq Orgs
  <2>1. PICK b \in [Existing -> StartBalances], f \in FaucetBalances :
          account = [a \in Accounts |->
                      [exists |-> a \in Existing \cup {Faucet},
                       balance |-> IF a = Faucet THEN f ELSE
                                   IF a \in Existing THEN b[a] ELSE 0,
                       nonce |-> 0, uri |-> Nil]]
    BY DEF Init
  <2>2. \A o \in Orgs : o \in Accounts /\ o # Faucet
    BY AccountNonceConstants DEF Accounts
  <2>3. \A o \in Orgs : (account[o].exists <=> o \in Existing) /\ account[o].uri = Nil
    BY <2>1, <2>2
  <2>4. QED  BY <2>3, AccountNonceConstants DEF Init
<1>3. \A r \in Requests : ~Engaged(r) /\ ~Drawing(r) /\ ~Reads(r) /\ ~Moving(r)
  BY <1>2 DEF Engaged, Running, Drawing, Reads, Moving
<1>4. Sent  BY <1>2 DEF Sent
<1>5. Founded
  BY <1>2 DEF Founded, ExistingReady, OneCreator, RowHasCreator, AccountHasRequest, CreatorFirst
<1>6. Alone  BY <1>3 DEF Alone
<1>7. FaucetKept
  BY <1>2, <1>3 DEF FaucetKept, OneDraw, DrawsFunded, NonceFresh, TopUpsComing, AccountsComing
<1>8. AccountKept  BY <1>2, <1>3 DEF AccountKept
<1>9. UrisKept  BY <1>2, <1>3 DEF UrisKept, Agree
<1>10. Explained  BY <1>2 DEF Explained, RejectionsExplained
<1>11. QED  BY <1>1, <1>4, <1>5, <1>6, <1>7, <1>8, <1>9, <1>10 DEF OInv, Overlap

LEMMA StepOverlap ==
  ASSUME OInv, [Next]_vars
  PROVE  OInv'
<1>1. IInv'  BY StepInv DEF OInv
<1>2. ASSUME NEW r \in Requests, Start(r)  PROVE Overlap'
  BY <1>2, CreateOverlap, ReadOverlap DEF Start, SetOrganizationMetadata, CreateProcess,
                                          SetProcessStatus, Kinds, Metadata
<1>3. ASSUME NEW r \in Requests, ReadFaucet(r)  PROVE Overlap'
  BY <1>3, FaucetOverlap
<1>4. ASSUME NEW r \in Requests, CollectFaucet(r)  PROVE Overlap'
  BY <1>4, CollectOverlap
<1>5. ASSUME NEW r \in Requests, Submit(r)  PROVE Overlap'
  BY <1>5, SubmitOverlap
<1>6. ASSUME NEW r \in Requests, StoreTx(r)  PROVE Overlap'
  BY <1>6, StoreOverlap
<1>7. ASSUME NEW r \in Requests, Stop(r)  PROVE Overlap'
  <2>1. /\ Running(r) /\ SetHandler(r, IF handler[r].pc = "store" THEN "lost" ELSE "stopped")
        /\ UNCHANGED <<account, pool, cache, db, failed, owed, contended>>
    BY <1>7 DEF Stop, ChainUnchanged
  <2>2. CASE handler[r].pc = "store"
    <3>1. SetHandler(r, "lost")  BY <2>1, <2>2
    <3>2. QED  BY <2>1, <2>2, <3>1, LeaveOverlap
  <2>3. CASE handler[r].pc # "store"
    <3>1. SetHandler(r, "stopped")  BY <2>1, <2>3
    <3>2. QED  BY <2>1, <2>3, <3>1, LeaveOverlap
  <2>4. QED  BY <2>2, <2>3
<1>8. ASSUME NEW r \in Requests, Commit(r)  PROVE Overlap'
  BY <1>8, CommitOverlap
<1>9. ASSUME NEW t \in pool, Mine(t)  PROVE Overlap'
  BY <1>9, MineOverlap
<1>10. CASE UNCHANGED vars
  <2>1. UNCHANGED <<account, pool, handler, cache, db, failed, owed, contended>>
    BY <1>10 DEF vars
  <2>2. Sent' /\ Founded' /\ Alone'
    BY <2>1 DEF OInv, Overlap, Sent, Founded, ExistingReady, OneCreator, RowHasCreator,
                AccountHasRequest, CreatorFirst, Alone, Engaged, Running, SubmitTx, CollectTx
  <2>3. FaucetKept'
    BY <2>1 DEF OInv, Overlap, FaucetKept, OneDraw, DrawsFunded, NonceFresh, TopUpsComing,
                AccountsComing, Drawing, SubmitTx, CollectTx
  <2>4. AccountKept' /\ Explained'
    BY <2>1 DEF OInv, Overlap, AccountKept, Reads, Valid, Explained, RejectionsExplained
  <2>5. UrisKept'
    <3>1. Unsaved \subseteq Unsaved' /\ \A o : Agree(o) => Agree(o)'
      BY <2>1, UnsavedGrows
    <3>2. \A q \in Requests : (Moving(q)' <=> Moving(q)) /\ SubmitTx(q)' = SubmitTx(q)
      BY <2>1 DEF Moving, Engaged, Running, SubmitTx
    <3>3. QED  BY <2>1, <3>1, <3>2 DEF OInv, Overlap, UrisKept
  <2>6. QED  BY <1>1, <2>2, <2>3, <2>4, <2>5 DEF Overlap, OInv
<1>11. QED
  BY <1>1, <1>2, <1>3, <1>4, <1>5, <1>6, <1>7, <1>8, <1>9, <1>10 DEF Next, OInv

(* Requests that overlap are the only reason for which a gateway rejects   *)
(* a transaction, if an account is topped up before its last token: the    *)
(* top-up is taken and not yet credited when setOrganizationMetadata,      *)
(* createProcess or setProcessStatus submit theirs.  TxOperationsThreshold *)
(* is 4.  Of transactions that are dropped after a gateway accepted them   *)
(* this says nothing: DropsAreExplained does.                              *)
THEOREM RejectionsAreExplained ==
  ASSUME Threshold > 1
  PROVE  Spec => []RejectionsExplained
<1>1. OInv => RejectionsExplained
  BY DEF OInv, Overlap, Explained
<1>2. QED  BY <1>1, InitOverlap, StepOverlap, PTL DEF Spec

(* An account that is to be created is not there yet: nobody else creates  *)
(* it, and nobody tops up an account that was not found.                   *)
Uncreated == \A t \in pool : t.kind = "create" => ~account[t.org].exists

LEMMA UncreatedStep ==
  ASSUME OInv, Uncreated, [Next]_vars
  PROVE  Uncreated'
<1> SUFFICES ASSUME NEW u \in pool', u.kind = "create"
             PROVE  ~account'[u.org].exists
  BY DEF Uncreated
<1>1. ASSUME NEW t \in pool, Mine(t)  PROVE ~account'[u.org].exists
  <2>1. /\ u \in pool /\ u # t /\ u.org \in Orgs /\ ~account[u.org].exists
        /\ t.org \in Orgs
        /\ \A o \in Orgs \ {t.org} : account'[o] = account[o]
        /\ t.kind \notin Draws => account'[t.org].exists = account[t.org].exists
    BY <1>1, MineEffect, Known1 DEF OInv, Uncreated
  <2>2. CASE t.org # u.org \/ t.kind \notin Draws
    BY <2>1, <2>2
  <2>3. CASE t.org = u.org /\ t.kind = "collect"
    BY <2>1, <2>3 DEF OInv, Overlap, Sent
  <2>4. CASE t.org = u.org /\ t.kind = "create"
    <3>1. /\ t = SubmitTx(t.req) /\ u = SubmitTx(u.req)
          /\ handler[t.req].kind = "create" /\ handler[u.req].kind = "create"
      BY <2>1, <2>4 DEF OInv, Overlap, Sent, SubmitTx
    <3>2. t.req = u.req
      BY <2>1, <2>4, <3>1, Known1 DEF OInv, Overlap, Founded, OneCreator
    <3>3. QED  BY <2>1, <3>1, <3>2
  <2>5. QED  BY <2>2, <2>3, <2>4 DEF Draws
<1>2. ASSUME NEW r \in Requests, Submit(r)  PROVE ~account'[u.org].exists
  <2>1. account' = account /\ (u \in pool \/ u = SubmitTx(r))
    BY <1>2 DEF Submit
  <2>2. CASE u \in pool  BY <2>1, <2>2 DEF Uncreated
  <2>3. CASE u = SubmitTx(r)
    <3>1. /\ u.org = handler[r].org /\ handler[r].kind = "create"
          /\ handler[r].pc = "submit" /\ handler[r].org \in Orgs
      BY <1>2, <2>3 DEF Submit, SubmitTx, OInv, IInv, Known
    <3>2. QED  BY <2>1, <3>1 DEF OInv, Overlap, Founded, CreatorFirst
  <2>4. QED  BY <2>1, <2>2, <2>3
<1>3. ASSUME NEW r \in Requests, CollectFaucet(r)  PROVE ~account'[u.org].exists
  BY <1>3 DEF CollectFaucet, CollectTx, Uncreated
<1>4. CASE UNCHANGED <<account, pool>>
  BY <1>4 DEF Uncreated
<1>5. ASSUME NEW r \in Requests, Start(r)  PROVE UNCHANGED <<account, pool>>
  <2>1. PICK org \in Orgs :
          \/ CreateOrganization(r, org)
          \/ \E kind \in Kinds : ReadAccount(r, kind, org)
    BY <1>5 DEF Start, SetOrganizationMetadata, CreateProcess, SetProcessStatus, Kinds
  <2>2. CASE CreateOrganization(r, org)
    BY <2>2 DEF CreateOrganization, ChainUnchanged
  <2>3. ASSUME NEW kind \in Kinds, ReadAccount(r, kind, org)  PROVE UNCHANGED <<account, pool>>
    BY <2>3 DEF ReadAccount, ChainUnchanged
  <2>4. QED  BY <2>1, <2>2, <2>3
<1>6. ASSUME NEW r \in Requests, ReadFaucet(r)  PROVE UNCHANGED <<account, pool>>
  BY <1>6 DEF ReadFaucet, ChainUnchanged
<1>7. ASSUME NEW r \in Requests, Stop(r)  PROVE UNCHANGED <<account, pool>>
  BY <1>7 DEF Stop, ChainUnchanged
<1>8. ASSUME NEW r \in Requests, StoreTx(r) \/ Commit(r)  PROVE UNCHANGED <<account, pool>>
  BY <1>8 DEF StoreTx, Commit
<1>9. CASE UNCHANGED vars
  BY <1>9, <1>4 DEF vars
<1>10. QED
  BY <1>1, <1>2, <1>3, <1>4, <1>5, <1>6, <1>7, <1>8, <1>9 DEF Next

(* What a gateway accepted is not dropped when its block comes, unless     *)
(* requests of its organization overlapped, or draws on the faucet if it   *)
(* is one: for any threshold, balances and order of blocks.  The handlers  *)
(* answer before that block and never learn of a drop.                     *)
THEOREM DropsAreExplained == Spec => []DropsExplained
<1>1. OInv /\ Uncreated => DropsExplained
  <2> SUFFICES ASSUME OInv, Uncreated, NEW t \in pool, ~Valid(t),
                      (IF t.kind \in Draws THEN Faucet ELSE t.org) \notin contended
               PROVE  FALSE
    BY DEF DropsExplained
  <2>1. CASE t.kind \notin Draws
    BY <2>1 DEF OInv, Overlap, AccountKept
  <2>2. CASE t.kind \in Draws
    <3>1. t.req \in Requests /\ Drawing(t.req)
      BY <2>2, Known1 DEF OInv, Drawing
    <3>2. account[Faucet].balance >= Multiplier
      BY <2>2, <3>1 DEF OInv, Overlap, FaucetKept, DrawsFunded
    <3>3. t.kind = "collect" => t.nonce = account[Faucet].nonce
      BY <2>2 DEF OInv, Overlap, FaucetKept, NonceFresh
    <3>4. QED  BY <2>2, <3>2, <3>3 DEF Valid, Uncreated, Draws
  <2>3. QED  BY <2>1, <2>2
<1>2. Init => Uncreated  BY DEF Init, Uncreated
<1>3. OInv /\ Uncreated /\ [Next]_vars => Uncreated'  BY UncreatedStep
<1>4. QED  BY <1>1, <1>2, <1>3, InitOverlap, StepOverlap, PTL DEF Spec

(* The row of an organization has an account, unless createOrganization    *)
(* found tokens that another draw on the faucet took.                      *)
THEOREM RowsGetAccounts == Spec => []RowsHaveAccounts
<1>1. OInv => RowsHaveAccounts
  <2> SUFFICES ASSUME OInv, NEW o \in Orgs, db[o].exists, ~Busy(o), ~account[o].exists,
                      Faucet \notin contended
               PROVE  FALSE
    BY DEF RowsHaveAccounts
  <2>1. PICK r \in Requests :
          handler[r].kind = "create" /\ handler[r].org = o /\ handler[r].pc = "stored"
    BY DEF OInv, Overlap, Founded, ExistingReady, RowHasCreator
  <2>2. SubmitTx(r) \in pool
    BY <2>1 DEF OInv, Overlap, FaucetKept, AccountsComing
  <2>3. QED  BY <2>1, <2>2 DEF Busy, SubmitTx
<1>2. QED  BY <1>1, InitOverlap, StepOverlap, PTL DEF Spec

(* At rest, the row and the account of an organization have their URIs     *)
(* from one request, for a client that waits for "mined" and unless that   *)
(* of the account was not saved: whatever the order in which transactions  *)
(* are executed and rows are committed, and whichever commits fail.        *)
THEOREM UrisCorrect == Spec => []UrisAgree
<1>1. OInv => UrisAgree
  <2> SUFFICES ASSUME OInv, NEW o \in Orgs, ~Busy(o), o \notin contended
               PROVE  Agree(o)
    BY DEF UrisAgree, Agree
  <2>1. ASSUME NEW r \in Requests, Engaged(r), handler[r].org = o  PROVE FALSE
    BY <2>1, Known1 DEF OInv, Busy, Engaged
  <2>2. QED  BY <2>1 DEF OInv, Overlap, UrisKept, Moving
<1>2. QED  BY <1>1, InitOverlap, StepOverlap, PTL DEF Spec

(* Two requests of an organization have to overlap for the faucet to give  *)
(* tokens to an account that has Threshold of them.                        *)
THEOREM TopUpsOnce == Spec => OneTopUp
<1>1. ASSUME OInv, [Next]_vars
      PROVE  [\A o \in Orgs \ contended :
                account[o].exists /\ account'[o].balance > account[o].balance
                  => account[o].balance < Threshold]_vars
  <2> SUFFICES ASSUME NEW o \in Orgs, o \notin contended, account[o].exists,
                      account'[o].balance > account[o].balance
               PROVE  account[o].balance < Threshold
    OBVIOUS
  <2>a. account[o].balance \in Nat
    BY <1>1, Known1 DEF OInv, Accounts, Account
  <2>1. ASSUME NEW t \in pool, Mine(t)  PROVE account[o].balance < Threshold
    <3>1. o = t.org /\ Valid(t) /\ t.kind \in Draws
      <4>1. TypeOK'  BY <1>1, <2>1, MineKeeps DEF OInv
      <4>2. account'[o].balance \in Nat
        BY <4>1 DEF TypeOK, Accounts, Account
      <4>3. QED  BY <1>1, <2>1, <2>a, <4>2, MineEffect
    <3>2. t.kind = "collect"
      BY <3>1 DEF Valid, Draws
    <3>3. QED  BY <1>1, <3>1, <3>2 DEF OInv, Overlap, AccountKept
  <2>2. account' = account \/ \E t \in pool : Mine(t)
    BY <1>1 DEF Next, Start, CreateOrganization, SetOrganizationMetadata, CreateProcess,
                SetProcessStatus, ReadAccount, ReadFaucet, CollectFaucet, Submit, StoreTx, Stop,
                Commit, ChainUnchanged, vars
  <2>3. QED  BY <2>1, <2>2, <2>a
<1>2. QED  BY <1>1, InitOverlap, StepOverlap, PTL DEF Spec, OneTopUp
=============================================================================
