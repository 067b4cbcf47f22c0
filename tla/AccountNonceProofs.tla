------------------------- MODULE AccountNonceProofs -------------------------
(***************************************************************************)
(* A transaction with the current nonce finds its tokens, for any number   *)
(* of requests and organizations.  The balance falls only with a           *)
(* transaction that also takes the nonce further; each of those was        *)
(* preceded by a balance at or above the threshold, or by a top-up the     *)
(* gateway took: it was credited since, or it is owed.                     *)
(***************************************************************************)
EXTENDS AccountNonce, FiniteSetTheorems, TLAPS

(* What is known of the organization of a request.                         *)
Known ==
  /\ \A r \in Requests : handler[r].pc # "new" => handler[r].org \in Orgs
  /\ \A r \in Requests :
       handler[r].pc \in {"collect", "collecting"} =>
         handler[r].kind # "create" /\ account[handler[r].org].exists
  /\ \A r \in owed : handler[r].pc \notin {"new", "collect", "collecting"}
  /\ \A t \in pool : handler[t.req].pc # "new" /\ handler[t.req].org = t.org

(* Nonces that were read are not in the future.                            *)
Aged ==
  /\ \A r \in Requests :
       handler[r].pc # "new" /\ handler[r].kind # "create"
         => handler[r].nonce <= account[handler[r].org].nonce
  /\ \A t \in pool : t.kind \notin Draws => t.nonce <= account[t.org].nonce

Means(o) == account[o].balance + TopUpsOwed(o)

Kept == \A o \in Orgs : account[o].exists => Means(o) >= Threshold - 1

Enough ==
  /\ \A r \in Requests, o \in Orgs :
       /\ handler[r].pc = "submit" /\ handler[r].kind # "create"
       /\ handler[r].org = o /\ handler[r].nonce = account[o].nonce
       => account[o].exists /\ Means(o) >= Threshold
  /\ \A t \in pool :
       t.kind \notin Draws /\ t.nonce = account[t.org].nonce
         => account[t.org].exists /\ Means(t.org) >= Threshold

IInv == TypeOK /\ Known /\ Aged /\ Kept /\ Enough

(* The top-ups that are owed are finitely many, and change one by one.     *)
LEMMA OwedType ==
  ASSUME TypeOK, NEW o
  PROVE  /\ IsFiniteSet({r \in owed : handler[r].org = o})
         /\ TopUpsOwed(o) \in Nat
<1>1. {r \in owed : handler[r].org = o} \in SUBSET Requests  BY DEF TypeOK
<1>2. IsFiniteSet({r \in owed : handler[r].org = o})
  BY <1>1, AccountNonceConstants, FS_Subset
<1>3. QED  BY <1>2, FS_CardinalityType DEF TopUpsOwed

LEMMA OwedSame ==
  ASSUME owed' = owed, \A r \in owed : handler'[r].org = handler[r].org
  PROVE  \A o : TopUpsOwed(o)' = TopUpsOwed(o)
<1> SUFFICES ASSUME NEW o PROVE TopUpsOwed(o)' = TopUpsOwed(o)
  OBVIOUS
<1>1. {r \in owed' : handler'[r].org = o} = {r \in owed : handler[r].org = o}
  OBVIOUS
<1>2. QED  BY <1>1 DEF TopUpsOwed

LEMMA OwedMore ==
  ASSUME TypeOK, NEW r \in Requests, r \notin owed, owed' = owed \cup {r},
         \A q \in owed \cup {r} : handler'[q].org = handler[q].org
  PROVE  \A o : TopUpsOwed(o)' = TopUpsOwed(o) + (IF o = handler[r].org THEN 1 ELSE 0)
<1> SUFFICES ASSUME NEW o
             PROVE  TopUpsOwed(o)' = TopUpsOwed(o) + (IF o = handler[r].org THEN 1 ELSE 0)
  OBVIOUS
<1> DEFINE S == {q \in owed : handler[q].org = o}
<1>1. IsFiniteSet(S) /\ r \notin S /\ TopUpsOwed(o) = Cardinality(S) /\ Cardinality(S) \in Nat
  BY OwedType DEF TopUpsOwed
<1>2. CASE o = handler[r].org
  <2>1. {q \in owed' : handler'[q].org = o} = S \cup {r}  BY <1>2
  <2>2. Cardinality(S \cup {r}) = Cardinality(S) + 1  BY <1>1, FS_AddElement
  <2>3. QED  BY <1>1, <1>2, <2>1, <2>2 DEF TopUpsOwed
<1>3. CASE o # handler[r].org
  <2>1. {q \in owed' : handler'[q].org = o} = S  BY <1>3
  <2>2. TopUpsOwed(o)' = Cardinality(S)  BY <2>1 DEF TopUpsOwed
  <2>3. QED  BY <1>1, <1>3, <2>2
<1>4. QED  BY <1>2, <1>3

LEMMA OwedLess ==
  ASSUME TypeOK, NEW r \in Requests, owed' = owed \ {r}, handler' = handler,
         NEW p, p = handler[r].org
  PROVE  /\ \A o : o # p => TopUpsOwed(o)' = TopUpsOwed(o)
         /\ TopUpsOwed(p)' \in Nat
         /\ TopUpsOwed(p)' >= TopUpsOwed(p) - 1
<1>1. ASSUME NEW o, o # p  PROVE TopUpsOwed(o)' = TopUpsOwed(o)
  <2>1. {q \in owed' : handler'[q].org = o} = {q \in owed : handler[q].org = o}
    BY <1>1
  <2>2. QED  BY <2>1 DEF TopUpsOwed
<1> DEFINE S == {q \in owed : handler[q].org = p}
<1>2. IsFiniteSet(S) /\ TopUpsOwed(p) = Cardinality(S) /\ Cardinality(S) \in Nat
  BY OwedType DEF TopUpsOwed
<1>3. {q \in owed' : handler'[q].org = p} = S \ {r}
  OBVIOUS
<1>4. /\ IsFiniteSet(S \ {r})
      /\ Cardinality(S \ {r}) = IF r \in S THEN Cardinality(S) - 1 ELSE Cardinality(S)
  BY <1>2, FS_RemoveElement
<1>5. TopUpsOwed(p)' = Cardinality(S \ {r})
  BY <1>3 DEF TopUpsOwed
<1>6. Cardinality(S \ {r}) \in Nat
  BY <1>4, FS_CardinalityType
<1> HIDE DEF S
<1>7. Cardinality(S \ {r}) >= Cardinality(S) - 1
  BY <1>2, <1>4
<1>8. QED  BY <1>1, <1>2, <1>5, <1>6, <1>7

-----------------------------------------------------------------------------
(* A step of one handler that takes no tokens: what it has to keep.        *)
LEMMA HandlerKeeps ==
  ASSUME IInv, NEW r \in Requests, NEW h \in Handler,
         handler' = [handler EXCEPT ![r] = h],
         UNCHANGED <<account, owed>>,
         h.org \in Orgs, h.pc # "new",
         handler[r].pc = "new" \/ h.org = handler[r].org,
         h.pc \in {"collect", "collecting"} =>
           h.kind # "create" /\ account[h.org].exists /\ r \notin owed,
         h.kind # "create" => h.nonce <= account[h.org].nonce,
         /\ h.pc = "submit" /\ h.kind # "create" /\ h.nonce = account[h.org].nonce
         => account[h.org].exists /\ Means(h.org) >= Threshold,
         pool' \subseteq pool \cup {SubmitTx(r)},
         SubmitTx(r) \in pool' \ pool =>
           handler[r].pc = "submit" /\ handler[r].kind \notin {"collect"}
  PROVE  Known' /\ Aged' /\ Kept' /\ Enough'
<1>1. /\ handler'[r] = h
      /\ \A q \in Requests : q # r => handler'[q] = handler[q]
  BY DEF IInv, TypeOK
<1>2. \A q \in owed : q \in Requests /\ handler'[q].org = handler[q].org
  BY <1>1 DEF IInv, TypeOK, Known
<1>3. \A o : TopUpsOwed(o)' = TopUpsOwed(o)
  BY <1>2, OwedSame
<1>4. \A o : Means(o)' = Means(o)
  BY <1>3 DEF Means
<1>5. \A t \in pool : t.req \in Requests
  BY DEF IInv, TypeOK, Tx
<1> DEFINE s == SubmitTx(r)
<1>6. s.req = r /\ s.org = handler[r].org /\ s.nonce = handler[r].nonce
      /\ s.kind = handler[r].kind
  BY DEF SubmitTx
<1>7. \A t \in pool' : t \in pool \/ (t = s /\ handler[r].pc = "submit")
  OBVIOUS
<1> HIDE DEF s
<1>8. Known'
  BY <1>1, <1>2, <1>5, <1>6, <1>7 DEF IInv, Known
<1>9. Aged'
  BY <1>1, <1>5, <1>6, <1>7 DEF IInv, Aged, Draws
<1>10. Kept'
  BY <1>4 DEF IInv, Kept
<1>11. Enough'
  BY <1>1, <1>4, <1>6, <1>7 DEF IInv, Enough, Draws
<1>12. QED  BY <1>8, <1>9, <1>10, <1>11

LEMMA StartKeeps ==
  ASSUME IInv, NEW r \in Requests, NEW org \in Orgs,
         CreateOrganization(r, org) \/ \E kind \in Kinds \ {"create"} : ReadAccount(r, kind, org)
  PROVE  TypeOK' /\ Known' /\ Aged' /\ Kept' /\ Enough'
<1>1. handler[r] \in Handler /\ account[org] \in Account /\ account[Faucet] \in Account
      /\ r \notin owed
  BY DEF IInv, TypeOK, Accounts, Known, CreateOrganization, ReadAccount
<1>2. UNCHANGED <<account, pool, cache, db, failed, owed>> /\ contended' \subseteq Accounts
  BY DEF CreateOrganization, ReadAccount, ChainUnchanged, Contend, IInv, TypeOK, Accounts
<1>3. CASE CreateOrganization(r, org)
  <2> DEFINE h == [handler[r] EXCEPT !.kind = "create", !.org = org,
                     !.pc = IF account[Faucet].balance < Multiplier THEN "refused"
                                                                    ELSE "submit"]
  <2>1. handler[r].pc = "new" /\ handler' = [handler EXCEPT ![r] = h]
    BY <1>3 DEF CreateOrganization, IInv, TypeOK
  <2>2. h \in Handler /\ h.org = org /\ h.kind = "create" /\ h.pc \in {"refused", "submit"}
    BY <1>1 DEF Handler, Kinds
  <2> HIDE DEF h
  <2>3. Known' /\ Aged' /\ Kept' /\ Enough'
    BY <2>1, <2>2, <1>2, HandlerKeeps
  <2>4. TypeOK'  BY <2>1, <2>2, <1>2 DEF IInv, TypeOK
  <2>5. QED  BY <2>3, <2>4
<1>4. ASSUME NEW kind \in Kinds \ {"create"}, ReadAccount(r, kind, org)
      PROVE  TypeOK' /\ Known' /\ Aged' /\ Kept' /\ Enough'
  <2> DEFINE h == [handler[r] EXCEPT !.kind = kind, !.org = org, !.nonce = account[org].nonce,
                     !.pc = CASE ~account[org].exists -> "refused"
                              [] account[org].exists /\ Low(account[org].balance) -> "collect"
                              [] OTHER -> "submit"]
  <2>1. handler[r].pc = "new" /\ handler' = [handler EXCEPT ![r] = h]
    BY <1>4 DEF ReadAccount, IInv, TypeOK
  <2>2. /\ h \in Handler /\ h.org = org /\ h.kind = kind /\ h.nonce = account[org].nonce
        /\ \/ h.pc = "refused"
           \/ h.pc = "collect" /\ account[org].exists
           \/ h.pc = "submit" /\ account[org].exists /\ ~Low(account[org].balance)
    <3>1. account[org].exists \in BOOLEAN /\ account[org].nonce \in Nat
      BY <1>1 DEF Account
    <3>2. QED  BY <1>1, <3>1 DEF Handler, Kinds
  <2> HIDE DEF h
  <2>a. ~Low(account[org].balance) => Means(org) >= Threshold
    <3>1. TopUpsOwed(org) \in Nat  BY OwedType DEF IInv
    <3>2. account[org].balance \in Nat  BY <1>1 DEF Account
    <3>3. QED  BY <3>1, <3>2, AccountNonceConstants DEF Low, Means
  <2>b. h.nonce <= account[org].nonce
    BY <2>2, <1>1 DEF Account
  <2>3. Known' /\ Aged' /\ Kept' /\ Enough'
    BY <2>1, <2>2, <2>a, <2>b, <1>1, <1>2, HandlerKeeps
  <2>4. TypeOK'  BY <2>1, <2>2, <1>2 DEF IInv, TypeOK
  <2>5. QED  BY <2>3, <2>4
<1>5. QED  BY <1>3, <1>4

LEMMA ReadFaucetKeeps ==
  ASSUME IInv, NEW r \in Requests, ReadFaucet(r)
  PROVE  TypeOK' /\ Known' /\ Aged' /\ Kept' /\ Enough'
<1> DEFINE h == [handler[r] EXCEPT
                   !.pc = IF account[Faucet].balance < Multiplier THEN "refused"
                                                                  ELSE "collecting",
                   !.faucetNonce = account[Faucet].nonce]
<1>1. handler[r] \in Handler /\ account[Faucet] \in Account
  BY DEF IInv, TypeOK, Accounts
<1>2. /\ UNCHANGED <<account, pool, cache, db, failed, owed>> /\ contended' \subseteq Accounts
      /\ handler[r].pc = "collect" /\ handler' = [handler EXCEPT ![r] = h]
  BY DEF ReadFaucet, ChainUnchanged, Contend, IInv, TypeOK, Accounts
<1>3. /\ h \in Handler /\ h.org = handler[r].org /\ h.kind = handler[r].kind
      /\ h.nonce = handler[r].nonce /\ h.pc \in {"refused", "collecting"}
  BY <1>1 DEF Handler, Account
<1> HIDE DEF h
<1>4. /\ handler[r].org \in Orgs /\ handler[r].kind # "create" /\ r \notin owed
      /\ account[handler[r].org].exists
      /\ handler[r].nonce <= account[handler[r].org].nonce
  BY <1>2 DEF IInv, Known, Aged
<1>5. Known' /\ Aged' /\ Kept' /\ Enough'
  BY <1>2, <1>3, <1>4, HandlerKeeps
<1>6. TypeOK'  BY <1>2, <1>3 DEF IInv, TypeOK
<1>7. QED  BY <1>5, <1>6

(* The steps that only move a handler on, or submit its transaction.       *)
LEMMA MoveKeeps ==
  ASSUME IInv, NEW r \in Requests, NEW pc \in {"store", "stored", "rejected", "stopped", "lost"},
         handler[r].pc # "new", SetHandler(r, pc), UNCHANGED <<account, owed, db, failed, contended>>,
         cache' \subseteq cache \cup {r},
         pool' = pool \/ (handler[r].pc = "submit" /\ pool' = pool \cup {SubmitTx(r)})
  PROVE  TypeOK' /\ Known' /\ Aged' /\ Kept' /\ Enough'
<1> DEFINE h == [handler[r] EXCEPT !.pc = pc]
<1>1. handler[r] \in Handler  BY DEF IInv, TypeOK
<1>2. handler' = [handler EXCEPT ![r] = h]  BY DEF SetHandler
<1>3. /\ h \in Handler /\ h.org = handler[r].org /\ h.kind = handler[r].kind
      /\ h.nonce = handler[r].nonce /\ h.pc = pc
  BY <1>1 DEF Handler
<1> HIDE DEF h
<1>4. /\ handler[r].org \in Orgs
      /\ handler[r].kind # "create" => handler[r].nonce <= account[handler[r].org].nonce
      /\ handler[r].kind # "collect"
  BY <1>1 DEF IInv, Known, Aged, Handler, Kinds, Metadata
<1>5. pool' \subseteq pool \cup {SubmitTx(r)}
      /\ (SubmitTx(r) \in pool' \ pool => handler[r].pc = "submit")
  OBVIOUS
<1>6. Known' /\ Aged' /\ Kept' /\ Enough'
  BY <1>2, <1>3, <1>4, <1>5, HandlerKeeps
<1>7. SubmitTx(r) \in Tx
  BY <1>1, <1>4 DEF SubmitTx, Tx, Handler
<1>8. TypeOK'
  BY <1>2, <1>3, <1>7 DEF IInv, TypeOK
<1>9. QED  BY <1>6, <1>8

(* A top-up that is taken is owed from then on: the means of the account   *)
(* suffice for the transaction that follows, even if it is never credited. *)
LEMMA CollectKeeps ==
  ASSUME IInv, NEW r \in Requests, CollectFaucet(r)
  PROVE  TypeOK' /\ Known' /\ Aged' /\ Kept' /\ Enough'
<1>1. CASE ~Valid(CollectTx(r))
  BY <1>1, MoveKeeps DEF CollectFaucet
<1>2. CASE Valid(CollectTx(r))
  <2> DEFINE h == [handler[r] EXCEPT !.pc = "submit"]
             t == CollectTx(r)
  <2>1. /\ handler[r].pc = "collecting" /\ handler' = [handler EXCEPT ![r] = h]
        /\ pool' = pool \cup {t} /\ owed' = owed \cup {r}
        /\ UNCHANGED <<account, cache, db, failed, contended>>
    BY <1>2 DEF CollectFaucet, SetHandler
  <2>2. handler[r] \in Handler  BY DEF IInv, TypeOK
  <2>3. /\ h \in Handler /\ h.org = handler[r].org /\ h.kind = handler[r].kind
        /\ h.nonce = handler[r].nonce /\ h.pc = "submit"
    BY <2>2 DEF Handler
  <2>4. /\ handler[r].org \in Orgs /\ handler[r].kind # "create" /\ r \notin owed
        /\ account[handler[r].org].exists
        /\ handler[r].nonce <= account[handler[r].org].nonce
    BY <2>1 DEF IInv, Known, Aged
  <2>5. t \in Tx /\ t.req = r /\ t.org = handler[r].org /\ t.kind = "collect"
    BY <2>2, <2>4 DEF CollectTx, Tx, Handler
  <2>6. handler'[r] = h /\ \A q \in Requests : q # r => handler'[q] = handler[q]
    BY <2>1 DEF IInv, TypeOK
  <2> HIDE DEF h, t
  <2>7. \A q \in owed \cup {r} : q \in Requests /\ handler'[q].org = handler[q].org
    BY <2>3, <2>6 DEF IInv, TypeOK
  <2>a. PICK p \in Orgs : p = handler[r].org  BY <2>4
  <2>8. \A o : TopUpsOwed(o)' = TopUpsOwed(o) + (IF o = p THEN 1 ELSE 0)
    BY <2>1, <2>4, <2>7, <2>a, OwedMore DEF IInv
  <2>9. \A o \in Orgs : /\ account[o].balance \in Nat /\ TopUpsOwed(o) \in Nat
                        /\ Means(o) \in Nat
    <3>1. \A o : TopUpsOwed(o) \in Nat  BY OwedType DEF IInv
    <3>2. \A o \in Orgs : account[o].balance \in Nat
      BY DEF IInv, TypeOK, Accounts, Account
    <3>3. QED  BY <3>1, <3>2 DEF Means
  <2>10. /\ \A o \in Orgs : Means(o)' >= Means(o) /\ Means(o)' \in Nat
         /\ Means(p)' = Means(p) + 1
    BY <2>1, <2>8, <2>9 DEF Means
  <2>11. Known'
    <3>1. \A u \in pool : u.req \in Requests  BY DEF IInv, TypeOK, Tx
    <3>2. QED  BY <3>1, <2>1, <2>3, <2>4, <2>5, <2>6 DEF IInv, Known
  <2>12. Aged'
    BY <2>1, <2>3, <2>4, <2>5, <2>6 DEF IInv, Aged, Draws
  <2>13. Kept'
    BY <2>1, <2>9, <2>10, AccountNonceConstants DEF IInv, Kept
  <2>14. Means(p)' >= Threshold
    BY <2>4, <2>a, <2>9, <2>10, AccountNonceConstants DEF IInv, Kept
  <2>15. Enough'
    <3>2. \A u \in pool : u.org \in Orgs  BY DEF IInv, TypeOK, Tx
    <3>3. ASSUME NEW q \in Requests, NEW o \in Orgs,
                 handler'[q].pc = "submit", handler'[q].kind # "create",
                 handler'[q].org = o, handler'[q].nonce = account'[o].nonce
          PROVE  account'[o].exists /\ Means(o)' >= Threshold
      <4>1. CASE q = r
        <5>1. o = p  BY <4>1, <3>3, <2>3, <2>6, <2>a
        <5>2. QED  BY <5>1, <2>1, <2>4, <2>a, <2>14
      <4>2. CASE q # r
        <5>1. account[o].exists /\ Means(o) >= Threshold
          BY <3>3, <4>2, <2>1, <2>6 DEF IInv, Enough
        <5>2. QED  BY <5>1, <2>1, <2>9, <2>10, AccountNonceConstants
      <4>3. QED  BY <4>1, <4>2
    <3>4. ASSUME NEW u \in pool', u.kind \notin Draws, u.nonce = account'[u.org].nonce
          PROVE  account'[u.org].exists /\ Means(u.org)' >= Threshold
      <4>1. u \in pool  BY <3>4, <2>1, <2>5 DEF Draws
      <4>2. account[u.org].exists /\ Means(u.org) >= Threshold
        BY <3>4, <4>1, <2>1 DEF IInv, Enough
      <4>3. QED  BY <4>1, <4>2, <3>2, <2>1, <2>9, <2>10, AccountNonceConstants
    <3>5. QED  BY <3>3, <3>4 DEF Enough
  <2>16. TypeOK'
    BY <2>1, <2>3, <2>5 DEF IInv, TypeOK
  <2>17. QED  BY <2>11, <2>12, <2>13, <2>15, <2>16
<1>3. QED  BY <1>1, <1>2

(* A commit changes rows and the cache only.                               *)
LEMMA CommitKeeps ==
  ASSUME IInv, NEW r \in Requests, Commit(r)
  PROVE  TypeOK' /\ Known' /\ Aged' /\ Kept' /\ Enough'
<1>1. UNCHANGED <<account, pool, handler, owed, contended>>
      /\ cache' \subseteq cache /\ failed' \subseteq failed \cup {r}
  BY DEF Commit
<1>2. db' \in [Orgs -> Row]
  <2>1. db \in [Orgs -> Row]  BY DEF IInv, TypeOK
  <2>2. \A o \in Orgs : [db[o] EXCEPT !.uri = r] \in Row  BY <2>1 DEF Row
  <2>3. [exists |-> TRUE, uri |-> r] \in Row  BY DEF Row
  <2>4. \/ db' = [db EXCEPT ![handler[r].org] = [exists |-> TRUE, uri |-> r]]
        \/ db' = [db EXCEPT ![handler[r].org].uri = r]
        \/ db' = db
    BY DEF Commit, Write
  <2>5. QED  BY <2>1, <2>2, <2>3, <2>4
<1>3. \A o : TopUpsOwed(o)' = TopUpsOwed(o)  BY <1>1, OwedSame
<1>4. \A o : Means(o)' = Means(o)  BY <1>1, <1>3 DEF Means
<1>5. QED  BY <1>1, <1>2, <1>4 DEF IInv, TypeOK, Known, Aged, Kept, Enough

-----------------------------------------------------------------------------
(* What executing a transaction does to the accounts.                      *)
LEMMA CreditFacts ==
  ASSUME TypeOK, NEW org \in Orgs, NEW uri \in Requests \cup {Nil},
         account[Faucet].balance >= Multiplier
  PROVE  /\ Credit(org, uri) \in [Accounts -> Account]
         /\ Credit(org, uri)[org].balance = account[org].balance + Multiplier
         /\ Credit(org, uri)[org].nonce = account[org].nonce
         /\ Credit(org, uri)[org].exists
         /\ \A o \in Orgs \ {org} : Credit(org, uri)[o] = account[o]
<1>1. account \in [Accounts -> Account] /\ org \in Accounts /\ Faucet \in Accounts
      /\ org # Faucet
  BY AccountNonceConstants DEF TypeOK, Accounts
<1>2. account[Faucet].balance - Multiplier \in Nat /\ account[org].balance + Multiplier \in Nat
  BY <1>1, AccountNonceConstants DEF Account
<1> DEFINE c == Credit(org, uri)
<1>3. /\ c[org] = [account[org] EXCEPT !.balance = @ + Multiplier, !.exists = TRUE, !.uri = uri]
      /\ c[Faucet] = [account[Faucet] EXCEPT !.balance = @ - Multiplier]
      /\ \A a \in Accounts \ {org, Faucet} : c[a] = account[a]
      /\ c = [a \in Accounts |-> c[a]]
  BY <1>1 DEF Credit
<1> HIDE DEF c
<1>4. /\ account[org] \in Account /\ account[Faucet] \in Account
      /\ [account[org] EXCEPT !.balance = @ + Multiplier, !.exists = TRUE, !.uri = uri] \in Account
      /\ [account[Faucet] EXCEPT !.balance = @ - Multiplier] \in Account
  BY <1>1, <1>2 DEF Account
<1>5. \A a \in Accounts : c[a] \in Account  BY <1>1, <1>3, <1>4
<1>6. c \in [Accounts -> Account]  BY <1>3, <1>5
<1>7. /\ c[org].balance = account[org].balance + Multiplier
      /\ c[org].nonce = account[org].nonce
      /\ c[org].exists
  BY <1>3, <1>4 DEF Account
<1>8. \A o \in Orgs \ {org} : o \in Accounts \ {org, Faucet}
  BY AccountNonceConstants DEF Accounts
<1>9. QED  BY <1>3, <1>6, <1>7, <1>8 DEF c

LEMMA ExecuteFacts ==
  ASSUME IInv, NEW t \in pool, Valid(t), Execute(t)
  PROVE  /\ account' \in [Accounts -> Account]
         /\ \A o \in Orgs \ {t.org} : account'[o].balance = account[o].balance
              /\ account'[o].nonce = account[o].nonce /\ account'[o].exists = account[o].exists
         /\ t.kind \in Draws =>
              /\ account'[t.org].exists /\ account'[t.org].nonce = account[t.org].nonce
              /\ account'[t.org].balance = account[t.org].balance + Multiplier
         /\ t.kind \notin Draws =>
              /\ account'[t.org].exists = account[t.org].exists
              /\ t.nonce = account[t.org].nonce /\ account[t.org].balance >= 1
              /\ account'[t.org].nonce = account[t.org].nonce + 1
              /\ account'[t.org].balance = account[t.org].balance - 1
<1>1. t \in Tx /\ t.org \in Orgs /\ t.req \in Requests
      /\ t.org \in Accounts /\ Faucet \in Accounts /\ t.org # Faucet
      /\ account \in [Accounts -> Account]
  BY AccountNonceConstants DEF IInv, TypeOK, Tx, Accounts
<1>2. CASE t.kind = "create"
  <2>1. account' = Credit(t.org, t.req) /\ account[Faucet].balance >= Multiplier
    BY <1>2 DEF Execute, Valid
  <2>2. QED  BY <1>1, <1>2, <2>1, CreditFacts DEF Draws, IInv
<1>3. CASE t.kind = "collect"
  <2> DEFINE c == Credit(t.org, account[t.org].uri)
  <2>1. account' = [c EXCEPT ![Faucet].nonce = @ + 1] /\ account[Faucet].balance >= Multiplier
    BY <1>3 DEF Execute, Valid
  <2>2. account[t.org].uri \in Requests \cup {Nil}  BY <1>1 DEF Account
  <2>3. /\ c \in [Accounts -> Account]
        /\ c[t.org].balance = account[t.org].balance + Multiplier
        /\ c[t.org].nonce = account[t.org].nonce
        /\ c[t.org].exists
        /\ \A o \in Orgs \ {t.org} : c[o] = account[o]
    BY <1>1, <2>1, <2>2, CreditFacts DEF IInv
  <2> HIDE DEF c
  <2>4. account' \in [Accounts -> Account] /\ \A o \in Orgs : account'[o] = c[o]
    BY <1>1, <2>1, <2>3, AccountNonceConstants DEF Account, Accounts
  <2>5. QED  BY <1>1, <1>3, <2>3, <2>4 DEF Draws
<1>4. CASE t.kind \notin Draws
  <2>1. /\ t.nonce = account[t.org].nonce /\ account[t.org].balance >= 1
        /\ account' = [account EXCEPT ![t.org].balance = @ - 1, ![t.org].nonce = @ + 1,
                          ![t.org].uri = IF t.kind \in Metadata THEN t.req ELSE @]
    BY <1>4 DEF Execute, Valid, Draws
  <2>2. account[t.org] \in Account  BY <1>1
  <2>3. account[t.org].balance - 1 \in Nat /\ account[t.org].nonce + 1 \in Nat
    BY <2>1, <2>2 DEF Account
  <2>4. QED  BY <1>1, <1>4, <2>1, <2>2, <2>3 DEF Account, Accounts
<1>5. QED  BY <1>2, <1>3, <1>4 DEF Draws

LEMMA MineKeeps ==
  ASSUME IInv, NEW t \in pool, Mine(t)
  PROVE  TypeOK' /\ Known' /\ Aged' /\ Kept' /\ Enough'
<1>1. /\ pool' = pool \ {t} /\ UNCHANGED <<handler, cache, db, failed, contended>>
      /\ t \in Tx /\ t.req \in Requests /\ t.org \in Orgs /\ handler[t.req].org = t.org
  BY DEF Mine, IInv, TypeOK, Tx, Known
<1>2. CASE ~Valid(t)
  <2>1. UNCHANGED <<account, owed>>  BY <1>2 DEF Mine
  <2>2. \A o : TopUpsOwed(o)' = TopUpsOwed(o)  BY <1>1, <2>1, OwedSame
  <2>3. \A o : Means(o)' = Means(o)  BY <2>1, <2>2 DEF Means
  <2>4. QED  BY <1>1, <2>1, <2>3 DEF IInv, TypeOK, Known, Aged, Kept, Enough
<1>3. CASE Valid(t)
  <2>1. Execute(t) /\ owed' = IF t.kind = "collect" THEN owed \ {t.req} ELSE owed
    BY <1>3 DEF Mine
  <2>2. /\ account' \in [Accounts -> Account]
        /\ \A o \in Orgs \ {t.org} : account'[o].balance = account[o].balance
             /\ account'[o].nonce = account[o].nonce /\ account'[o].exists = account[o].exists
        /\ t.kind \in Draws =>
             /\ account'[t.org].exists /\ account'[t.org].nonce = account[t.org].nonce
             /\ account'[t.org].balance = account[t.org].balance + Multiplier
        /\ t.kind \notin Draws =>
             /\ account'[t.org].exists = account[t.org].exists
             /\ t.nonce = account[t.org].nonce /\ account[t.org].balance >= 1
             /\ account'[t.org].nonce = account[t.org].nonce + 1
             /\ account'[t.org].balance = account[t.org].balance - 1
    BY <1>3, <2>1, ExecuteFacts
  <2>3. TypeOK'
    BY <1>1, <2>1, <2>2 DEF IInv, TypeOK
  <2>4. /\ \A o \in Orgs : TopUpsOwed(o) \in Nat /\ TopUpsOwed(o)' \in Nat
        /\ \A o \in Orgs \ {t.org} : TopUpsOwed(o)' = TopUpsOwed(o)
        /\ t.kind \in Draws => TopUpsOwed(t.org)' >= TopUpsOwed(t.org) - 1
        /\ t.kind \notin Draws => TopUpsOwed(t.org)' = TopUpsOwed(t.org)
    <3>1. \A o \in Orgs : TopUpsOwed(o) \in Nat  BY OwedType DEF IInv
    <3>2. CASE t.kind = "collect"
      <4>1. owed' = owed \ {t.req} /\ handler' = handler  BY <3>2, <2>1, <1>1
      <4>2. /\ \A o : o # t.org => TopUpsOwed(o)' = TopUpsOwed(o)
            /\ TopUpsOwed(t.org)' \in Nat
            /\ TopUpsOwed(t.org)' >= TopUpsOwed(t.org) - 1
        BY <4>1, <1>1, OwedLess DEF IInv
      <4>3. QED  BY <3>1, <3>2, <4>2 DEF Draws
    <3>3. CASE t.kind # "collect"
      <4>1. \A o : TopUpsOwed(o)' = TopUpsOwed(o)  BY <3>3, <2>1, <1>1, OwedSame
      <4>2. QED  BY <3>1, <3>3, <4>1, <1>1
    <3>4. QED  BY <3>2, <3>3
  <2>5. /\ \A o \in Orgs : /\ account[o].balance \in Nat /\ account[o].nonce \in Nat
                           /\ account'[o].balance \in Nat /\ account'[o].nonce \in Nat
    BY <2>2 DEF IInv, TypeOK, Accounts, Account
  <2>6. /\ \A o \in Orgs : account[o].nonce <= account'[o].nonce
        /\ \A o \in Orgs : account[o].exists => account'[o].exists
    BY <2>2, <2>5
  <2>7. /\ \A o \in Orgs : Means(o) \in Nat /\ Means(o)' \in Nat
        /\ \A o \in Orgs \ {t.org} : Means(o)' = Means(o)
        /\ t.kind \in Draws => Means(t.org)' >= Means(t.org) /\ Means(t.org)' >= Multiplier
        /\ t.kind \notin Draws => Means(t.org)' = Means(t.org) - 1
    BY <2>2, <2>4, <2>5, <1>1, AccountNonceConstants DEF Means
  <2>8. Known'
    <3>1. \A r \in owed' : r \in owed  BY <2>1
    <3>2. QED  BY <3>1, <1>1, <2>6 DEF IInv, Known
  <2>9. Aged'
    <3>1. ASSUME NEW r \in Requests, handler[r].pc # "new", handler[r].kind # "create"
          PROVE  handler[r].nonce <= account'[handler[r].org].nonce
      <4>1. /\ handler[r].org \in Orgs
            /\ handler[r].nonce <= account[handler[r].org].nonce /\ handler[r].nonce \in Nat
        BY <3>1 DEF IInv, Known, Aged, TypeOK, Handler
      <4>2. QED  BY <4>1, <2>5, <2>6
    <3>2. ASSUME NEW u \in pool, u.kind \notin Draws
          PROVE  u.nonce <= account'[u.org].nonce
      <4>1. /\ u.org \in Orgs /\ u.nonce \in Nat /\ u.nonce <= account[u.org].nonce
        BY <3>2 DEF IInv, Aged, TypeOK, Tx
      <4>2. QED  BY <4>1, <2>5, <2>6
    <3>3. QED  BY <3>1, <3>2, <1>1 DEF Aged
  <2>10. Kept'
    <3> SUFFICES ASSUME NEW o \in Orgs, account'[o].exists
                 PROVE  Means(o)' >= Threshold - 1
      BY DEF Kept
    <3>1. CASE o # t.org
      BY <3>1, <2>2, <2>7 DEF IInv, Kept
    <3>2. CASE o = t.org /\ t.kind \in Draws
      BY <3>2, <2>7, AccountNonceConstants
    <3>3. CASE o = t.org /\ t.kind \notin Draws
      <4>1. Means(o) >= Threshold
        BY <3>3, <2>2 DEF IInv, Enough
      <4>2. QED  BY <4>1, <3>3, <2>7, AccountNonceConstants
    <3>4. QED  BY <3>1, <3>2, <3>3
  <2>11. ASSUME NEW o \in Orgs, NEW nonce \in Nat, nonce <= account[o].nonce,
                nonce = account'[o].nonce,
                nonce = account[o].nonce => account[o].exists /\ Means(o) >= Threshold
         PROVE  account'[o].exists /\ Means(o)' >= Threshold
    <3>1. CASE o # t.org
      BY <3>1, <2>11, <2>2, <2>7
    <3>2. CASE o = t.org /\ t.kind \in Draws
      BY <3>2, <2>11, <2>2, <2>7, AccountNonceConstants
    <3>3. CASE o = t.org /\ t.kind \notin Draws
      BY <3>3, <2>11, <2>2, <2>5
    <3>4. QED  BY <3>1, <3>2, <3>3
  <2>12. Enough'
    <3>1. ASSUME NEW r \in Requests, NEW o \in Orgs,
                 handler[r].pc = "submit", handler[r].kind # "create",
                 handler[r].org = o, handler[r].nonce = account'[o].nonce
          PROVE  account'[o].exists /\ Means(o)' >= Threshold
      <4>1. /\ handler[r].nonce \in Nat
            /\ handler[r].nonce <= account[o].nonce
            /\ handler[r].nonce = account[o].nonce =>
                 account[o].exists /\ Means(o) >= Threshold
        BY <3>1 DEF IInv, Aged, Enough, TypeOK, Handler
      <4>2. QED  BY <4>1, <3>1, <2>11
    <3>2. ASSUME NEW u \in pool, u.kind \notin Draws, u.nonce = account'[u.org].nonce
          PROVE  account'[u.org].exists /\ Means(u.org)' >= Threshold
      <4>1. /\ u.org \in Orgs /\ u.nonce \in Nat /\ u.nonce <= account[u.org].nonce
            /\ u.nonce = account[u.org].nonce =>
                 account[u.org].exists /\ Means(u.org) >= Threshold
        BY <3>2 DEF IInv, Aged, Enough, TypeOK, Tx
      <4>2. QED  BY <4>1, <3>2, <2>11
    <3>3. QED  BY <3>1, <3>2, <1>1 DEF Enough
  <2>13. QED  BY <2>3, <2>8, <2>9, <2>10, <2>12
<1>4. QED  BY <1>2, <1>3

-----------------------------------------------------------------------------
LEMMA InitInv ==
  ASSUME Init
  PROVE  IInv
<1>1. PICK b \in [Existing -> StartBalances], f \in FaucetBalances :
        account = [a \in Accounts |->
                    [exists |-> a \in Existing \cup {Faucet},
                     balance |-> IF a = Faucet THEN f ELSE
                                 IF a \in Existing THEN b[a] ELSE 0,
                     nonce |-> 0, uri |-> Nil]]
  BY DEF Init
<1>2. account \in [Accounts -> Account]
  <2>1. f \in Nat /\ \A a \in Existing : b[a] \in StartBalances /\ b[a] \in Nat
    BY <1>1, AccountNonceConstants
  <2>2. \A a \in Accounts : account[a] \in Account
    BY <1>1, <2>1 DEF Account
  <2>3. QED  BY <1>1, <2>2
<1>3. TypeOK
  BY <1>2 DEF Init, TypeOK, Handler, Kinds, Row
<1>4. Known /\ Aged /\ Enough
  BY DEF Init, Known, Aged, Enough
<1>5. Kept
  <2> SUFFICES ASSUME NEW o \in Orgs, account[o].exists
               PROVE  Means(o) >= Threshold - 1
    BY DEF Kept
  <2>1. o \in Existing /\ o # Faucet /\ o \in Accounts
    BY <1>1, AccountNonceConstants DEF Accounts
  <2>2. account[o].balance = b[o] /\ b[o] \in StartBalances
    BY <1>1, <2>1
  <2>3. TopUpsOwed(o) \in Nat  BY <1>3, OwedType
  <2>4. account[o].balance \in Nat /\ account[o].balance >= Threshold - 1
    BY <2>2, AccountNonceConstants
  <2>5. QED  BY <2>3, <2>4, AccountNonceConstants DEF Means
<1>6. QED  BY <1>3, <1>4, <1>5 DEF IInv

LEMMA StepInv ==
  ASSUME IInv, [Next]_vars
  PROVE  IInv'
<1>1. ASSUME NEW r \in Requests, Start(r)  PROVE IInv'
  BY <1>1, StartKeeps DEF Start, SetOrganizationMetadata, CreateProcess, SetProcessStatus,
                          Kinds, Metadata, IInv
<1>2. ASSUME NEW r \in Requests, ReadFaucet(r)  PROVE IInv'
  BY <1>2, ReadFaucetKeeps DEF IInv
<1>3. ASSUME NEW r \in Requests, CollectFaucet(r)  PROVE IInv'
  BY <1>3, CollectKeeps DEF IInv
<1>4. ASSUME NEW r \in Requests, Submit(r)  PROVE IInv'
  BY <1>4, MoveKeeps DEF Submit, IInv
<1>5. ASSUME NEW r \in Requests, StoreTx(r)  PROVE IInv'
  BY <1>5, MoveKeeps DEF StoreTx, IInv
<1>6. ASSUME NEW r \in Requests, Stop(r)  PROVE IInv'
  BY <1>6, MoveKeeps DEF Stop, Running, ChainUnchanged, IInv
<1>7. ASSUME NEW r \in Requests, Commit(r)  PROVE IInv'
  BY <1>7, CommitKeeps DEF IInv
<1>8. ASSUME NEW t \in pool, Mine(t)  PROVE IInv'
  BY <1>8, MineKeeps DEF IInv
<1>9. CASE UNCHANGED vars
  <2>1. UNCHANGED <<account, pool, handler, cache, db, failed, owed, contended>>
    BY <1>9 DEF vars
  <2>2. \A o : TopUpsOwed(o)' = TopUpsOwed(o)  BY <2>1, OwedSame
  <2>3. \A o : Means(o)' = Means(o)  BY <2>1, <2>2 DEF Means
  <2>4. QED  BY <2>1, <2>3 DEF IInv, TypeOK, Known, Aged, Kept, Enough
<1>10. QED
  BY <1>1, <1>2, <1>3, <1>4, <1>5, <1>6, <1>7, <1>8, <1>9 DEF Next

(* Accounts, transactions, handlers and rows have their types: neither an  *)
(* organization nor the faucet ever spends what it has not.                *)
THEOREM AccountsTypeCorrect == Spec => []TypeOK
<1>1. IInv => TypeOK  BY DEF IInv
<1>2. QED  BY <1>1, InitInv, StepInv, PTL DEF Spec

(* A transaction with the current nonce finds its tokens unless Threshold  *)
(* top-ups were taken and not credited, for any threshold of the handlers  *)
(* (setOrganizationMetadata, createProcess, setProcessStatus).             *)
THEOREM TransactionsFunded == Spec => []Funded
<1>1. IInv => Funded
  BY DEF IInv, Enough, Funded, Means
<1>2. QED  BY <1>1, InitInv, StepInv, PTL DEF Spec
=============================================================================
