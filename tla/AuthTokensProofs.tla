-------------------------- MODULE AuthTokensProofs --------------------------
(***************************************************************************)
(* What keys open the API, for any number of integrators and keys, losses  *)
(* of the session, failed attempts and crashes, in both orders of the      *)
(* start.  The queue of notifications is read position by position: a key  *)
(* that the queue will register is current, or something later in the      *)
(* queue takes it back, or its revocation was lost.                        *)
(***************************************************************************)
EXTENDS AuthTokens, SqlStoreProofs, TLAPS

Queue == 1..Len(notifications)
Queues(k, ops) == \E m \in Queue : notifications[m].op \in ops /\ notifications[m].key = k

(* What the listener may have missed: nothing, if it listens before the    *)
(* keys are listed and never lost its session.                             *)
Lost == IF listenFirst /\ disconnects = 0 THEN {} ELSE missed
Excused == CurrentKeys \cup Lost \cup replaced

Listed ==
  phase \in {"syncing", "serving", "running"} \/ (phase = "connecting" /\ ~listenFirst)

(* Before it lists or listens, the process knows nothing.                  *)
Quiet ==
  /\ phase = "down" \/ (phase = "connecting" /\ listenFirst) =>
       registered = {} /\ notifications = <<>>
  /\ phase \in {"down", "connecting"} \/ (~listenFirst /\ phase # "running") => ~subscribed
  /\ phase # "syncing" => unsynced = {}
  /\ listenFirst /\ disconnects = 0 /\ ~subscribed => phase \in {"down", "connecting"}

(* Keys that were announced were used, and are used once.                  *)
Fresh ==
  /\ CurrentKeys \subseteq usedKeys
  /\ \A m \in Queue : notifications[m].key \in usedKeys

DeletedGone ==
  \A m \in Queue : notifications[m].op = "DELETE" => notifications[m].key \notin CurrentKeys

Open ==
  Listed => \A k \in CurrentKeys :
              k \in registered \cup unsynced \cup Lost \/ Queues(k, {"INSERT", "UPDATE"})

Stale ==
  \A k \in (registered \cap Keys) \cup unsynced : k \in Excused \/ Queues(k, {"DELETE"})

StaleQueue ==
  \A m \in Queue :
    \/ notifications[m].op = "DELETE"
    \/ notifications[m].key \in Excused
    \/ \E n \in Queue : /\ n > m
                        /\ notifications[n].op = "DELETE"
                        /\ notifications[n].key = notifications[m].key

QueueInv == Quiet /\ Fresh /\ DeletedGone /\ Open /\ Stale /\ StaleQueue
IInv == TypeOK /\ SqlIntegrity /\ QueueInv

(* An appended notification leaves the positions before it as they are.    *)
LEMMA AppendFacts ==
  ASSUME NEW q \in Seq(Notification), NEW n \in Notification
  PROVE  /\ Append(q, n) \in Seq(Notification)
         /\ Len(Append(q, n)) = Len(q) + 1
         /\ \A m \in 1..Len(q) : Append(q, n)[m] = q[m]
         /\ Append(q, n)[Len(q) + 1] = n
  OBVIOUS

(* The tail of a queue is the queue moved by one position.                 *)
LEMMA TailFacts ==
  ASSUME NEW q \in Seq(Notification), q # <<>>
  PROVE  /\ Tail(q) \in Seq(Notification)
         /\ Len(q) \in Nat /\ Len(q) > 0
         /\ Len(Tail(q)) = Len(q) - 1
         /\ \A m \in 1..Len(q) - 1 : Tail(q)[m] = q[m + 1]
         /\ Head(q) = q[1]
         /\ Head(q) \in Notification
  OBVIOUS

LEMMA PrefixFacts ==
  ASSUME NEW q \in Seq(Notification), NEW n \in 0..Len(q)
  PROVE  /\ SubSeq(q, 1, n) \in Seq(Notification)
         /\ Len(SubSeq(q, 1, n)) = n
         /\ \A m \in 1..n : SubSeq(q, 1, n)[m] = q[m]
  OBVIOUS

LEMMA ElementFacts ==
  ASSUME NEW q \in Seq(Notification), NEW m \in 1..Len(q)
  PROVE  q[m] \in Notification /\ q[m].key \in Keys
                /\ q[m].op \in {"INSERT", "UPDATE", "DELETE"}
<1>1. q[m] \in Notification  OBVIOUS
<1>2. QED  BY <1>1 DEF Notification

-----------------------------------------------------------------------------
(* A statement on integrators, seen from the queue: one key is announced,  *)
(* a deletion takes it from the table, anything else leaves it there, and  *)
(* whatever else goes was replaced.                                        *)
LEMMA StatementQueue ==
  ASSUME TypeOK, QueueInv, NEW op \in {"INSERT", "UPDATE", "DELETE"}, NEW key \in Keys,
         Notify(op, key), StatementUnchanged,
         CurrentKeys' \subseteq CurrentKeys \cup {key},
         op # "DELETE" => key \in CurrentKeys',
         op = "DELETE" => key \notin CurrentKeys',
         key \in CurrentKeys' => key \in CurrentKeys \/ key \notin usedKeys,
         phase # "down" =>
           \A k \in CurrentKeys : k \in CurrentKeys' \/ k \in replaced'
                                  \/ (op = "DELETE" /\ k = key),
         replaced \subseteq replaced', usedKeys \subseteq usedKeys', key \in usedKeys'
  PROVE  QueueInv'
<1> DEFINE n == [op |-> op, key |-> key]
<1>a. n \in Notification /\ notifications \in Seq(Notification)
  BY DEF Notification, TypeOK
<1>b. \/ /\ subscribed
         /\ notifications' = Append(notifications, n)
         /\ missed' = missed
      \/ /\ ~subscribed
         /\ notifications' = notifications
         /\ missed' = IF phase = "down" THEN missed ELSE missed \cup {key}
  <2>1. subscribed \in BOOLEAN  BY DEF TypeOK
  <2>2. QED  BY <2>1 DEF Notify
<1>c. UNCHANGED <<listenFirst, phase, unsynced, registered, subscribed, disconnects>>
  BY DEF StatementUnchanged, startVars, bounds
<1>d. Lost \subseteq Lost' /\ (~subscribed /\ Listed => key \in Lost')
  BY <1>b, <1>c DEF Lost, Listed, QueueInv, Quiet
<1>e. /\ Len(notifications) \in Nat
      /\ \A m \in Queue : m \in Queue' /\ notifications'[m] = notifications[m]
      /\ subscribed => /\ Len(notifications') = Len(notifications) + 1
                       /\ notifications'[Len(notifications) + 1] = n
      /\ ~subscribed => Queue' = Queue
      /\ \A m \in Queue' : m \in Queue \/ (subscribed /\ m = Len(notifications) + 1)
  BY <1>a, <1>b, AppendFacts DEF Queue
<1>f. \A m \in Queue : notifications[m].key \in Keys
                      /\ notifications[m].op \in {"INSERT", "UPDATE", "DELETE"}
  BY <1>a, ElementFacts DEF Queue
<1>g. \A k, ops : Queues(k, ops) => Queues(k, ops)'
  BY <1>e DEF Queues
<1>h. subscribed => Queues(key, {op})'
  <2> SUFFICES ASSUME subscribed PROVE Queues(key, {op})'
    OBVIOUS
  <2>1. Len(notifications) + 1 \in Queue'
    BY <1>e DEF Queue
  <2>2. notifications'[Len(notifications) + 1].op = op
        /\ notifications'[Len(notifications) + 1].key = key
    BY <1>e
  <2>3. QED  BY <2>1, <2>2 DEF Queues
<1>i. ~subscribed => notifications' = notifications
  BY <1>b
<1>1. Quiet'
  BY <1>b, <1>c DEF QueueInv, Quiet
<1>2. Fresh'
  BY <1>e DEF QueueInv, Fresh
<1>3. DeletedGone'
  BY <1>e, <1>f DEF QueueInv, DeletedGone, Fresh
<1>4. Open'
  <2> SUFFICES ASSUME Listed, NEW k \in CurrentKeys'
               PROVE  \/ k \in registered \cup unsynced \cup Lost'
                      \/ Queues(k, {"INSERT", "UPDATE"})'
    BY <1>c DEF Open, Listed
  <2>1. CASE k = key
    <3>1. op \in {"INSERT", "UPDATE"}  BY <2>1
    <3>2. Queues(key, {op})' => Queues(key, {"INSERT", "UPDATE"})'
      BY <3>1 DEF Queues
    <3>3. QED  BY <2>1, <3>2, <1>d, <1>h
  <2>2. CASE k # key
    BY <2>2, <1>d, <1>g DEF QueueInv, Open
  <2>3. QED  BY <2>1, <2>2
<1>5. CASE phase = "down"
  BY <1>1, <1>2, <1>3, <1>4, <1>5, <1>c
     DEF QueueInv, Quiet, Stale, StaleQueue, Queue
<1>6. CASE phase = "connecting" /\ listenFirst
  BY <1>1, <1>2, <1>3, <1>4, <1>6, <1>c
     DEF QueueInv, Quiet, Stale, StaleQueue, Queue
<1>7. CASE phase # "down" /\ ~(phase = "connecting" /\ listenFirst)
  <2>0. ~subscribed => key \in Lost'
    BY <1>7, <1>b, <1>c DEF Lost, QueueInv, Quiet
  <2>1. \A k \in Excused : k \in Excused' \/ (op = "DELETE" /\ k = key)
    BY <1>7, <1>d DEF Excused
  <2>2. op = "DELETE" => key \in Excused' \/ Queues(key, {"DELETE"})'
    BY <2>0, <1>h DEF Excused
  <2>3. Stale'
    <3> SUFFICES ASSUME NEW k \in (registered \cap Keys) \cup unsynced
                 PROVE  k \in Excused' \/ Queues(k, {"DELETE"})'
      BY <1>c DEF Stale
    <3>1. k \in Excused \/ Queues(k, {"DELETE"})
      BY DEF QueueInv, Stale
    <3>2. QED  BY <3>1, <2>1, <2>2, <1>g
  <2>4. StaleQueue'
    <3> SUFFICES ASSUME NEW m \in Queue', notifications'[m].op # "DELETE",
                        notifications'[m].key \notin Excused'
                 PROVE  \E l \in Queue' : /\ l > m
                                          /\ notifications'[l].op = "DELETE"
                                          /\ notifications'[l].key = notifications'[m].key
      BY DEF StaleQueue
    <3>1. CASE m \in Queue
      <4>1. CASE notifications[m].key \in Excused
        <5>1. op = "DELETE" /\ notifications[m].key = key
          BY <4>1, <3>1, <2>1, <1>e
        <5>2. subscribed
          BY <5>1, <2>0, <3>1, <1>e DEF Excused
        <5>3. Len(notifications) + 1 \in Queue' /\ Len(notifications) + 1 > m
          BY <5>2, <3>1, <1>e DEF Queue
        <5>4. QED  BY <5>1, <5>2, <5>3, <3>1, <1>e
      <4>2. CASE notifications[m].key \notin Excused
        <5>1. PICK l \in Queue : /\ l > m
                                 /\ notifications[l].op = "DELETE"
                                 /\ notifications[l].key = notifications[m].key
          BY <4>2, <3>1, <1>e DEF QueueInv, StaleQueue
        <5>2. QED  BY <5>1, <3>1, <1>e
      <4>3. QED  BY <4>1, <4>2
    <3>2. CASE m \notin Queue
      <4>1. subscribed /\ notifications'[m] = n
        BY <3>2, <1>e
      <4>2. QED  BY <4>1 DEF Excused
    <3>3. QED  BY <3>1, <3>2
  <2>5. QED  BY <1>1, <1>2, <1>3, <1>4, <2>3, <2>4 DEF QueueInv
<1>8. QED  BY <1>5, <1>6, <1>7

(* The four statements are such statements.                                *)
LEMMA InsertQueue ==
  ASSUME IInv, NEW id \in Ids, NEW k \in Keys, NEW email \in Emails,
         NEW profile \in Profiles, InsertIntegrator(id, k, email, profile)
  PROVE  QueueInv'
<1> DEFINE new == [id |-> id, key |-> k, email |-> email, profile |-> profile]
<1>0. integrators' = integrators \cup {new} /\ new.key = k
  BY DEF InsertIntegrator, CreateIntegrator
<1> HIDE DEF new
<1>1. CurrentKeys' = CurrentKeys \cup {k}
  BY <1>0 DEF CurrentKeys
<1>2. QED  BY <1>1, StatementQueue DEF IInv, InsertIntegrator

LEMMA ProfileQueue ==
  ASSUME IInv, NEW id \in Ids, NEW profile \in Profiles, ChangeProfile(id, profile)
  PROVE  QueueInv'
<1>1. PICK i \in integrators : /\ i.id = id
                               /\ UpdateIntegrator(id, profile)
                               /\ Notify("UPDATE", i.key)
                               /\ UNCHANGED <<usedKeys, replaced>>
                               /\ StatementUnchanged
  BY DEF ChangeProfile
<1> DEFINE Row(j) == IF j.id = id THEN [j EXCEPT !.profile = Coalesce(profile, j.profile)]
                                  ELSE j
<1>2. \A j \in integrators : Row(j).key = j.key
  BY DEF IInv, TypeOK, SqlTypeOK, IntegratorRow
<1>a. integrators' = {Row(j) : j \in integrators}
  BY <1>1 DEF UpdateIntegrator
<1> HIDE DEF Row
<1>b. /\ \A j \in integrators' : \E h \in integrators : j = Row(h)
      /\ \A h \in integrators : Row(h) \in integrators'
  BY <1>a
<1>3. CurrentKeys' = CurrentKeys
  <2>1. \A k : (\E j \in integrators' : k = j.key) <=> (\E j \in integrators : k = j.key)
    BY <1>2, <1>b
  <2>2. QED  BY <2>1 DEF CurrentKeys
<1>4. i.key \in CurrentKeys /\ i.key \in Keys /\ i.key \in usedKeys
  BY DEF IInv, TypeOK, SqlTypeOK, IntegratorRow, CurrentKeys, QueueInv, Fresh
<1>5. QED  BY <1>1, <1>3, <1>4, StatementQueue DEF IInv

LEMMA ResetQueue ==
  ASSUME IInv, NEW id \in Ids, NEW k \in Keys, ResetKey(id, k)
  PROVE  QueueInv'
<1>1. PICK i \in integrators :
        /\ i.id = id
        /\ k \notin usedKeys
        /\ UpdateIntegratorApiKey(id, k)
        /\ Notify("UPDATE", k)
        /\ usedKeys' = usedKeys \cup {k}
        /\ replaced' = IF phase = "down" THEN replaced ELSE replaced \cup {i.key}
        /\ StatementUnchanged
  BY DEF ResetKey
<1>2. PICK j \in integrators : j.id = id
        /\ integrators' = (integrators \ {j}) \cup {[j EXCEPT !.key = k]}
  BY <1>1 DEF UpdateIntegratorApiKey
<1>3. j = i
  BY <1>1, <1>2 DEF IInv, SqlIntegrity, UniqueKeys
<1>4. [i EXCEPT !.key = k].key = k
  BY DEF IInv, TypeOK, SqlTypeOK, IntegratorRow
<1>5. /\ CurrentKeys' \subseteq CurrentKeys \cup {k} /\ k \in CurrentKeys'
      /\ CurrentKeys \subseteq CurrentKeys' \cup {i.key}
  BY <1>2, <1>3, <1>4 DEF CurrentKeys
<1>6. QED  BY <1>1, <1>5, StatementQueue DEF IInv

LEMMA RemoveQueue ==
  ASSUME IInv, NEW id \in Ids, RemoveIntegrator(id)
  PROVE  QueueInv'
<1>1. PICK i \in integrators : /\ i.id = id
                               /\ DeleteIntegrator(id)
                               /\ Notify("DELETE", i.key)
                               /\ UNCHANGED <<usedKeys, replaced>>
                               /\ StatementUnchanged
  BY DEF RemoveIntegrator
<1>2. PICK j \in integrators : j.id = id /\ integrators' = integrators \ {j}
  BY <1>1 DEF DeleteIntegrator
<1>3. j = i
  BY <1>1, <1>2 DEF IInv, SqlIntegrity, UniqueKeys
<1>4. /\ CurrentKeys' = CurrentKeys \ {i.key}
      /\ i.key \in usedKeys /\ i.key \in Keys
  BY <1>2, <1>3 DEF CurrentKeys, IInv, SqlIntegrity, UniqueKeys, QueueInv, Fresh, TypeOK,
                    SqlTypeOK, IntegratorRow
<1>5. QED  BY <1>1, <1>4, StatementQueue DEF IInv

-----------------------------------------------------------------------------
(* The process and its listener.                                           *)

(* What a step that leaves the rows and the queue alone has to show.       *)
LEMMA StartQueue ==
  ASSUME IInv, Start
  PROVE  QueueInv'
<1>0. UNCHANGED <<integrators, organizations, listenFirst, usedKeys, replaced, disconnects,
                  missed, notifications>>
  BY DEF Start, NewNotifier, Listen, ListKeys, SyncKey, EndSync, StartUnchanged, sqlVars,
         bounds, listenerVars
<1>1. /\ CurrentKeys' = CurrentKeys /\ Lost' = Lost /\ Excused' = Excused /\ Queue' = Queue
      /\ \A k, ops : Queues(k, ops)' = Queues(k, ops)
  BY <1>0 DEF CurrentKeys, Lost, Excused, Queue, Queues
<1>2. Fresh' /\ DeletedGone' /\ StaleQueue'
  BY <1>0, <1>1 DEF IInv, QueueInv, Fresh, DeletedGone, StaleQueue
<1>3. listenFirst \in BOOLEAN /\ subscribed \in BOOLEAN
  BY DEF IInv, TypeOK
<1> USE DEF IInv, QueueInv
<1>4. CASE NewNotifier
  <2>1. UNCHANGED <<unsynced, registered, subscribed>> /\ phase' = "connecting"
        /\ phase = IF listenFirst THEN "down" ELSE "serving"
    BY <1>4 DEF NewNotifier, listenerVars
  <2>2. Quiet'  BY <2>1, <1>0, <1>3 DEF Quiet
  <2>3. Open'   BY <2>1, <1>0, <1>1, <1>3 DEF Open, Listed
  <2>4. Stale'  BY <2>1, <1>1 DEF Stale
  <2>5. QED  BY <2>2, <2>3, <2>4, <1>2
<1>5. CASE Listen
  <2>1. UNCHANGED <<unsynced, registered>> /\ subscribed' = TRUE /\ phase = "connecting"
        /\ phase' = IF listenFirst THEN "listening" ELSE "running"
    BY <1>5 DEF Listen
  <2>2. Quiet'  BY <2>1, <1>0, <1>3 DEF Quiet
  <2>3. Open'   BY <2>1, <1>0, <1>1, <1>3 DEF Open, Listed
  <2>4. Stale'  BY <2>1, <1>1 DEF Stale
  <2>5. QED  BY <2>2, <2>3, <2>4, <1>2
<1>6. CASE ListKeys
  <2>1. /\ phase = IF listenFirst THEN "listening" ELSE "down"
        /\ phase' = "syncing" /\ unsynced' = CurrentKeys
        /\ UNCHANGED <<registered, subscribed>>
    BY <1>6 DEF ListKeys, listenerVars
  <2>2. Quiet'  BY <2>1, <1>0, <1>3 DEF Quiet
  <2>3. Open'   BY <2>1, <1>0, <1>1 DEF Open, Listed
  <2>4. Stale'  BY <2>1, <1>1 DEF Stale, Excused
  <2>5. QED  BY <2>2, <2>3, <2>4, <1>2
<1>7. ASSUME NEW k \in Keys, SyncKey(k) PROVE QueueInv'
  <2>1. /\ phase = "syncing" /\ k \in unsynced /\ unsynced' = unsynced \ {k}
        /\ registered' = registered \cup {k} \cup {o.token : o \in ListOrganizations(k)}
        /\ UNCHANGED <<phase, subscribed>>
    BY <1>7 DEF SyncKey, listenerVars
  <2>2. {o.token : o \in ListOrganizations(k)} \cap Keys = {}
    BY AuthTokensConstants DEF TypeOK, SqlTypeOK, OrganizationRow, ListOrganizations
  <2>3. Quiet'  BY <2>1, <1>0 DEF Quiet
  <2>4. Open'
    <3> SUFFICES ASSUME NEW c \in CurrentKeys
                 PROVE  c \in (registered \cup unsynced \cup Lost)'
                        \/ Queues(c, {"INSERT", "UPDATE"})'
      BY <1>1 DEF Open
    <3>1. QED  BY <2>1, <1>1 DEF Open, Listed
  <2>5. (registered \cap Keys)' \cup unsynced' = (registered \cap Keys) \cup unsynced
    <3>1. unsynced \subseteq Keys  BY DEF TypeOK
    <3>2. QED  BY <3>1, <2>1, <2>2
  <2>6. Stale'  BY <2>5, <1>1 DEF Stale
  <2>7. QED  BY <2>3, <2>4, <2>6, <1>2
<1>8. CASE EndSync
  <2>1. /\ phase = "syncing" /\ unsynced = {}
        /\ phase' = IF listenFirst THEN "running" ELSE "serving"
        /\ UNCHANGED <<unsynced, registered, subscribed>>
    BY <1>8 DEF EndSync, listenerVars
  <2>2. Quiet'  BY <2>1, <1>0, <1>3 DEF Quiet
  <2>3. Open'   BY <2>1, <1>0, <1>1, <1>3 DEF Open, Listed
  <2>4. Stale'  BY <2>1, <1>1 DEF Stale
  <2>5. QED  BY <2>2, <2>3, <2>4, <1>2
<1>9. QED  BY <1>4, <1>5, <1>6, <1>7, <1>8 DEF Start

(* A notification that is applied was the oldest: what it registers is     *)
(* explained by the rest of the queue, what it revokes is nobody's.        *)
LEMMA FetchQueue ==
  ASSUME IInv, FetchNewToken
  PROVE  QueueInv'
<1> DEFINE n == Head(notifications)
<1>0. /\ phase = "running" /\ notifications # <<>> /\ notifications' = Tail(notifications)
      /\ registered' = IF n.op = "DELETE" THEN registered \ {n.key}
                                          ELSE registered \cup {n.key}
      /\ UNCHANGED <<integrators, listenFirst, phase, unsynced, subscribed, usedKeys, replaced,
                     missed, disconnects>>
  BY DEF FetchNewToken, sqlVars, startVars, historyVars, bounds
<1>1. /\ CurrentKeys' = CurrentKeys /\ Lost' = Lost /\ Excused' = Excused
  BY <1>0 DEF CurrentKeys, Lost, Excused
<1>2. notifications \in Seq(Notification)  BY DEF IInv, TypeOK
<1>3. /\ Len(notifications) \in Nat /\ Len(notifications) > 0
      /\ \A m \in Queue' : m + 1 \in Queue /\ notifications'[m] = notifications[m + 1]
      /\ \A m \in Queue :
           m = 1 \/ (m - 1 \in Queue' /\ notifications'[m - 1] = notifications[m])
      /\ 1 \in Queue /\ n = notifications[1] /\ Queue \subseteq Nat /\ Queue' \subseteq Nat
  <2> DEFINE q == notifications
             t == notifications'
             len == Len(notifications)
  <2>1. /\ len \in Nat /\ len > 0 /\ Len(t) = len - 1
        /\ \A m \in 1..len - 1 : t[m] = q[m + 1]
        /\ n = q[1]
    BY <1>0, <1>2, TailFacts
  <2>2. Queue = 1..len /\ Queue' = 1..len - 1
    BY <2>1 DEF Queue
  <2> HIDE DEF q, t, len
  <2>3. /\ \A m \in 1..len - 1 : m + 1 \in 1..len /\ t[m] = q[m + 1]
        /\ \A m \in 1..len : m = 1 \/ (m - 1 \in 1..len - 1 /\ (m - 1) + 1 = m)
        /\ 1 \in 1..len
    BY <2>1
  <2>4. \A m \in 1..len : m = 1 \/ (m - 1 \in 1..len - 1 /\ t[m - 1] = q[m])
    BY <2>3
  <2>5. QED  BY <2>1, <2>2, <2>3, <2>4 DEF q, t, len
<1>4. \A k, ops : Queues(k, ops) => Queues(k, ops)' \/ (n.key = k /\ n.op \in ops)
  BY <1>3 DEF Queues
<1>5. n.op \in {"INSERT", "UPDATE", "DELETE"} /\ n.key \in Keys
  BY <1>2, <1>3, ElementFacts DEF Queue
<1> USE DEF IInv, QueueInv
<1>6. Quiet'  BY <1>0 DEF Quiet
<1>7. Fresh'  BY <1>0, <1>1, <1>3 DEF Fresh
<1>8. DeletedGone'  BY <1>1, <1>3 DEF DeletedGone
<1>9. Open'
  <2> SUFFICES ASSUME NEW k \in CurrentKeys
               PROVE  k \in (registered \cup unsynced \cup Lost)'
                      \/ Queues(k, {"INSERT", "UPDATE"})'
    BY <1>1 DEF Open
  <2>1. k \in registered \cup unsynced \cup Lost \/ Queues(k, {"INSERT", "UPDATE"})
    BY <1>0 DEF Open, Listed
  <2>2. n.op = "DELETE" => n.key # k
    BY <1>3 DEF DeletedGone
  <2>3. QED  BY <2>1, <2>2, <1>0, <1>1, <1>4, <1>5
<1>10. Stale'
  <2> SUFFICES ASSUME NEW k \in (registered' \cap Keys) \cup unsynced'
               PROVE  k \in Excused \/ Queues(k, {"DELETE"})'
    BY <1>1 DEF Stale
  <2>1. CASE n.op # "DELETE" /\ k = n.key
    <3>1. CASE k \in Excused  BY <3>1
    <3>2. CASE k \notin Excused
      <4>1. PICK l \in Queue : l > 1 /\ notifications[l].op = "DELETE"
                               /\ notifications[l].key = k
        BY <2>1, <3>2, <1>3 DEF StaleQueue
      <4>2. l - 1 \in Queue' /\ notifications'[l - 1] = notifications[l]
        BY <4>1, <1>3
      <4>3. QED  BY <4>1, <4>2 DEF Queues
    <3>3. QED  BY <3>1, <3>2
  <2>2. CASE ~(n.op # "DELETE" /\ k = n.key)
    <3>1. k \in (registered \cap Keys) \cup unsynced /\ (n.op = "DELETE" => k # n.key)
      <4>1. unsynced = {}  BY <1>0 DEF Quiet
      <4>2. QED  BY <4>1, <2>2, <1>0
    <3>2. QED  BY <3>1, <1>4 DEF Stale
  <2>3. QED  BY <2>1, <2>2
<1>11. StaleQueue'
  <2> SUFFICES ASSUME NEW m \in Queue', notifications'[m].op # "DELETE",
                      notifications'[m].key \notin Excused
               PROVE  \E l \in Queue' : /\ l > m
                                        /\ notifications'[l].op = "DELETE"
                                        /\ notifications'[l].key = notifications'[m].key
    BY <1>1 DEF StaleQueue
  <2>1. PICK l \in Queue : /\ l > m + 1 /\ notifications[l].op = "DELETE"
                           /\ notifications[l].key = notifications[m + 1].key
    BY <1>3 DEF StaleQueue
  <2>2. l - 1 \in Queue' /\ notifications'[l - 1] = notifications[l] /\ l - 1 > m
    BY <2>1, <1>3
  <2>3. QED  BY <2>1, <2>2, <1>3
<1>12. QED  BY <1>6, <1>7, <1>8, <1>9, <1>10, <1>11

(* A lost session: what is cut off the queue is recorded as missed.        *)
LEMMA DisconnectQueue ==
  ASSUME IInv, Disconnect
  PROVE  QueueInv'
<1>0. /\ subscribed /\ ~subscribed'
      /\ disconnects' = disconnects + 1 /\ disconnects \in Nat
      /\ UNCHANGED <<integrators, listenFirst, phase, unsynced, registered, usedKeys, replaced>>
  BY DEF Disconnect, sqlVars, startVars, IInv, TypeOK
<1>1. PICK c \in 0..Len(notifications) :
        /\ notifications' = SubSeq(notifications, 1, c)
        /\ missed' = missed \cup {notifications[m].key : m \in c + 1..Len(notifications)}
  BY DEF Disconnect
<1>2. notifications \in Seq(Notification)  BY DEF IInv, TypeOK
<1>3. /\ Len(notifications) \in Nat
      /\ \A m \in Queue' : m \in Queue /\ notifications'[m] = notifications[m]
      /\ \A m \in Queue : m \in Queue' \/ notifications[m].key \in missed'
      /\ Queue \subseteq Nat
  BY <1>1, <1>2, PrefixFacts DEF Queue
<1>4. CurrentKeys' = CurrentKeys /\ Lost' = missed' /\ Lost \subseteq Lost'
      /\ Excused \subseteq Excused'
  BY <1>0, <1>1 DEF CurrentKeys, Lost, Excused
<1>5. \A k, ops : Queues(k, ops) => Queues(k, ops)' \/ k \in Lost'
  BY <1>3, <1>4 DEF Queues
<1> USE DEF IInv, QueueInv
<1>6. Quiet'  BY <1>0, <1>1 DEF Quiet
<1>7. Fresh' /\ DeletedGone'  BY <1>0, <1>3, <1>4 DEF Fresh, DeletedGone
<1>8. Open'
  <2> SUFFICES ASSUME Listed, NEW k \in CurrentKeys
               PROVE  k \in (registered \cup unsynced \cup Lost)'
                      \/ Queues(k, {"INSERT", "UPDATE"})'
    BY <1>0, <1>4 DEF Open, Listed
  <2>1. QED  BY <1>0, <1>4, <1>5 DEF Open
<1>9. Stale'
  <2> SUFFICES ASSUME NEW k \in (registered \cap Keys) \cup unsynced
               PROVE  k \in Excused' \/ Queues(k, {"DELETE"})'
    BY <1>0 DEF Stale
  <2>1. Lost' \subseteq Excused'  BY DEF Excused
  <2>2. QED  BY <2>1, <1>4, <1>5 DEF Stale
<1>10. StaleQueue'
  <2> SUFFICES ASSUME NEW m \in Queue', notifications'[m].op # "DELETE",
                      notifications'[m].key \notin Excused'
               PROVE  \E l \in Queue' : /\ l > m
                                        /\ notifications'[l].op = "DELETE"
                                        /\ notifications'[l].key = notifications'[m].key
    BY DEF StaleQueue
  <2>1. PICK l \in Queue : /\ l > m /\ notifications[l].op = "DELETE"
                           /\ notifications[l].key = notifications[m].key
    BY <1>3, <1>4 DEF StaleQueue
  <2>2. l \in Queue'  BY <2>1, <1>3, <1>4 DEF Excused
  <2>3. QED  BY <2>1, <2>2, <1>3
<1>11. QED  BY <1>6, <1>7, <1>8, <1>9, <1>10

(* The steps that leave the rows, the queue and what the router knows.     *)
LEMMA QuietSteps ==
  ASSUME IInv,
         UNCHANGED <<integrators, listenFirst, phase, unsynced, registered, notifications,
                     usedKeys, replaced, missed, disconnects>>,
         subscribed' = subscribed
           \/ (subscribed' = TRUE /\ phase # "connecting" /\ HasListener)
  PROVE  QueueInv'
<1>1. /\ CurrentKeys' = CurrentKeys /\ Lost' = Lost /\ Excused' = Excused /\ Queue' = Queue
      /\ \A k, ops : Queues(k, ops)' = Queues(k, ops)
  BY DEF CurrentKeys, Lost, Excused, Queue, Queues
<1>2. Fresh' /\ DeletedGone' /\ StaleQueue'
  BY <1>1 DEF IInv, QueueInv, Fresh, DeletedGone, StaleQueue
<1>3. Open' /\ Stale'
  BY <1>1 DEF IInv, QueueInv, Open, Listed, Stale
<1>4. Quiet'
  BY DEF IInv, QueueInv, Quiet, HasListener
<1>5. QED  BY <1>2, <1>3, <1>4 DEF QueueInv

LEMMA CrashQueue ==
  ASSUME IInv, Crash
  PROVE  QueueInv'
<1>1. /\ phase' = "down" /\ unsynced' = {} /\ registered' = {} /\ subscribed' = FALSE
      /\ notifications' = <<>>
      /\ UNCHANGED <<integrators, usedKeys>>
  BY DEF Crash, sqlVars
<1>2. Queue' = {}  BY <1>1 DEF Queue
<1>3. Quiet' /\ Open' /\ Stale'
  BY <1>1 DEF Quiet, Open, Listed, Stale
<1>4. Fresh' /\ DeletedGone' /\ StaleQueue'
  BY <1>1, <1>2 DEF IInv, QueueInv, Fresh, CurrentKeys, DeletedGone, StaleQueue
<1>5. QED  BY <1>3, <1>4 DEF QueueInv

-----------------------------------------------------------------------------
(* The rows change by statements only.                                     *)
LEMMA RowsStep ==
  ASSUME IInv, [Next]_vars
  PROVE  SqlTypeOK' /\ SqlIntegrity'
<1> USE DEF IInv, TypeOK
<1>1. CASE IntegratorChange
  <2>1. IntegratorStatement
    BY <1>1 DEF IntegratorChange, IntegratorStatement, InsertIntegrator, ChangeProfile,
                ResetKey, RemoveIntegrator
  <2>2. QED  BY <2>1, IntegratorIntegrity
<1>2. CASE ChangeOrganization
  BY <1>2, OrganizationIntegrity DEF ChangeOrganization
<1>3. CASE UNCHANGED sqlVars
  BY <1>3 DEF sqlVars, SqlTypeOK, SqlIntegrity, UniqueKeys, OneIntegratorPerOrganization,
              NoDanglingElection, NoDanglingPlan
<1>4. CASE ~IntegratorChange /\ ~ChangeOrganization
  <2>1. UNCHANGED sqlVars
    BY <1>4 DEF Next, vars, Start, NewNotifier, Listen, ListKeys, SyncKey, EndSync,
                StartUnchanged, FetchNewToken, LogFailure, AttemptFails, Disconnect,
                Reconnect, Crash
  <2>2. QED  BY <2>1, <1>3
<1>5. QED  BY <1>1, <1>2, <1>4

(* What a statement's notification leaves in the queue.                    *)
LEMMA NotifyType ==
  ASSUME TypeOK, NEW op \in {"INSERT", "UPDATE", "DELETE"}, NEW key \in Keys,
         Notify(op, key)
  PROVE  notifications' \in Seq(Notification) /\ missed' \subseteq Keys
<1>1. [op |-> op, key |-> key] \in Notification /\ notifications \in Seq(Notification)
      /\ missed \subseteq Keys
  BY DEF Notification, TypeOK
<1>2. QED  BY <1>1, AppendFacts DEF Notify

LEMMA TypeStep ==
  ASSUME IInv, [Next]_vars
  PROVE  TypeOK'
<1>0. SqlTypeOK'  BY RowsStep
<1>a. /\ FailedCapacity = 2
      /\ \A i \in integrators : i.key \in Keys
  BY DEF FailedCapacity, IInv, TypeOK, SqlTypeOK, IntegratorRow
<1>b. \A i \in integrators : i.key \in CurrentKeys  BY DEF CurrentKeys
<1>1. CASE IntegratorChange
  <2>1. UNCHANGED <<listenFirst, phase, unsynced, registered, subscribed, failed, sending,
                    attempts, disconnects, crashes>>
    BY <1>1 DEF IntegratorChange, InsertIntegrator, ChangeProfile, ResetKey,
                RemoveIntegrator, StatementUnchanged, startVars, failureVars, bounds
  <2>2. usedKeys' \subseteq Keys /\ replaced' \subseteq Keys
    BY <1>1, <1>a DEF IntegratorChange, InsertIntegrator, ChangeProfile, ResetKey,
                      RemoveIntegrator, IInv, TypeOK
  <2>3. \E op \in {"INSERT", "UPDATE", "DELETE"}, key \in Keys : Notify(op, key)
    BY <1>1, <1>a DEF IntegratorChange, InsertIntegrator, ChangeProfile, ResetKey,
                      RemoveIntegrator
  <2>4. notifications' \in Seq(Notification) /\ missed' \subseteq Keys
    BY <2>3, NotifyType DEF IInv
  <2>5. QED  BY <1>0, <2>1, <2>2, <2>4 DEF IInv, TypeOK
<1>2. CASE ChangeOrganization
  BY <1>2, <1>0 DEF ChangeOrganization, StatementUnchanged, startVars, failureVars, bounds,
                    listenerVars, historyVars, IInv, TypeOK
<1>3. CASE Start
  <2>1. UNCHANGED <<listenFirst, usedKeys, replaced, disconnects, crashes, notifications,
                    failed, sending, attempts, missed>>
    BY <1>3 DEF Start, NewNotifier, Listen, ListKeys, SyncKey, EndSync, StartUnchanged,
                listenerVars, failureVars, bounds
  <2>2. /\ phase' \in {"down", "connecting", "listening", "syncing", "serving", "running"}
        /\ subscribed' \in BOOLEAN
    BY <1>3 DEF Start, NewNotifier, Listen, ListKeys, SyncKey, EndSync, listenerVars, IInv,
                TypeOK
  <2>3. unsynced' \subseteq Keys
    BY <1>3, <1>a DEF Start, NewNotifier, Listen, ListKeys, SyncKey, EndSync, IInv, TypeOK,
                      CurrentKeys
  <2>4. \A k : {o.token : o \in ListOrganizations(k)} \subseteq Tokens
    BY DEF ListOrganizations, IInv, TypeOK, SqlTypeOK, OrganizationRow
  <2>5. registered' \subseteq Keys \cup Tokens
    BY <1>3, <2>4 DEF Start, NewNotifier, Listen, ListKeys, SyncKey, EndSync, IInv, TypeOK
  <2>6. QED  BY <1>0, <2>1, <2>2, <2>3, <2>5 DEF IInv, TypeOK
<1>4. CASE FetchNewToken
  <2>1. Tail(notifications) \in Seq(Notification) /\ Head(notifications).key \in Keys
    <3>1. Head(notifications) \in Notification /\ Tail(notifications) \in Seq(Notification)
      BY <1>4, TailFacts DEF FetchNewToken, IInv, TypeOK
    <3>2. QED  BY <3>1 DEF Notification
  <2>2. QED
    BY <1>4, <1>0, <2>1 DEF FetchNewToken, startVars, failureVars, historyVars, bounds,
                            IInv, TypeOK
<1>5. CASE LogFailure
  <2>0. failed \in 0..2 /\ sending \in BOOLEAN
    BY <1>a DEF IInv, TypeOK
  <2>a. failed > 0 /\ sending' = FALSE /\ (failed' = failed \/ failed' = failed - 1)
    BY <1>5 DEF LogFailure
  <2>b. failed' \in 0..2  BY <2>0, <2>a
  <2>1. failed' \in 0..FailedCapacity /\ sending' \in BOOLEAN
    BY <2>a, <2>b, <1>a
  <2>2. QED  BY <1>5, <1>0, <2>1 DEF LogFailure, startVars, listenerVars, historyVars, bounds,
                                     IInv, TypeOK
<1>6. CASE AttemptFails
  <2>0. failed \in 0..2 /\ sending \in BOOLEAN /\ attempts \in Nat
    BY <1>a DEF IInv, TypeOK
  <2>a. /\ attempts' = attempts + 1
        /\ \/ failed < 2 /\ failed' = failed + 1 /\ sending' = sending
           \/ sending' = TRUE /\ failed' = failed
    BY <1>6, <1>a DEF AttemptFails
  <2>b. failed' \in 0..2 /\ attempts' \in Nat  BY <2>0, <2>a
  <2>1. failed' \in 0..FailedCapacity /\ sending' \in BOOLEAN /\ attempts' \in Nat
    BY <2>0, <2>a, <2>b, <1>a
  <2>2. QED  BY <1>6, <1>0, <2>1 DEF AttemptFails, startVars, listenerVars, historyVars,
                                     bounds, IInv, TypeOK
<1>7. CASE Disconnect
  <2>1. PICK c \in 0..Len(notifications) :
          /\ notifications' = SubSeq(notifications, 1, c)
          /\ missed' = missed \cup {notifications[m].key : m \in c + 1..Len(notifications)}
    BY <1>7 DEF Disconnect
  <2>2. notifications \in Seq(Notification) /\ missed \subseteq Keys
    BY DEF IInv, TypeOK
  <2>3. \A m \in c + 1..Len(notifications) : notifications[m].key \in Keys
    <3>1. \A m \in c + 1..Len(notifications) : m \in 1..Len(notifications)
      BY <2>2
    <3>2. QED  BY <3>1, <2>2, ElementFacts
  <2>4. notifications' \in Seq(Notification) /\ missed' \subseteq Keys
    BY <2>1, <2>2, <2>3, PrefixFacts
  <2>5. /\ disconnects' = disconnects + 1 /\ subscribed' = FALSE
        /\ UNCHANGED <<startVars, registered, failureVars, usedKeys, replaced, crashes>>
    BY <1>7 DEF Disconnect
  <2>6. disconnects' \in Nat  BY <2>5 DEF IInv, TypeOK
  <2>7. QED  BY <1>0, <2>4, <2>5, <2>6 DEF startVars, failureVars, IInv, TypeOK
<1>8. CASE Reconnect
  BY <1>8, <1>0 DEF Reconnect, startVars, failureVars, historyVars, bounds, IInv, TypeOK
<1>9. CASE Crash
  <2>1. <<>> \in Seq(Notification) /\ 0 \in 0..FailedCapacity  BY <1>a
  <2>2. crashes' \in Nat  BY <1>9 DEF Crash, IInv, TypeOK
  <2>3. /\ phase' = "down" /\ unsynced' = {} /\ registered' = {} /\ subscribed' = FALSE
        /\ notifications' = <<>> /\ failed' = 0 /\ sending' = FALSE /\ attempts' = 0
        /\ replaced' = {} /\ missed' = {}
        /\ UNCHANGED <<listenFirst, usedKeys, disconnects>>
    BY <1>9 DEF Crash
  <2>4. QED  BY <1>0, <2>1, <2>2, <2>3 DEF IInv, TypeOK
<1>10. CASE UNCHANGED vars
  BY <1>10, <1>0 DEF vars, startVars, listenerVars, failureVars, historyVars, bounds, IInv,
                     TypeOK
<1>11. QED
  BY <1>1, <1>2, <1>3, <1>4, <1>5, <1>6, <1>7, <1>8, <1>9, <1>10 DEF Next

LEMMA QueueStep ==
  ASSUME IInv, [Next]_vars
  PROVE  QueueInv'
<1>1. CASE IntegratorChange
  <2>1. PICK id \in Ids :
          \/ \E k \in Keys, email \in Emails, profile \in Profiles :
               InsertIntegrator(id, k, email, profile)
          \/ \E profile \in Profiles : ChangeProfile(id, profile)
          \/ \E k \in Keys : ResetKey(id, k)
          \/ RemoveIntegrator(id)
    BY <1>1 DEF IntegratorChange
  <2>2. QED  BY <2>1, InsertQueue, ProfileQueue, ResetQueue, RemoveQueue
<1>2. CASE ChangeOrganization
  <2>1. UNCHANGED integrators
    BY <1>2 DEF ChangeOrganization, OrganizationStatement, CreateOrganization,
                UpdateOrganization, UpdateOrganizationPlan,
                UpdateOrganizationEthPrivKeyCipher, UpdateOrganizationPublicAPIToken,
                DeleteOrganization
  <2>2. QED
    BY <1>2, <2>1, QuietSteps DEF ChangeOrganization, StatementUnchanged, startVars, bounds,
                                  listenerVars, historyVars
<1>3. CASE Start          BY <1>3, StartQueue
<1>4. CASE FetchNewToken  BY <1>4, FetchQueue
<1>5. CASE LogFailure \/ AttemptFails
  BY <1>5, QuietSteps DEF LogFailure, AttemptFails, sqlVars, startVars, listenerVars,
                          historyVars, bounds
<1>6. CASE Disconnect     BY <1>6, DisconnectQueue
<1>7. CASE Reconnect
  BY <1>7, QuietSteps DEF Reconnect, sqlVars, startVars, historyVars, bounds
<1>8. CASE Crash          BY <1>8, CrashQueue
<1>9. CASE UNCHANGED vars
  BY <1>9, QuietSteps DEF vars, sqlVars, startVars, listenerVars, historyVars, bounds
<1>10. QED
  BY <1>1, <1>2, <1>3, <1>4, <1>5, <1>6, <1>7, <1>8, <1>9 DEF Next

LEMMA InitInv ==
  ASSUME Init
  PROVE  IInv
<1>1. Queue = {} /\ CurrentKeys = {}
  BY DEF Init, SqlInit, Queue, CurrentKeys
<1>2. QueueInv
  BY <1>1 DEF Init, QueueInv, Quiet, Fresh, DeletedGone, Open, Listed, Stale, StaleQueue
<1>3. SqlIntegrity
  BY DEF Init, SqlInit, SqlIntegrity, UniqueKeys, OneIntegratorPerOrganization,
         NoDanglingElection, NoDanglingPlan
<1>4. TypeOK
  <2>1. SqlTypeOK  BY DEF Init, SqlInit, SqlTypeOK
  <2>2. <<>> \in Seq(Notification) /\ 0 \in 0..FailedCapacity  BY DEF FailedCapacity
  <2>3. listenFirst \in BOOLEAN  BY AuthTokensConstants DEF Init
  <2>4. QED  BY <2>1, <2>2, <2>3 DEF Init, TypeOK
<1>5. QED  BY <1>2, <1>3, <1>4 DEF IInv

(* The queue, the rows and the router fit together in every state.         *)
THEOREM QueueCorrect == Spec => []IInv
<1>1. Init => IInv  BY InitInv
<1>2. IInv /\ [Next]_vars => IInv'
  BY RowsStep, TypeStep, QueueStep DEF IInv
<1>3. QED  BY <1>1, <1>2, PTL DEF Spec

(* Rows, router, queue and history have their types.                       *)
THEOREM TokensTypeCorrect == Spec => []TypeOK
<1>1. IInv => TypeOK  BY DEF IInv
<1>2. QED  BY <1>1, QueueCorrect, PTL

(* While the process runs, an integrator's current key opens the API, or   *)
(* its notification is on its way or was lost (FetchNewTokens, Listen).    *)
THEOREM CurrentKeysOpen == Spec => []KeysOpen
<1>1. IInv => KeysOpen
  <2> SUFFICES ASSUME IInv, phase = "running", NEW k \in CurrentKeys
               PROVE  k \in registered \cup Queued({"INSERT", "UPDATE"}) \cup missed
    BY DEF KeysOpen
  <2>1. unsynced = {}  BY DEF IInv, QueueInv, Quiet
  <2>2. Queues(k, {"INSERT", "UPDATE"}) => k \in Queued({"INSERT", "UPDATE"})
    BY DEF Queues, Queued, Queue, IInv, TypeOK
  <2>3. QED  BY <2>1, <2>2 DEF IInv, QueueInv, Open, Listed, Lost
<1>2. QED  BY <1>1, QueueCorrect, PTL

(* A key that is nobody's any more opens the API only until its deletion   *)
(* is fetched, or because that was lost, or because it was replaced.       *)
THEOREM StaleKeysAreExplained == Spec => []StaleKeysExplained
<1>1. IInv => StaleKeysExplained
  <2> SUFFICES ASSUME IInv, NEW k \in registered \cap Keys
               PROVE  k \in CurrentKeys \cup Queued({"DELETE"}) \cup missed \cup replaced
    BY DEF StaleKeysExplained
  <2>1. Queues(k, {"DELETE"}) => k \in Queued({"DELETE"})
    BY DEF Queues, Queued, Queue, IInv, TypeOK
  <2>2. QED  BY <2>1 DEF IInv, QueueInv, Stale, Excused, Lost
<1>2. QED  BY <1>1, QueueCorrect, PTL

(* A listener that was up before the keys were listed and never lost its   *)
(* session misses nothing, whatever interleaves with syncAuthTokens.       *)
THEOREM ListenFirstHasNoGap == Spec => []NoGap
<1>1. IInv => NoGap
  <2> SUFFICES ASSUME IInv, listenFirst, disconnects = 0, phase = "running",
                      notifications = <<>>
               PROVE  /\ CurrentKeys \subseteq registered
                      /\ registered \cap Keys \subseteq CurrentKeys \cup replaced
    BY DEF NoGap
  <2>1. Lost = {} /\ Queue = {} /\ unsynced = {}
    BY DEF Lost, Queue, IInv, QueueInv, Quiet
  <2>2. QED  BY <2>1 DEF IInv, QueueInv, Open, Listed, Stale, Excused, Queues
<1>2. QED  BY <1>1, QueueCorrect, PTL
=============================================================================
