----------------------------- MODULE AuthTokens -----------------------------
(***************************************************************************)
(* The tokens that open the API.  The bearer token table lives in the      *)
(* memory of the process: syncAuthTokens fills it from the database when   *)
(* the process starts; afterwards a trigger on table integrators notifies  *)
(* a listener session, and FetchNewTokens applies what it receives.  Rows  *)
(* change at any time, by this process or by another client of the         *)
(* database; the session may be lost, with what it had not delivered, and  *)
(* is reconnected; attempts to connect may fail, which the listener        *)
(* reports on a channel that only FetchNewTokens drains; the process may   *)
(* crash.                                                                  *)
(***************************************************************************)
EXTENDS SqlStore, Sequences

CONSTANTS
  Orders,          \* TRUE: the listener starts first, as in the test harness
                   \* (apis.go:70); FALSE: last, as in main
  MaxQueue,        \* bound: notifications under way
  MaxAttempts,     \* bound: failed attempts to connect, per run of the process
  MaxDisconnects,  \* bound: losses of the listener's session
  MaxCrashes       \* bound: crashes of the process

ASSUME AuthTokensConstants ==
  /\ Orders \subseteq BOOLEAN
  /\ MaxQueue \in Nat /\ MaxAttempts \in Nat
  /\ MaxDisconnects \in Nat /\ MaxCrashes \in Nat
  /\ Keys \cap Tokens = {}

VARIABLES
  listenFirst,    \* which program runs: the order of its start
  phase,          \* how far the start of the process got
  unsynced,       \* keys syncAuthTokens read and did not register yet
  registered,     \* the bearer tokens the router lets in
  subscribed,     \* whether the database has the listener's session
  notifications,  \* what the session and the listener's channel hold
  failed,         \* how many errors the notifier's channel holds
  sending,        \* whether the listener waits to put one more there
  attempts,       \* counts failed attempts of this run, up to MaxAttempts
  usedKeys,       \* history: keys that were ever an integrator's
  replaced,       \* history: keys a reset took from a row, in this run of the process
  missed,         \* history: keys whose notification was lost, in this run of the process
  disconnects,    \* counts losses of the session, up to MaxDisconnects
  crashes         \* counts crashes, up to MaxCrashes

startVars == <<listenFirst, phase, unsynced>>
failureVars == <<failed, sending, attempts>>
listenerVars == <<subscribed, notifications>>
historyVars == <<usedKeys, replaced, missed>>
bounds == <<disconnects, crashes>>
vars == <<sqlVars, startVars, registered, listenerVars, failureVars, historyVars,
          bounds>>

Notification == [op: {"INSERT", "UPDATE", "DELETE"}, key: Keys]

(* GetIntegratorApiKeysList, and ListOrganizations without options.        *)
CurrentKeys == {i.key : i \in integrators}
ListOrganizations(k) == {o \in organizations : o.key = k}

(* Mutant: a channel without a buffer.                                     *)
NoBuffer == 0
(* NewNotifier's channel of errors.                                        *)
FailedCapacity == 2

Queued(ops) ==
  {notifications[n].key : n \in {m \in DOMAIN notifications : notifications[m].op \in ops}}

TypeOK ==
  /\ SqlTypeOK
  /\ listenFirst \in BOOLEAN
  /\ phase \in {"down", "connecting", "listening", "syncing", "serving", "running"}
  /\ unsynced \subseteq Keys
  /\ registered \subseteq Keys \cup Tokens
  /\ subscribed \in BOOLEAN
  /\ notifications \in Seq(Notification)
  /\ failed \in 0..FailedCapacity
  /\ sending \in BOOLEAN
  /\ attempts \in Nat
  /\ usedKeys \subseteq Keys
  /\ replaced \subseteq Keys
  /\ missed \subseteq Keys
  /\ disconnects \in Nat
  /\ crashes \in Nat

Init ==
  /\ SqlInit
  /\ listenFirst \in Orders
  /\ phase = "down"
  /\ unsynced = {}
  /\ registered = {}
  /\ subscribed = FALSE
  /\ notifications = <<>>
  /\ failed = 0
  /\ sending = FALSE
  /\ attempts = 0
  /\ usedKeys = {}
  /\ replaced = {}
  /\ missed = {}
  /\ disconnects = 0
  /\ crashes = 0

-----------------------------------------------------------------------------
(* Statements on integrators, and the trigger that runs after each of them.*)

(* notify_integrator_tokens_update.  Without a session the notification    *)
(* goes nowhere; what happens before the process starts is no loss.        *)
Notify(op, key) ==
  IF subscribed
    THEN /\ Len(notifications) < MaxQueue
         /\ notifications' = Append(notifications, [op |-> op, key |-> key])
         /\ UNCHANGED missed
    ELSE /\ missed' = IF phase = "down" THEN missed ELSE missed \cup {key}
         /\ UNCHANGED notifications

StatementUnchanged ==
  UNCHANGED <<startVars, registered, subscribed, failureVars, bounds>>

(* A new key is 32 random bytes: it was never used before.                 *)
InsertIntegrator(id, k, email, profile) ==
  /\ k \notin usedKeys
  /\ CreateIntegrator(id, k, email, profile)
  /\ Notify("INSERT", k)
  /\ usedKeys' = usedKeys \cup {k}
  /\ UNCHANGED replaced
  /\ StatementUnchanged

ChangeProfile(id, profile) ==
  \E i \in integrators :
    /\ i.id = id
    /\ UpdateIntegrator(id, profile)
    /\ Notify("UPDATE", i.key)
    /\ UNCHANGED <<usedKeys, replaced>>
    /\ StatementUnchanged

(* The trigger's row is NEW on an update: the old key is not mentioned.    *)
ResetKey(id, k) ==
  \E i \in integrators :
    /\ i.id = id
    /\ k \notin usedKeys
    /\ UpdateIntegratorApiKey(id, k)
    /\ Notify("UPDATE", k)
    /\ usedKeys' = usedKeys \cup {k}
    /\ replaced' = IF phase = "down" THEN replaced ELSE replaced \cup {i.key}
    /\ StatementUnchanged

RemoveIntegrator(id) ==
  \E i \in integrators :
    /\ i.id = id
    /\ DeleteIntegrator(id)
    /\ Notify("DELETE", i.key)
    /\ UNCHANGED <<usedKeys, replaced>>
    /\ StatementUnchanged

(* Organizations have no trigger.                                          *)
ChangeOrganization ==
  /\ OrganizationStatement
  /\ UNCHANGED <<listenerVars, historyVars>>
  /\ StatementUnchanged

-----------------------------------------------------------------------------
(* The start of the process.  main: syncAuthTokens, the handlers, then     *)
(* NewNotifier.  The test harness: NewNotifier first.                      *)

StartUnchanged == UNCHANGED <<sqlVars, listenFirst, usedKeys, replaced, bounds>>

HasListener ==
  phase \in IF listenFirst THEN {"connecting", "listening", "syncing", "running"}
                           ELSE {"connecting", "running"}

(* NewNotifier, up to the call of Listen.                                  *)
NewNotifier ==
  /\ phase = IF listenFirst THEN "down" ELSE "serving"
  /\ phase' = "connecting"
  /\ StartUnchanged
  /\ UNCHANGED <<unsynced, registered, listenerVars, failureVars, missed>>

(* Listen returns when the listener has a session and the database has     *)
(* acknowledged; a listener that waits to report an error gets no session. *)
Listen ==
  /\ phase = "connecting"
  /\ ~sending
  /\ phase' = IF listenFirst THEN "listening" ELSE "running"
  /\ subscribed' = TRUE
  /\ StartUnchanged
  /\ UNCHANGED <<unsynced, registered, notifications, failureVars, missed>>

(* syncAuthTokens, its first query.                                        *)
ListKeys ==
  /\ phase = IF listenFirst THEN "listening" ELSE "down"
  /\ phase' = "syncing"
  /\ unsynced' = CurrentKeys
  /\ StartUnchanged
  /\ UNCHANGED <<registered, listenerVars, failureVars, missed>>

(* Mutant: the keys themselves are not registered.                         *)
SyncOrganizationsOnly(k) ==
  /\ phase = "syncing"
  /\ k \in unsynced
  /\ unsynced' = unsynced \ {k}
  /\ registered' = registered \cup {o.token : o \in ListOrganizations(k)}
  /\ StartUnchanged
  /\ UNCHANGED <<phase, listenerVars, failureVars, missed>>

(* One key of the list, and the tokens of its organizations.               *)
SyncKey(k) ==
  /\ phase = "syncing"
  /\ k \in unsynced
  /\ unsynced' = unsynced \ {k}
  /\ registered' = registered \cup {k} \cup {o.token : o \in ListOrganizations(k)}
  /\ StartUnchanged
  /\ UNCHANGED <<phase, listenerVars, failureVars, missed>>

EndSync ==
  /\ phase = "syncing"
  /\ unsynced = {}
  /\ phase' = IF listenFirst THEN "running" ELSE "serving"
  /\ StartUnchanged
  /\ UNCHANGED <<unsynced, registered, listenerVars, failureVars, missed>>

-----------------------------------------------------------------------------
(* The listener *)

(* Mutants: an update registers nothing; a deletion revokes nothing.       *)
FetchInserts ==
  /\ phase = "running"
  /\ notifications # <<>>
  /\ LET n == Head(notifications) IN
       registered' = CASE n.op = "DELETE" -> registered \ {n.key}
                       [] n.op = "INSERT" -> registered \cup {n.key}
                       [] OTHER -> registered
  /\ notifications' = Tail(notifications)
  /\ UNCHANGED <<sqlVars, startVars, subscribed, failureVars, historyVars, bounds>>
FetchNoRevocation ==
  /\ phase = "running"
  /\ notifications # <<>>
  /\ registered' = registered \cup {Head(notifications).key}
  /\ notifications' = Tail(notifications)
  /\ UNCHANGED <<sqlVars, startVars, subscribed, failureVars, historyVars, bounds>>

(* FetchNewTokens and parseOperation: anything but a DELETE registers.     *)
FetchNewToken ==
  /\ phase = "running"
  /\ notifications # <<>>
  /\ LET n == Head(notifications) IN
       registered' = IF n.op = "DELETE" THEN registered \ {n.key}
                                        ELSE registered \cup {n.key}
  /\ notifications' = Tail(notifications)
  /\ UNCHANGED <<sqlVars, startVars, subscribed, failureVars, historyVars, bounds>>

(* The session is lost with the notifications it had not delivered yet.    *)
Disconnect ==
  /\ subscribed
  /\ disconnects < MaxDisconnects
  /\ disconnects' = disconnects + 1
  /\ subscribed' = FALSE
  /\ \E n \in 0..Len(notifications) :
       /\ notifications' = SubSeq(notifications, 1, n)
       /\ missed' = missed \cup {notifications[m].key : m \in n+1..Len(notifications)}
  /\ UNCHANGED <<sqlVars, startVars, registered, failureVars, usedKeys, replaced, crashes>>

(* The listener tries to connect and fails: logListener, its callback,     *)
(* sends the error on the channel, and waits while that is full.           *)
AttemptFails ==
  /\ HasListener
  /\ ~subscribed
  /\ ~sending
  /\ attempts < MaxAttempts
  /\ attempts' = attempts + 1
  /\ IF failed < FailedCapacity
       THEN failed' = failed + 1 /\ UNCHANGED sending
       ELSE sending' = TRUE /\ UNCHANGED failed
  /\ UNCHANGED <<sqlVars, startVars, registered, listenerVars, historyVars, bounds>>

(* FetchNewTokens, its second case; the error that waited takes the place. *)
LogFailure ==
  /\ phase = "running"
  /\ failed > 0
  /\ failed' = IF sending THEN failed ELSE failed - 1
  /\ sending' = FALSE
  /\ UNCHANGED <<sqlVars, startVars, registered, listenerVars, attempts, historyVars,
                 bounds>>

(* The listener subscribes again and sends nil, which FetchNewTokens skips.*)
Reconnect ==
  /\ HasListener /\ phase # "connecting"
  /\ ~subscribed
  /\ ~sending
  /\ subscribed' = TRUE
  /\ UNCHANGED <<sqlVars, startVars, registered, notifications, failureVars, historyVars,
                 bounds>>

(* A crash, or one of the Fatals of the start.                             *)
Crash ==
  /\ phase # "down"
  /\ crashes < MaxCrashes
  /\ crashes' = crashes + 1
  /\ phase' = "down"
  /\ unsynced' = {}
  /\ registered' = {}
  /\ subscribed' = FALSE
  /\ notifications' = <<>>
  /\ failed' = 0
  /\ sending' = FALSE
  /\ attempts' = 0
  /\ replaced' = {}
  /\ missed' = {}
  /\ UNCHANGED <<sqlVars, listenFirst, usedKeys, disconnects>>

-----------------------------------------------------------------------------
IntegratorChange ==
  \E id \in Ids :
    \/ \E k \in Keys, email \in Emails, profile \in Profiles :
         InsertIntegrator(id, k, email, profile)
    \/ \E profile \in Profiles : ChangeProfile(id, profile)
    \/ \E k \in Keys : ResetKey(id, k)
    \/ RemoveIntegrator(id)

Start == NewNotifier \/ Listen \/ ListKeys \/ (\E k \in Keys : SyncKey(k)) \/ EndSync

Next ==
  \/ IntegratorChange
  \/ ChangeOrganization
  \/ Start
  \/ FetchNewToken
  \/ LogFailure
  \/ AttemptFails
  \/ Disconnect
  \/ Reconnect
  \/ Crash

Spec == Init /\ [][Next]_vars

(* The process is started again after a crash and its start is finite; the *)
(* listener reconnects by itself and FetchNewTokens loops for ever.        *)
FairSpec ==
  /\ Spec
  /\ WF_vars(Start)
  /\ WF_vars(FetchNewToken) /\ WF_vars(LogFailure)
  /\ WF_vars(Reconnect)

-----------------------------------------------------------------------------
(* While the process runs, every integrator's current key opens the API,   *)
(* or a notification of it is on its way, or was lost: in the gap between  *)
(* syncAuthTokens and NewNotifier or with the listener's session.          *)
KeysOpen ==
  phase = "running" =>
    CurrentKeys \subseteq registered \cup Queued({"INSERT", "UPDATE"}) \cup missed

(* A key that is no integrator's any more opens the API only until its     *)
(* deletion is fetched, unless that was lost, or unless the key went by a  *)
(* reset: nothing revokes that before the next start.                      *)
StaleKeysExplained ==
  registered \cap Keys
    \subseteq CurrentKeys \cup Queued({"DELETE"}) \cup missed \cup replaced

(* With the listener up before the keys are listed, and its session never  *)
(* lost, no change is missed: once all is fetched the current keys open    *)
(* the API and no deleted one does.                                        *)
NoGap ==
  listenFirst /\ disconnects = 0 /\ phase = "running" /\ notifications = <<>> =>
    /\ CurrentKeys \subseteq registered
    /\ registered \cap Keys \subseteq CurrentKeys \cup replaced

(* Nobody drains the channel of errors before the process runs, so a start *)
(* may wait for ever; but only for a listener that failed to connect more  *)
(* often than the channel has places.                                      *)
Stuck == phase = "connecting" /\ attempts > 2

(* A start that waits for its listener's session gets through in the end,  *)
(* unless three attempts to connect failed meanwhile.                      *)
StartGetsThrough == phase = "connecting" ~> phase # "connecting" \/ Stuck

(* A key opens the API in the end, across crashes, failed attempts and     *)
(* reconnections, if it stays an integrator's and its notification is not  *)
(* lost, unless the start is stuck.                                        *)
KeyOpensEventually ==
  \A k \in Keys :
    k \in CurrentKeys
      ~> k \in registered \/ k \notin CurrentKeys \/ k \in missed \/ Stuck
=============================================================================
