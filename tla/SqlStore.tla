------------------------------ MODULE SqlStore ------------------------------
(***************************************************************************)
(* The relational store of the VaaS API: the tables that migrations.go     *)
(* declares and the statements that database/pgsql executes on them.       *)
(*                                                                         *)
(* A table is a set of rows (records).  A statement is an action whose     *)
(* guard is what must hold for it to succeed: the code's own checks, the   *)
(* UNIQUE and PRIMARY KEY constraints and the foreign keys.  A statement   *)
(* that fails changes nothing.  The columns nothing distinguishes (names,  *)
(* titles, dates, timestamps) are left out; header_uri and avatar_uri,     *)
(* which every statement treats alike, are the one column uri; the         *)
(* integrator's name and csp_* columns are the one column profile.         *)
(***************************************************************************)
EXTENDS Naturals

CONSTANTS
  Ids,       \* integrators.id (SERIAL)
  Keys,      \* integrator api keys, 32 random bytes
  Emails,    \* integrators.email
  Profiles,  \* integrators.name, csp_url_prefix, csp_pub_key
  PlanIds,   \* quota_plans.id (random uuid)
  Limits,    \* quota_plans.max_census_size, max_process_count
  Addrs,     \* organizations.eth_address
  Uris,      \* organizations.header_uri, avatar_uri
  Tokens,    \* organizations.public_api_token
  Ciphers,   \* organizations.eth_priv_key_cipher
  Quotas,    \* organizations.public_api_quota
  Pids,      \* elections.process_id
  Empty,     \* '' (or 0, or no bytes): the value COALESCE(NULLIF(..)) skips
  Nil        \* SQL NULL and Go's nil

(***************************************************************************)
(* NULL is not a plan id, an api key or an address.                        *)
(***************************************************************************)
ASSUME NilIsNoValue ==
  Nil \notin Ids \cup Keys \cup PlanIds \cup Addrs \cup Pids

VARIABLES
  integrators,    \* rows of table integrators
  plans,          \* rows of table quota_plans
  organizations,  \* rows of table organizations
  elections       \* rows of table elections

sqlVars == <<integrators, plans, organizations, elections>>

IntegratorRow == [id: Ids, key: Keys, email: Emails, profile: Profiles]
PlanRow == [plan: PlanIds, limits: Limits]
OrganizationRow ==
  [addr: Addrs, id: Ids, key: Keys, uri: Uris, token: Tokens,
   cipher: Ciphers, plan: PlanIds \cup {Nil}, quota: Quotas]
ElectionRow == [pid: Pids, addr: Addrs, key: Keys]

SqlTypeOK ==
  /\ integrators \subseteq IntegratorRow
  /\ plans \subseteq PlanRow
  /\ organizations \subseteq OrganizationRow
  /\ elections \subseteq ElectionRow

SqlInit ==
  /\ integrators = {}
  /\ plans = {}
  /\ organizations = {}
  /\ elections = {}

-----------------------------------------------------------------------------
(* COALESCE(NULLIF(new, ''), old): an empty argument leaves the column as it is. *)
Coalesce(new, old) == IF new = Empty THEN old ELSE new

(* GetIntegratorByKey and GetOrganization: the rows a lookup finds. *)
GetIntegratorByKey(k) == {i \in integrators : i.key = k}
GetOrganization(k, a) == {o \in organizations : o.key = k /\ o.addr = a}

(* UPDATE organizations SET .. WHERE integrator_api_key=k AND eth_address=a. *)
UpdateWhere(k, a, Set(_)) ==
  organizations' = {IF o.key = k /\ o.addr = a THEN Set(o) ELSE o : o \in organizations}

-----------------------------------------------------------------------------
(* Integrators *)

CreateIntegrator(id, k, email, profile) ==
  /\ \A i \in integrators : i.id # id /\ i.key # k /\ i.email # email
  /\ integrators' = integrators \cup
                     {[id |-> id, key |-> k, email |-> email, profile |-> profile]}
  /\ UNCHANGED <<plans, organizations, elections>>

UpdateIntegrator(id, profile) ==
  /\ integrators' = {IF i.id = id
                       THEN [i EXCEPT !.profile = Coalesce(profile, i.profile)]
                       ELSE i : i \in integrators}
  /\ UNCHANGED <<plans, organizations, elections>>

(* Mutant: the foreign keys say ON UPDATE SET NULL. *)
RekeyToNull(rows, old, new) ==
  {IF r.key = old THEN [r EXCEPT !.key = Nil] ELSE r : r \in rows}

(* The foreign keys on secret_api_key say ON UPDATE CASCADE. *)
Rekey(rows, old, new) ==
  {IF r.key = old THEN [r EXCEPT !.key = new] ELSE r : r \in rows}

(* Mutant: the update of a key does not cascade to the organizations. *)
UpdateIntegratorApiKeyAlone(id, new) ==
  \E i \in integrators :
    /\ i.id = id
    /\ \A j \in integrators : j.key # new
    /\ integrators' = (integrators \ {i}) \cup {[i EXCEPT !.key = new]}
    /\ elections' = Rekey(elections, i.key, new)
    /\ UNCHANGED <<plans, organizations>>

UpdateIntegratorApiKey(id, new) ==
  \E i \in integrators :
    /\ i.id = id
    /\ \A j \in integrators : j.key # new
    /\ integrators' = (integrators \ {i}) \cup {[i EXCEPT !.key = new]}
    /\ organizations' = Rekey(organizations, i.key, new)
    /\ elections' = Rekey(elections, i.key, new)
    /\ UNCHANGED plans

(* ON DELETE CASCADE on integrator_id, integrator_api_key (since migration 2) *)
(* and, from the organizations that go, on organization_eth_address.          *)
OrganizationsOf(i) == {o \in organizations : o.id = i.id \/ o.key = i.key}

(* Mutant: organizations that go by a cascade do not take their elections along. *)
DeleteIntegratorOneLevel(id) ==
  \E i \in integrators :
    /\ i.id = id
    /\ integrators' = integrators \ {i}
    /\ organizations' = organizations \ OrganizationsOf(i)
    /\ elections' = {e \in elections : e.key # i.key}
    /\ UNCHANGED plans

DeleteIntegrator(id) ==
  \E i \in integrators :
    /\ i.id = id
    /\ integrators' = integrators \ {i}
    /\ organizations' = organizations \ OrganizationsOf(i)
    /\ elections' = {e \in elections :
                       /\ e.key # i.key
                       /\ \A o \in OrganizationsOf(i) : e.addr # o.addr}
    /\ UNCHANGED plans

-----------------------------------------------------------------------------
(* Quota plans *)

CreatePlan(plan, limits) ==
  /\ \A p \in plans : p.plan # plan
  /\ plans' = plans \cup {[plan |-> plan, limits |-> limits]}
  /\ UNCHANGED <<integrators, organizations, elections>>

UpdatePlan(plan, limits) ==
  /\ plans' = {IF p.plan = plan
                 THEN [p EXCEPT !.limits = Coalesce(limits, p.limits)]
                 ELSE p : p \in plans}
  /\ UNCHANGED <<integrators, organizations, elections>>

(* Mutant: quota_plan_id is not a foreign key. *)
DeletePlanInUse(plan) ==
  /\ \E p \in plans : p.plan = plan
  /\ plans' = {p \in plans : p.plan # plan}
  /\ UNCHANGED <<integrators, organizations, elections>>

(* quota_plan_id has no ON DELETE clause: a plan in use cannot be deleted. *)
DeletePlan(plan) ==
  /\ \E p \in plans : p.plan = plan
  /\ \A o \in organizations : o.plan # plan
  /\ plans' = {p \in plans : p.plan # plan}
  /\ UNCHANGED <<integrators, organizations, elections>>

-----------------------------------------------------------------------------
(* Organizations *)

CanCreateOrganization(k, a, plan) ==
  /\ GetIntegratorByKey(k) # {}
  /\ \A o \in organizations : o.addr # a
  /\ plan = Nil \/ \E p \in plans : p.plan = plan

CreateOrganization(k, a, cipher, plan, quota, token, uri) ==
  /\ CanCreateOrganization(k, a, plan)
  /\ \E i \in GetIntegratorByKey(k) :
       organizations' = organizations \cup
         {[addr |-> a, id |-> i.id, key |-> i.key, uri |-> uri, token |-> token,
           cipher |-> cipher, plan |-> plan, quota |-> quota]}
  /\ UNCHANGED <<integrators, plans, elections>>

UpdateOrganization(k, a, uri) ==
  /\ LET Set(o) == [o EXCEPT !.uri = Coalesce(uri, o.uri)]
     IN  UpdateWhere(k, a, Set)
  /\ UNCHANGED <<integrators, plans, elections>>

(* PlanData.PlanID is a plain uuid.UUID: a NULL plan arrives as the zero uuid, *)
(* which no plan has, so the foreign key rejects the row it would update.      *)
UpdateOrganizationPlan(k, a, plan, quota) ==
  /\ GetOrganization(k, a) # {} => \E p \in plans : p.plan = plan
  /\ LET Set(o) == [o EXCEPT !.plan = plan, !.quota = Coalesce(quota, o.quota)]
     IN  UpdateWhere(k, a, Set)
  /\ UNCHANGED <<integrators, plans, elections>>

UpdateOrganizationEthPrivKeyCipher(k, a, cipher) ==
  /\ LET Set(o) == [o EXCEPT !.cipher = Coalesce(cipher, o.cipher)]
     IN  UpdateWhere(k, a, Set)
  /\ UNCHANGED <<integrators, plans, elections>>

UpdateOrganizationPublicAPIToken(k, a, token) ==
  /\ LET Set(o) == [o EXCEPT !.token = Coalesce(token, o.token)]
     IN  UpdateWhere(k, a, Set)
  /\ UNCHANGED <<integrators, plans, elections>>

(* elections.organization_eth_address says ON DELETE CASCADE. *)
DeleteOrganization(k, a) ==
  /\ GetOrganization(k, a) # {}
  /\ organizations' = organizations \ GetOrganization(k, a)
  /\ elections' = {e \in elections : e.addr # a}
  /\ UNCHANGED <<integrators, plans>>

-----------------------------------------------------------------------------
(* Elections *)

(* Mutants: an election without the one or the other foreign key. *)
CanCreateElectionAnywhere(k, a, pid) ==
  /\ \A e \in elections : e.pid # pid
  /\ GetIntegratorByKey(k) # {}
CanCreateElectionAnyKey(k, a, pid) ==
  /\ \A e \in elections : e.pid # pid
  /\ \E o \in organizations : o.addr = a

(* Nothing ties integrator_api_key to the organization: the two foreign keys *)
(* are checked separately.                                                   *)
CanCreateElection(k, a, pid) ==
  /\ \A e \in elections : e.pid # pid
  /\ \E o \in organizations : o.addr = a
  /\ GetIntegratorByKey(k) # {}

CreateElection(k, a, pid) ==
  /\ CanCreateElection(k, a, pid)
  /\ elections' = elections \cup {[pid |-> pid, addr |-> a, key |-> k]}
  /\ UNCHANGED <<integrators, plans, organizations>>

-----------------------------------------------------------------------------
IntegratorStatement ==
  \E id \in Ids :
    \/ \E k \in Keys, email \in Emails, profile \in Profiles :
         CreateIntegrator(id, k, email, profile)
    \/ \E profile \in Profiles : UpdateIntegrator(id, profile)
    \/ \E k \in Keys : UpdateIntegratorApiKey(id, k)
    \/ DeleteIntegrator(id)

PlanStatement ==
  \E plan \in PlanIds :
    \/ \E limits \in Limits : CreatePlan(plan, limits)
    \/ \E limits \in Limits : UpdatePlan(plan, limits)
    \/ DeletePlan(plan)

OrganizationStatement ==
  \E k \in Keys, a \in Addrs :
    \/ \E cipher \in Ciphers, plan \in PlanIds \cup {Nil}, quota \in Quotas,
          token \in Tokens, uri \in Uris :
         CreateOrganization(k, a, cipher, plan, quota, token, uri)
    \/ \E uri \in Uris : UpdateOrganization(k, a, uri)
    \/ \E plan \in PlanIds \cup {Nil}, quota \in Quotas :
         UpdateOrganizationPlan(k, a, plan, quota)
    \/ \E cipher \in Ciphers : UpdateOrganizationEthPrivKeyCipher(k, a, cipher)
    \/ \E token \in Tokens : UpdateOrganizationPublicAPIToken(k, a, token)
    \/ DeleteOrganization(k, a)

ElectionStatement ==
  \E k \in Keys, a \in Addrs, pid \in Pids : CreateElection(k, a, pid)

SqlNext ==
  \/ IntegratorStatement
  \/ PlanStatement
  \/ OrganizationStatement
  \/ ElectionStatement

SqlSpec == SqlInit /\ [][SqlNext]_sqlVars

-----------------------------------------------------------------------------
(* The two foreign keys from an organization to its integrator, one on the   *)
(* id and one on the api key, always lead to one and the same row, whatever  *)
(* keys were reset and whichever integrators were deleted in between.        *)
OneIntegratorPerOrganization ==
  \A o \in organizations :
    \E i \in integrators : i.id = o.id /\ i.key = o.key

(* An election's organization and its api key are always in their tables:    *)
(* no cascade of a delete or of a key reset leaves an election behind.       *)
NoDanglingElection ==
  \A e \in elections :
    /\ \E o \in organizations : o.addr = e.addr
    /\ \E i \in integrators : i.key = e.key

(* A plan an organization is on is never deleted under it.                   *)
NoDanglingPlan ==
  \A o \in organizations : o.plan # Nil => \E p \in plans : p.plan = o.plan

(* An api key and an id name at most one integrator; an address and a        *)
(* process id name at most one row.                                          *)
UniqueKeys ==
  /\ \A i, j \in integrators : (i.id = j.id \/ i.key = j.key) => i = j
  /\ \A o, p \in organizations : o.addr = p.addr => o = p
  /\ \A e, f \in elections : e.pid = f.pid => e = f

SqlIntegrity ==
  /\ UniqueKeys
  /\ OneIntegratorPerOrganization
  /\ NoDanglingElection
  /\ NoDanglingPlan
=============================================================================
