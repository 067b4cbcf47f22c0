--------------------------- MODULE SqlStoreProofs ---------------------------
(***************************************************************************)
(* Every statement keeps the types and the integrity of the tables, for    *)
(* any integrators, organizations, elections and plans.                    *)
(***************************************************************************)
EXTENDS SqlStore, TLAPS

(* What the statements on integrators preserve, the cascades included.     *)
LEMMA IntegratorIntegrity ==
  ASSUME SqlTypeOK, SqlIntegrity, IntegratorStatement
  PROVE  SqlTypeOK' /\ SqlIntegrity'
<1>1. PICK id \in Ids :
        \/ \E k \in Keys, email \in Emails, profile \in Profiles :
             CreateIntegrator(id, k, email, profile)
        \/ \E profile \in Profiles : UpdateIntegrator(id, profile)
        \/ \E k \in Keys : UpdateIntegratorApiKey(id, k)
        \/ DeleteIntegrator(id)
  BY DEF IntegratorStatement
<1> USE DEF SqlTypeOK, SqlIntegrity, UniqueKeys, OneIntegratorPerOrganization,
            NoDanglingElection, NoDanglingPlan, IntegratorRow, OrganizationRow, ElectionRow
<1>2. ASSUME NEW k \in Keys, NEW email \in Emails, NEW profile \in Profiles,
             CreateIntegrator(id, k, email, profile)
      PROVE  SqlTypeOK' /\ SqlIntegrity'
  BY <1>2 DEF CreateIntegrator
<1>3. ASSUME NEW profile \in Profiles, UpdateIntegrator(id, profile)
      PROVE  SqlTypeOK' /\ SqlIntegrity'
  <2> DEFINE Row(i) == IF i.id = id THEN [i EXCEPT !.profile = Coalesce(profile, i.profile)]
                                    ELSE i
  <2>1. \A i \in integrators :
          Row(i) \in IntegratorRow /\ Row(i).id = i.id /\ Row(i).key = i.key
    BY DEF Coalesce
  <2>2. /\ integrators' = {Row(i) : i \in integrators}
        /\ UNCHANGED <<plans, organizations, elections>>
    BY <1>3 DEF UpdateIntegrator
  <2> HIDE DEF Row
  <2>3. \A j \in integrators' : \E i \in integrators : j = Row(i)
    BY <2>2
  <2>4. \A i \in integrators : Row(i) \in integrators'
    BY <2>2
  <2>5. SqlTypeOK' /\ NoDanglingPlan'
    BY <2>1, <2>2, <2>3
  <2>6. UniqueKeys'
    BY <2>1, <2>2, <2>3
  <2>7. OneIntegratorPerOrganization' /\ NoDanglingElection'
    BY <2>1, <2>2, <2>4
  <2>8. QED  BY <2>5, <2>6, <2>7
<1>4. ASSUME NEW k \in Keys, UpdateIntegratorApiKey(id, k)
      PROVE  SqlTypeOK' /\ SqlIntegrity'
  <2>1. PICK i \in integrators :
          /\ i.id = id
          /\ \A j \in integrators : j.key # k
          /\ integrators' = (integrators \ {i}) \cup {[i EXCEPT !.key = k]}
          /\ organizations' = Rekey(organizations, i.key, k)
          /\ elections' = Rekey(elections, i.key, k)
          /\ UNCHANGED plans
    BY <1>4 DEF UpdateIntegratorApiKey
  <2> DEFINE Row(r) == IF r.key = i.key THEN [r EXCEPT !.key = k] ELSE r
             new == [i EXCEPT !.key = k]
  <2>2. \A o \in organizations :
          /\ Row(o) \in OrganizationRow
          /\ Row(o).addr = o.addr /\ Row(o).id = o.id /\ Row(o).plan = o.plan
          /\ Row(o).key = IF o.key = i.key THEN k ELSE o.key
    OBVIOUS
  <2>3. \A e \in elections :
          /\ Row(e) \in ElectionRow
          /\ Row(e).pid = e.pid /\ Row(e).addr = e.addr
          /\ Row(e).key = IF e.key = i.key THEN k ELSE e.key
    OBVIOUS
  <2>4. /\ organizations' = {Row(o) : o \in organizations}
        /\ elections' = {Row(e) : e \in elections}
    BY <2>1 DEF Rekey
  <2>5. new \in IntegratorRow /\ new.id = i.id /\ new.key = k
    OBVIOUS
  <2> HIDE DEF Row, new
  <2>6. integrators' = (integrators \ {i}) \cup {new}
    BY <2>1 DEF new
  <2>7. /\ \A p \in organizations' : \E o \in organizations : p = Row(o)
        /\ \A f \in elections' : \E e \in elections : f = Row(e)
        /\ \A o \in organizations : Row(o) \in organizations'
    BY <2>4
  <2>8. SqlTypeOK' /\ NoDanglingPlan'
    BY <2>1, <2>2, <2>3, <2>5, <2>6, <2>7
  <2>9. UniqueKeys'
    BY <2>1, <2>2, <2>3, <2>5, <2>6, <2>7
  <2>10. OneIntegratorPerOrganization'
    BY <2>1, <2>2, <2>5, <2>6, <2>7
  <2>11. NoDanglingElection'
    BY <2>1, <2>2, <2>3, <2>5, <2>6, <2>7
  <2>12. QED  BY <2>8, <2>9, <2>10, <2>11
<1>5. ASSUME DeleteIntegrator(id)
      PROVE  SqlTypeOK' /\ SqlIntegrity'
  BY <1>5 DEF DeleteIntegrator, OrganizationsOf
<1>6. QED  BY <1>1, <1>2, <1>3, <1>4, <1>5

(* What the statements on plans preserve.                                  *)
LEMMA PlanIntegrity ==
  ASSUME SqlTypeOK, SqlIntegrity, PlanStatement
  PROVE  SqlTypeOK' /\ SqlIntegrity'
<1>1. PICK plan \in PlanIds :
        \/ \E limits \in Limits : CreatePlan(plan, limits)
        \/ \E limits \in Limits : UpdatePlan(plan, limits)
        \/ DeletePlan(plan)
  BY DEF PlanStatement
<1> USE DEF SqlTypeOK, SqlIntegrity, UniqueKeys, OneIntegratorPerOrganization,
            NoDanglingElection, NoDanglingPlan, PlanRow
<1>2. ASSUME NEW limits \in Limits, CreatePlan(plan, limits)
      PROVE  SqlTypeOK' /\ SqlIntegrity'
  BY <1>2 DEF CreatePlan
<1>3. ASSUME NEW limits \in Limits, UpdatePlan(plan, limits)
      PROVE  SqlTypeOK' /\ SqlIntegrity'
  <2> DEFINE Row(p) == IF p.plan = plan THEN [p EXCEPT !.limits = Coalesce(limits, p.limits)]
                                        ELSE p
  <2>1. \A p \in plans : Row(p) \in PlanRow /\ Row(p).plan = p.plan
    BY DEF Coalesce
  <2>2. /\ plans' = {Row(p) : p \in plans}
        /\ UNCHANGED <<integrators, organizations, elections>>
    BY <1>3 DEF UpdatePlan
  <2> HIDE DEF Row
  <2>3. /\ \A q \in plans' : \E p \in plans : q = Row(p)
        /\ \A p \in plans : Row(p) \in plans'
    BY <2>2
  <2>4. SqlTypeOK' /\ NoDanglingPlan'
    BY <2>1, <2>2, <2>3
  <2>5. QED  BY <2>2, <2>4
<1>4. ASSUME DeletePlan(plan)
      PROVE  SqlTypeOK' /\ SqlIntegrity'
  BY <1>4 DEF DeletePlan
<1>5. QED  BY <1>1, <1>2, <1>3, <1>4

(* An UPDATE of organizations that keeps what identifies a row and where   *)
(* it points to; Row[o] is what becomes of the row o.                      *)
LEMMA UpdateRowsIntegrity ==
  ASSUME SqlTypeOK, SqlIntegrity,
         NEW Row \in [organizations -> OrganizationRow],
         \A o \in organizations :
           /\ Row[o].addr = o.addr /\ Row[o].id = o.id /\ Row[o].key = o.key
           /\ Row[o].plan # Nil => \E p \in plans : p.plan = Row[o].plan,
         organizations' = {Row[o] : o \in organizations},
         UNCHANGED <<integrators, plans, elections>>
  PROVE  SqlTypeOK' /\ SqlIntegrity'
<1> USE DEF SqlTypeOK, SqlIntegrity, UniqueKeys, OneIntegratorPerOrganization,
            NoDanglingElection, NoDanglingPlan
<1>1. /\ \A p \in organizations' : \E o \in organizations : p = Row[o]
      /\ \A o \in organizations : Row[o] \in organizations'
  OBVIOUS
<1>2. SqlTypeOK' /\ NoDanglingPlan' /\ OneIntegratorPerOrganization'
  BY <1>1
<1>3. UniqueKeys' /\ NoDanglingElection'
  BY <1>1
<1>4. QED  BY <1>2, <1>3

(* What the statements on organizations preserve.                          *)
LEMMA OrganizationIntegrity ==
  ASSUME SqlTypeOK, SqlIntegrity, OrganizationStatement
  PROVE  SqlTypeOK' /\ SqlIntegrity'
<1>1. PICK k \in Keys, a \in Addrs :
        \/ \E cipher \in Ciphers, plan \in PlanIds \cup {Nil}, quota \in Quotas,
              token \in Tokens, uri \in Uris :
             CreateOrganization(k, a, cipher, plan, quota, token, uri)
        \/ \E uri \in Uris : UpdateOrganization(k, a, uri)
        \/ \E plan \in PlanIds \cup {Nil}, quota \in Quotas :
             UpdateOrganizationPlan(k, a, plan, quota)
        \/ \E cipher \in Ciphers : UpdateOrganizationEthPrivKeyCipher(k, a, cipher)
        \/ \E token \in Tokens : UpdateOrganizationPublicAPIToken(k, a, token)
        \/ DeleteOrganization(k, a)
  BY DEF OrganizationStatement
<1> USE DEF SqlTypeOK
<1>2. ASSUME NEW cipher \in Ciphers, NEW plan \in PlanIds \cup {Nil}, NEW quota \in Quotas,
             NEW token \in Tokens, NEW uri \in Uris,
             CreateOrganization(k, a, cipher, plan, quota, token, uri)
      PROVE  SqlTypeOK' /\ SqlIntegrity'
  BY <1>2 DEF CreateOrganization, CanCreateOrganization, GetIntegratorByKey, SqlIntegrity,
              UniqueKeys, OneIntegratorPerOrganization, NoDanglingElection, NoDanglingPlan,
              IntegratorRow, OrganizationRow
<1>3. ASSUME NEW uri \in Uris, UpdateOrganization(k, a, uri)
      PROVE  SqlTypeOK' /\ SqlIntegrity'
  <2> DEFINE Row == [o \in organizations |->
                       IF o.key = k /\ o.addr = a
                         THEN [o EXCEPT !.uri = Coalesce(uri, o.uri)] ELSE o]
  <2>1. /\ organizations' = {Row[o] : o \in organizations}
        /\ UNCHANGED <<integrators, plans, elections>>
    BY <1>3 DEF UpdateOrganization, UpdateWhere
  <2>2. /\ Row \in [organizations -> OrganizationRow]
        /\ \A o \in organizations :
             /\ Row[o].addr = o.addr /\ Row[o].id = o.id /\ Row[o].key = o.key
             /\ Row[o].plan # Nil => \E p \in plans : p.plan = Row[o].plan
    BY DEF Coalesce, OrganizationRow, SqlIntegrity, NoDanglingPlan
  <2> HIDE DEF Row
  <2>3. QED  BY <2>1, <2>2, UpdateRowsIntegrity
<1>4. ASSUME NEW plan \in PlanIds \cup {Nil}, NEW quota \in Quotas,
             UpdateOrganizationPlan(k, a, plan, quota)
      PROVE  SqlTypeOK' /\ SqlIntegrity'
  <2> DEFINE Row == [o \in organizations |->
                       IF o.key = k /\ o.addr = a
                         THEN [o EXCEPT !.plan = plan, !.quota = Coalesce(quota, o.quota)] ELSE o]
  <2>1. /\ organizations' = {Row[o] : o \in organizations}
        /\ UNCHANGED <<integrators, plans, elections>>
    BY <1>4 DEF UpdateOrganizationPlan, UpdateWhere
  <2>2. Row \in [organizations -> OrganizationRow]
    <3>1. \A o \in OrganizationRow, q \in Quotas :
            [o EXCEPT !.plan = plan, !.quota = q] \in OrganizationRow
      BY DEF OrganizationRow
    <3>2. \A o \in OrganizationRow : Coalesce(quota, o.quota) \in Quotas
      BY DEF OrganizationRow, Coalesce
    <3>3. QED  BY <3>1, <3>2
  <2>3. \A o \in organizations :
          /\ Row[o].addr = o.addr /\ Row[o].id = o.id /\ Row[o].key = o.key
          /\ Row[o].plan = IF o \in GetOrganization(k, a) THEN plan ELSE o.plan
    BY DEF OrganizationRow, GetOrganization
  <2>4. GetOrganization(k, a) # {} => \E p \in plans : p.plan = plan
    BY <1>4 DEF UpdateOrganizationPlan
  <2>5. \A o \in organizations : Row[o].plan # Nil => \E p \in plans : p.plan = Row[o].plan
    BY <2>3, <2>4 DEF SqlIntegrity, NoDanglingPlan
  <2> HIDE DEF Row
  <2>6. QED  BY <2>1, <2>2, <2>3, <2>5, UpdateRowsIntegrity
<1>5. ASSUME NEW cipher \in Ciphers, UpdateOrganizationEthPrivKeyCipher(k, a, cipher)
      PROVE  SqlTypeOK' /\ SqlIntegrity'
  <2> DEFINE Row == [o \in organizations |->
                       IF o.key = k /\ o.addr = a
                         THEN [o EXCEPT !.cipher = Coalesce(cipher, o.cipher)] ELSE o]
  <2>1. /\ organizations' = {Row[o] : o \in organizations}
        /\ UNCHANGED <<integrators, plans, elections>>
    BY <1>5 DEF UpdateOrganizationEthPrivKeyCipher, UpdateWhere
  <2>2. /\ Row \in [organizations -> OrganizationRow]
        /\ \A o \in organizations :
             /\ Row[o].addr = o.addr /\ Row[o].id = o.id /\ Row[o].key = o.key
             /\ Row[o].plan # Nil => \E p \in plans : p.plan = Row[o].plan
    BY DEF Coalesce, OrganizationRow, SqlIntegrity, NoDanglingPlan
  <2> HIDE DEF Row
  <2>3. QED  BY <2>1, <2>2, UpdateRowsIntegrity
<1>6. ASSUME NEW token \in Tokens, UpdateOrganizationPublicAPIToken(k, a, token)
      PROVE  SqlTypeOK' /\ SqlIntegrity'
  <2> DEFINE Row == [o \in organizations |->
                       IF o.key = k /\ o.addr = a
                         THEN [o EXCEPT !.token = Coalesce(token, o.token)] ELSE o]
  <2>1. /\ organizations' = {Row[o] : o \in organizations}
        /\ UNCHANGED <<integrators, plans, elections>>
    BY <1>6 DEF UpdateOrganizationPublicAPIToken, UpdateWhere
  <2>2. /\ Row \in [organizations -> OrganizationRow]
        /\ \A o \in organizations :
             /\ Row[o].addr = o.addr /\ Row[o].id = o.id /\ Row[o].key = o.key
             /\ Row[o].plan # Nil => \E p \in plans : p.plan = Row[o].plan
    BY DEF Coalesce, OrganizationRow, SqlIntegrity, NoDanglingPlan
  <2> HIDE DEF Row
  <2>3. QED  BY <2>1, <2>2, UpdateRowsIntegrity
<1>7. ASSUME DeleteOrganization(k, a)
      PROVE  SqlTypeOK' /\ SqlIntegrity'
  BY <1>7 DEF DeleteOrganization, GetOrganization, SqlIntegrity,
              UniqueKeys, OneIntegratorPerOrganization, NoDanglingElection, NoDanglingPlan
<1>8. QED  BY <1>1, <1>2, <1>3, <1>4, <1>5, <1>6, <1>7

(* What storing an election preserves.                                     *)
LEMMA ElectionIntegrity ==
  ASSUME SqlTypeOK, SqlIntegrity, ElectionStatement
  PROVE  SqlTypeOK' /\ SqlIntegrity'
BY DEF ElectionStatement, CreateElection, CanCreateElection, GetIntegratorByKey, SqlTypeOK,
       ElectionRow, SqlIntegrity, UniqueKeys, OneIntegratorPerOrganization,
       NoDanglingElection, NoDanglingPlan

(* No statement and no cascade breaks the types or the integrity of the    *)
(* tables.                                                                 *)
LEMMA StatementIntegrity ==
  ASSUME SqlTypeOK, SqlIntegrity, [SqlNext]_sqlVars
  PROVE  SqlTypeOK' /\ SqlIntegrity'
<1>1. CASE UNCHANGED sqlVars
  BY <1>1 DEF sqlVars, SqlTypeOK, SqlIntegrity, UniqueKeys, OneIntegratorPerOrganization,
              NoDanglingElection, NoDanglingPlan
<1>2. QED  BY <1>1, IntegratorIntegrity, PlanIntegrity, OrganizationIntegrity,
              ElectionIntegrity DEF SqlNext

(* The store keeps its types and its integrity: an organization's two      *)
(* foreign keys lead to one integrator, no cascade leaves a dangling row.  *)
THEOREM SqlCorrect == SqlSpec => [](SqlTypeOK /\ SqlIntegrity)
<1>1. SqlInit => SqlTypeOK /\ SqlIntegrity
  BY DEF SqlInit, SqlTypeOK, SqlIntegrity, UniqueKeys, OneIntegratorPerOrganization,
         NoDanglingElection, NoDanglingPlan
<1>2. SqlTypeOK /\ SqlIntegrity /\ [SqlNext]_sqlVars => (SqlTypeOK /\ SqlIntegrity)'
  BY StatementIntegrity
<1>3. QED  BY <1>1, <1>2, PTL DEF SqlSpec

(* The two foreign keys of an organization always lead to the same         *)
(* integrator, whatever keys are reset and whichever rows are deleted.     *)
THEOREM OneIntegrator == SqlSpec => []OneIntegratorPerOrganization
<1>1. SqlTypeOK /\ SqlIntegrity => OneIntegratorPerOrganization
  BY DEF SqlIntegrity
<1>2. QED  BY <1>1, SqlCorrect, PTL

(* No election survives its organization or its integrator.                *)
THEOREM ElectionsKept == SqlSpec => []NoDanglingElection
<1>1. SqlTypeOK /\ SqlIntegrity => NoDanglingElection
  BY DEF SqlIntegrity
<1>2. QED  BY <1>1, SqlCorrect, PTL

(* No organization refers to a quota plan that was deleted: the foreign    *)
(* key refuses to delete a plan in use.                                    *)
THEOREM PlansKept == SqlSpec => []NoDanglingPlan
<1>1. SqlTypeOK /\ SqlIntegrity => NoDanglingPlan
  BY DEF SqlIntegrity
<1>2. QED  BY <1>1, SqlCorrect, PTL
=============================================================================
