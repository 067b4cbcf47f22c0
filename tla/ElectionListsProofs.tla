------------------------- MODULE ElectionListsProofs -------------------------
(***************************************************************************)
(* A list of ElectionViews is complete for any number of elections and any *)
(* size of a page.  The gateway answers with a part of what matches, the   *)
(* ranks after those that the request already has: what is needed is that  *)
(* a page that is not full is the last one, and that a full one ends where *)
(* the next one starts.  Then the list is also that of one instant: it     *)
(* implements ElectionListing.                                             *)
(***************************************************************************)
EXTENDS ElectionViewsProofs

(* The place of election e in the gateway's list of the elections M.       *)
Rank(M, e) == Cardinality({f \in M : f <= e})

-----------------------------------------------------------------------------
(* Counting.                                                               *)

(* No two elections have the same place.                                   *)
LEMMA RankGrows ==
  ASSUME NEW M, IsFiniteSet(M), M \subseteq Nat, NEW e \in M, NEW g \in M, e < g
  PROVE  Rank(M, e) < Rank(M, g)
<1> DEFINE below == {f \in M : f <= e}
           upTo == {f \in M : f <= g}
<1>1. IsFiniteSet(upTo)
  BY FS_Subset
<1>2. e \in Nat /\ g \in Nat
  OBVIOUS
<1>3. below \in SUBSET upTo
  <2>1. ASSUME NEW f \in M, f <= e
        PROVE  f <= g
    <3>1. f \in Nat
      OBVIOUS
    <3> QED BY <1>2, <2>1, <3>1
  <2> QED BY <2>1
<1>4. g \in upTo /\ g \notin below
  BY <1>2
<1> HIDE DEF below, upTo
<1>5. below # upTo
  BY <1>4
<1>6. /\ IsFiniteSet(below) /\ Cardinality(below) <= Cardinality(upTo)
      /\ Cardinality(upTo) # Cardinality(below)
  BY <1>1, <1>3, <1>5, FS_Subset
<1>7. Cardinality(below) \in Nat /\ Cardinality(upTo) \in Nat
  BY <1>1, <1>6, FS_CardinalityType
<1>8. Cardinality(below) < Cardinality(upTo)
  BY <1>6, <1>7
<1> QED BY <1>8 DEF Rank, below, upTo

LEMMA RankType ==
  ASSUME NEW M, IsFiniteSet(M), M \subseteq Nat, NEW e \in M
  PROVE  Rank(M, e) \in Nat /\ Rank(M, e) \in 1..Cardinality(M)
<1> DEFINE upTo == {f \in M : f <= e}
<1>1. e \in upTo /\ upTo \in SUBSET M
  OBVIOUS
<1> HIDE DEF upTo
<1>2. IsFiniteSet(upTo) /\ Cardinality(upTo) <= Cardinality(M)
  BY <1>1, FS_Subset
<1>3. Cardinality(upTo) \in Nat /\ Cardinality(M) \in Nat
  BY <1>2, FS_CardinalityType
<1>4. Cardinality(upTo) # 0
  BY <1>1, <1>2, FS_EmptySet
<1>5. Cardinality(upTo) \in Nat /\ Cardinality(upTo) \in 1..Cardinality(M)
  BY <1>2, <1>3, <1>4
<1> QED BY <1>5 DEF Rank, upTo

LEMMA RankIsOneToOne ==
  ASSUME NEW M, IsFiniteSet(M), M \subseteq Nat, NEW e \in M, NEW g \in M,
         Rank(M, e) = Rank(M, g)
  PROVE  e = g
<1>1. e \in Nat /\ g \in Nat
  OBVIOUS
<1>2. Rank(M, e) \in Nat /\ Rank(M, g) \in Nat
  BY RankType
<1>3. ~ (e < g)
  <2> SUFFICES ASSUME e < g PROVE FALSE
    OBVIOUS
  <2>1. Rank(M, e) < Rank(M, g)
    BY RankGrows
  <2> QED BY <1>2, <2>1
<1>4. ~ (g < e)
  <2> SUFFICES ASSUME g < e PROVE FALSE
    OBVIOUS
  <2>1. Rank(M, g) < Rank(M, e)
    BY RankGrows
  <2> QED BY <1>2, <2>1
<1> QED BY <1>1, <1>3, <1>4

(* Every place has an election.                                            *)
LEMMA RankIsOnto ==
  ASSUME NEW M, IsFiniteSet(M), M \subseteq Nat, NEW n \in 1..Cardinality(M)
  PROVE  \E e \in M : Rank(M, e) = n
<1> DEFINE places == 1..Cardinality(M)
           rank == [e \in M |-> Rank(M, e)]
<1>1. Cardinality(M) \in Nat
  BY FS_CardinalityType
<1>2. IsFiniteSet(places) /\ Cardinality(places) = Cardinality(M)
  BY <1>1, FS_Interval
<1>3. rank \in [M -> places]
  BY RankType
<1>4. rank \in Injection(M, places)
  BY <1>3, RankIsOneToOne DEF Injection, IsInjective
<1> HIDE DEF places, rank
<1>5. rank \in Surjection(M, places)
  BY <1>2, <1>4, FS_Injection
<1>6. PICK e \in M : rank[e] = n
  BY <1>5 DEF Surjection, places
<1> QED BY <1>6 DEF rank

(* The elections in places from + 1 to from + size.                        *)
Places(M, from, size) == {e \in M : from < Rank(M, e) /\ Rank(M, e) <= from + size}

(* A page has no more than its size, and one with less is the last one.    *)
LEMMA PageCounts ==
  ASSUME NEW M, IsFiniteSet(M), M \subseteq Nat, NEW from \in Nat, NEW size \in Nat \ {0}
  PROVE  /\ Cardinality(Places(M, from, size)) \in Nat
         /\ Cardinality(Places(M, from, size)) <= size
         /\ Cardinality(Places(M, from, size)) < size
              => \A e \in M : Rank(M, e) <= from + size
<1> DEFINE page == Places(M, from, size)
           places == (from + 1)..(from + size)
           rank == [e \in page |-> Rank(M, e)]
<1>1. page \in SUBSET M
  BY DEF Places
<1>2. IsFiniteSet(page) /\ Cardinality(page) \in Nat
  BY <1>1, FS_Subset, FS_CardinalityType
<1>3. IsFiniteSet(places) /\ Cardinality(places) = size
  <2>1. from + 1 \in Int /\ from + size \in Int /\ ~(from + 1 > from + size)
    OBVIOUS
  <2>2. /\ IsFiniteSet(places)
        /\ Cardinality(places) = IF from + 1 > from + size THEN 0
                                 ELSE (from + size) - (from + 1) + 1
    BY <2>1, FS_Interval
  <2>3. Cardinality(places) = (from + size) - (from + 1) + 1
    BY <2>1, <2>2
  <2> QED BY <2>2, <2>3
<1>4. \A e \in M : Rank(M, e) \in Nat
  BY RankType
<1>5. rank \in Injection(page, places)
  <2>1. rank \in [page -> places]
    <3> SUFFICES ASSUME NEW e \in page PROVE Rank(M, e) \in places
      OBVIOUS
    <3>1. Rank(M, e) \in Nat /\ from < Rank(M, e) /\ Rank(M, e) <= from + size
      BY <1>4 DEF Places
    <3> QED BY <3>1
  <2>2. ASSUME NEW e \in page, NEW g \in page, rank[e] = rank[g]
        PROVE  e = g
    <3>1. e \in M /\ g \in M /\ Rank(M, e) = Rank(M, g)
      BY <1>1, <2>2
    <3> QED BY <3>1, RankIsOneToOne
  <2> HIDE DEF rank, page, places
  <2>3. IsInjective(rank)
    BY <2>1, <2>2 DEF IsInjective
  <2> QED BY <2>1, <2>3 DEF Injection
<1>6. Cardinality(page) <= size
  <2> HIDE DEF page, places, rank
  <2>1. Cardinality(page) <= Cardinality(places)
    BY <1>3, <1>5, FS_Injection
  <2> QED BY <1>3, <2>1
<1>7. ASSUME NEW e \in M, ~(Rank(M, e) <= from + size)
      PROVE  size <= Cardinality(page)
  <2>1. Rank(M, e) \in 1..Cardinality(M) /\ Cardinality(M) \in Nat
    BY RankType, FS_CardinalityType
  <2>2. from + size <= Cardinality(M)
    BY <1>7, <2>1
  <2>3. ASSUME NEW n \in places
        PROVE  \E g \in page : rank[g] = n
    <3>1. n \in 1..Cardinality(M)
      BY <2>1, <2>2
    <3>2. PICK g \in M : Rank(M, g) = n
      BY <3>1, RankIsOnto
    <3>3. g \in page
      BY <3>2 DEF Places
    <3> QED BY <3>2, <3>3
  <2> HIDE DEF page, places, rank
  <2>4. rank \in Surjection(page, places)
    <3>1. rank \in [page -> places]
      BY <1>5 DEF Injection
    <3> QED BY <2>3, <3>1 DEF Surjection
  <2>5. Cardinality(places) <= Cardinality(page)
    BY <1>2, <2>4, FS_Surjection
  <2> QED BY <1>3, <2>5
<1> HIDE DEF page
<1>8. Cardinality(page) < size => \A e \in M : Rank(M, e) <= from + size
  BY <1>2, <1>7
<1> QED BY <1>2, <1>6, <1>8 DEF page

LEMMA MatchingType ==
  ASSUME NEW status
  PROVE  /\ IsFiniteSet(Matching(status)) /\ Matching(status) \subseteq Nat
         /\ Matching(status) \subseteq Elections
<1>1. Matching(status) \in SUBSET Elections
  BY DEF Matching
<1>2. IsFiniteSet(Elections) /\ Elections \subseteq Nat
  BY ElectionViewsConstants
<1>3. IsFiniteSet(Matching(status))
  BY <1>1, <1>2, FS_Subset
<1> QED BY <1>1, <1>2, <1>3

-----------------------------------------------------------------------------
(* The inductive invariant.                                                *)

ListPcs == {"fetching", "fetched", "looking", "listed"}

Wanted(q) == Matching(GwFilter(q.filter))

(* The election is named once it has been looked up.                       *)
Due(q, e) ==
  /\ row[e].state = "stored"
  /\ InList(q.filter, e, q.height)
  /\ Visible(e, q.access)

(* The pages so far hold every election up to their last place, once.      *)
PagesJoin(q) ==
  q.pc = "fetching" => \A e \in Elections :
    /\ q.shown[e] = 0
    /\ q.todo[e] = IF e \in Wanted(q) /\ Rank(Wanted(q), e) <= q.from THEN 1 ELSE 0

(* After the last page the request has everything that matches.            *)
PagesComplete(q) ==
  q.pc = "fetched" => \A e \in Elections :
    q.shown[e] = 0 /\ q.todo[e] = IF e \in Wanted(q) THEN 1 ELSE 0

(* No election is both named and still to be looked up; one that matches   *)
(* is named, not due, or still to be looked up, and no other is.           *)
NoneDropped(q) ==
  q.pc \in {"looking", "listed"} => \A e \in Elections :
    /\ q.todo[e] + q.shown[e] <= 1
    /\ e \in Wanted(q) /\ q.todo[e] = 0 /\ Due(q, e) => q.shown[e] = 1
    /\ q.todo[e] > 0 => e \in Wanted(q)
    /\ q.shown[e] > 0 => e \in Wanted(q) /\ Due(q, e)

AllLookedUp(q) == q.pc = "listed" => \A e \in Elections : q.todo[e] = 0

KeyIsGood(q) == q.pc \in ListPcs /\ q.access = "integrator" => q.keyed

Gathers(q) ==
  PagesJoin(q) /\ PagesComplete(q) /\ NoneDropped(q) /\ AllLookedUp(q) /\ KeyIsGood(q)

GatherInv == \A r \in Requests \ stirred : Gathers(request[r])

(* A request that is not for a list gathers nothing.                       *)
LEMMA OthersGather ==
  ASSUME NEW q, q.pc \notin ListPcs
  PROVE  Gathers(q)
  BY DEF ListPcs, Gathers, PagesJoin, PagesComplete, NoneDropped, AllLookedUp, KeyIsGood

-----------------------------------------------------------------------------
(* The steps of a list.                                                    *)

(* The next page takes the places after those that the request has; if it  *)
(* is not full, no election comes after it.                                *)
LEMMA FetchGathers ==
  ASSUME TypeOK, NEW r \in Requests, FetchProcessList(r), Gathers(request[r])
  PROVE  Gathers(request'[r])
<1> DEFINE q == request[r]
           M == Wanted(q)
           page == Page(GwFilter(q.filter), q.from)
           n == Cardinality(page)
           todo == [e \in Elections |-> IF e \in page THEN q.todo[e] + 1 ELSE q.todo[e]]
           pc == IF n < PageSize THEN "fetched" ELSE q.pc
           p == [q EXCEPT !.from = q.from + n, !.todo = todo, !.pc = pc]
<1>1. q \in List /\ q.pc = "fetching"
  BY Kind DEF FetchProcessList
<1>2. q.from \in Nat /\ q.todo \in [Elections -> Nat] /\ PageSize \in Nat \ {0}
  BY <1>1, ElectionViewsConstants DEF List
<1>3. IsFiniteSet(M) /\ M \subseteq Nat /\ M \subseteq Elections
  BY MatchingType DEF Wanted
<1>4. page = Places(M, q.from, PageSize)
  BY DEF Page, Places, Rank, Wanted
<1>5. /\ n \in Nat /\ n <= PageSize
      /\ n < PageSize => \A e \in M : Rank(M, e) <= q.from + PageSize
  <2> HIDE DEF M, q, page
  <2> QED BY <1>2, <1>3, <1>4, PageCounts DEF n
<1>6. request' = [request EXCEPT ![r] = p]
  BY DEF FetchProcessList
<1>7. request'[r] = p
  BY <1>6 DEF TypeOK
<1>8. \A e \in Elections :
        q.shown[e] = 0 /\ q.todo[e] = IF e \in M /\ Rank(M, e) <= q.from THEN 1 ELSE 0
  BY <1>1 DEF Gathers, PagesJoin
<1> HIDE DEF n, todo, pc
<1>9. /\ p.pc = pc /\ p.from = q.from + n /\ p.todo = todo /\ p.shown = q.shown
       /\ p.filter = q.filter /\ p.access = q.access /\ p.keyed = q.keyed
  BY <1>1 DEF List
<1> HIDE DEF p
<1>10. Wanted(p) = M
  BY <1>9 DEF Wanted
<1>11. \A e \in M : Rank(M, e) \in Nat
  BY <1>3, RankType
<1>12. ASSUME NEW e \in Elections
       PROVE  todo[e] = IF e \in M /\ Rank(M, e) <= q.from + PageSize THEN 1 ELSE 0
  <2> HIDE DEF M, page, q
  <2>1. todo[e] = IF e \in page THEN q.todo[e] + 1 ELSE q.todo[e]
    BY DEF todo
  <2>2. e \in page <=> e \in M /\ q.from < Rank(M, e) /\ Rank(M, e) <= q.from + PageSize
    BY <1>4 DEF Places
  <2>3. q.todo[e] = IF e \in M /\ Rank(M, e) <= q.from THEN 1 ELSE 0
    BY <1>8
  <2>4. CASE e \notin M
    BY <2>1, <2>2, <2>3, <2>4
  <2>5. CASE e \in M
    <3>1. Rank(M, e) \in Nat
      BY <1>11, <2>5
    <3> HIDE DEF todo
    <3>2. CASE Rank(M, e) <= q.from
      <4>1. e \notin page /\ Rank(M, e) <= q.from + PageSize
        BY <1>2, <2>2, <3>1, <3>2
      <4> QED BY <2>1, <2>3, <2>5, <3>2, <4>1
    <3>3. CASE ~(Rank(M, e) <= q.from)
      <4>1. q.from < Rank(M, e) /\ q.todo[e] = 0
        BY <1>2, <2>3, <3>1, <3>3
      <4>2. todo[e] = IF e \in page THEN 1 ELSE 0
        BY <2>1, <4>1
      <4> QED BY <2>2, <2>5, <4>1, <4>2
    <3> QED BY <3>2, <3>3
  <2> QED BY <2>4, <2>5
<1>13. CASE n < PageSize
  <2>1. pc = "fetched"
    BY <1>13 DEF pc
  <2>2. \A e \in Elections : todo[e] = IF e \in M THEN 1 ELSE 0
    <3> HIDE DEF M, q
    <3> QED BY <1>5, <1>12, <1>13
  <2>3. PagesComplete(p)
    BY <1>8, <1>9, <1>10, <2>2 DEF PagesComplete
  <2>4. Gathers(p)
    BY <1>1, <1>9, <2>1, <2>3
    DEF Gathers, PagesJoin, NoneDropped, AllLookedUp, KeyIsGood, ListPcs
  <2> QED BY <1>7, <2>4
<1>14. CASE ~(n < PageSize)
  <2>1. n = PageSize /\ pc = "fetching"
    BY <1>1, <1>2, <1>5, <1>14 DEF pc
  <2>2. PagesJoin(p)
    BY <1>8, <1>9, <1>10, <1>12, <2>1 DEF PagesJoin
  <2>3. Gathers(p)
    BY <1>1, <1>9, <2>1, <2>2
    DEF Gathers, PagesComplete, NoneDropped, AllLookedUp, KeyIsGood, ListPcs
  <2> QED BY <1>7, <2>3
<1> QED BY <1>13, <1>14

LEMMA ReadHeightGathers ==
  ASSUME TypeOK, NEW r \in Requests, ReadHeight(r), Gathers(request[r])
  PROVE  Gathers(request'[r])
<1> DEFINE q == request[r]
           p == [q EXCEPT !.pc = "looking", !.height = cache.height]
<1>1. q \in List /\ q.pc = "fetched"
  BY Kind DEF ReadHeight
<1>2. request'[r] = p
  BY DEF ReadHeight, TypeOK
<1>3. /\ p.pc = "looking" /\ p.todo = q.todo /\ p.shown = q.shown
      /\ p.filter = q.filter /\ p.access = q.access /\ p.keyed = q.keyed
  BY <1>1 DEF List
<1>4. \A e \in Elections :
        q.shown[e] = 0 /\ q.todo[e] = IF e \in Wanted(q) THEN 1 ELSE 0
  BY <1>1 DEF Gathers, PagesComplete
<1> HIDE DEF p
<1>5. Wanted(p) = Wanted(q)
  BY <1>3 DEF Wanted
<1>6. NoneDropped(p)
  <2> SUFFICES ASSUME NEW e \in Elections
               PROVE  /\ p.todo[e] + p.shown[e] <= 1
                      /\ e \in Wanted(p) /\ p.todo[e] = 0 => FALSE
                      /\ p.todo[e] > 0 => e \in Wanted(p)
                      /\ p.shown[e] > 0 => FALSE
    BY DEF NoneDropped
  <2>1. p.shown[e] = 0 /\ p.todo[e] = IF e \in Wanted(p) THEN 1 ELSE 0
    BY <1>3, <1>4, <1>5
  <2> HIDE DEF q
  <2> QED BY <2>1
<1>7. KeyIsGood(p)
  BY <1>1, <1>3 DEF Gathers, KeyIsGood, ListPcs
<1>8. Gathers(p)
  BY <1>3, <1>6, <1>7 DEF Gathers, PagesJoin, PagesComplete, AllLookedUp
<1> QED BY <1>2, <1>8

(* An election is looked up once, with a key that is still good: it is     *)
(* named if it is due.                                                     *)
LEMMA LookUpGathers ==
  ASSUME TypeOK, NEW r \in Requests, NEW e \in Elections, LookUp(r, e),
         Gathers(request[r])
  PROVE  Gathers(request'[r])
<1> DEFINE q == request[r]
           found == Found(e, q.access, q.keyed)
           named == found /\ InList(q.filter, e, q.height) /\ Visible(e, q.access)
           shown == IF named THEN q.shown[e] + 1 ELSE q.shown[e]
           p == [q EXCEPT !.todo[e] = q.todo[e] - 1, !.shown[e] = shown]
<1>1. q \in List /\ q.pc = "looking" /\ q.todo[e] > 0
  BY Kind DEF LookUp
<1>2. request' = [request EXCEPT ![r] = IF found /\ q.filter = "READY" THEN Failed ELSE p]
  BY DEF LookUp
<1>3. request'[r] = Failed \/ request'[r] = p
  <2> HIDE DEF p, found
  <2> QED BY <1>2 DEF TypeOK
<1>4. Gathers(Failed)
  BY OthersGather DEF Failed, ListPcs
<1>5. q.todo \in [Elections -> Nat] /\ q.shown \in [Elections -> Nat]
  BY <1>1 DEF List
<1>6. /\ \A f \in Elections :
           /\ q.todo[f] + q.shown[f] <= 1
           /\ f \in Wanted(q) /\ q.todo[f] = 0 /\ Due(q, f) => q.shown[f] = 1
           /\ q.todo[f] > 0 => f \in Wanted(q)
           /\ q.shown[f] > 0 => f \in Wanted(q) /\ Due(q, f)
      /\ q.access = "integrator" => q.keyed
  BY <1>1 DEF Gathers, NoneDropped, KeyIsGood, ListPcs
<1>7. q.todo[e] = 1 /\ q.shown[e] = 0 /\ e \in Wanted(q)
  <2>1. q.todo[e] \in Nat /\ q.shown[e] \in Nat /\ q.todo[e] + q.shown[e] <= 1
    BY <1>5, <1>6
  <2>2. e \in Wanted(q)
    BY <1>1, <1>6
  <2> HIDE DEF q
  <2> QED BY <1>1, <2>1, <2>2
<1>8. shown \in 0..1 /\ (Due(q, e) <=> shown = 1)
  <2>1. Due(q, e) <=> named
    BY <1>6 DEF Due, Found
  <2> HIDE DEF named, q
  <2> QED BY <1>7, <2>1
<1> HIDE DEF shown, found, named
<1>9. /\ p.pc = "looking" /\ p.filter = q.filter /\ p.height = q.height
      /\ p.access = q.access /\ p.keyed = q.keyed
      /\ p.todo = [q.todo EXCEPT ![e] = q.todo[e] - 1]
      /\ p.shown = [q.shown EXCEPT ![e] = shown]
  BY <1>1 DEF List
<1> HIDE DEF p
<1>10. /\ p.todo[e] = 0 /\ p.shown[e] = shown
       /\ \A f \in Elections : f # e => p.todo[f] = q.todo[f] /\ p.shown[f] = q.shown[f]
  <2> HIDE DEF q
  <2> QED BY <1>5, <1>7, <1>9
<1>11. Wanted(p) = Wanted(q) /\ \A f \in Elections : Due(p, f) <=> Due(q, f)
  BY <1>9 DEF Wanted, Due
<1>12. NoneDropped(p)
  <2> SUFFICES ASSUME NEW f \in Elections
               PROVE  /\ p.todo[f] + p.shown[f] <= 1
                      /\ f \in Wanted(p) /\ p.todo[f] = 0 /\ Due(p, f) => p.shown[f] = 1
                      /\ p.todo[f] > 0 => f \in Wanted(p)
                      /\ p.shown[f] > 0 => f \in Wanted(p) /\ Due(p, f)
    BY DEF NoneDropped
  <2> HIDE DEF q
  <2>1. CASE f = e
    BY <1>7, <1>8, <1>10, <1>11, <2>1
  <2>2. CASE f # e
    BY <1>6, <1>10, <1>11, <2>2
  <2> QED BY <2>1, <2>2
<1>13. KeyIsGood(p)
  BY <1>6, <1>9 DEF KeyIsGood
<1>14. Gathers(p)
  BY <1>9, <1>12, <1>13 DEF Gathers, PagesJoin, PagesComplete, AllLookedUp
<1> QED BY <1>3, <1>4, <1>14

LEMMA EndListGathers ==
  ASSUME TypeOK, NEW r \in Requests, EndList(r), Gathers(request[r])
  PROVE  Gathers(request'[r])
<1> DEFINE q == request[r]
           p == [q EXCEPT !.pc = "listed"]
<1>1. q \in List /\ q.pc = "looking" /\ \A e \in Elections : q.todo[e] = 0
  BY Kind DEF EndList
<1>2. request'[r] = p
  BY DEF EndList, TypeOK
<1>3. /\ p.pc = "listed" /\ p.todo = q.todo /\ p.shown = q.shown /\ p.height = q.height
      /\ p.filter = q.filter /\ p.access = q.access /\ p.keyed = q.keyed
  BY <1>1 DEF List
<1> HIDE DEF p
<1>4. Wanted(p) = Wanted(q) /\ \A e \in Elections : Due(p, e) <=> Due(q, e)
  BY <1>3 DEF Wanted, Due
<1>5. NoneDropped(p)
  BY <1>1, <1>3, <1>4 DEF Gathers, NoneDropped
<1>6. AllLookedUp(p) /\ KeyIsGood(p)
  BY <1>1, <1>3 DEF Gathers, AllLookedUp, KeyIsGood, ListPcs
<1>7. Gathers(p)
  BY <1>3, <1>5, <1>6 DEF Gathers, PagesJoin, PagesComplete
<1> QED BY <1>2, <1>7

LEMMA ListStepGathers ==
  ASSUME TypeOK, NEW r \in Requests, ListStep(r), Gathers(request[r])
  PROVE  Gathers(request'[r])
<1>1. CASE FetchFails(r)
  <2>1. request'[r] = Failed
    BY <1>1 DEF FetchFails, TypeOK
  <2> QED BY <2>1, OthersGather DEF Failed, ListPcs
<1> QED BY <1>1, FetchGathers, ReadHeightGathers, LookUpGathers, EndListGathers DEF ListStep

(* A new list has no pages yet.                                            *)
LEMMA ArriveGathers ==
  ASSUME TypeOK, NEW r \in Requests, Arrive(r)
  PROVE  Gathers(request'[r])
<1>1. ASSUME NEW filter \in Filters, NEW access \in {"public", "integrator"},
             ListProcesses(r, filter, access)
      PROVE  Gathers(request'[r])
  <2> DEFINE p == [pc |-> "fetching", filter |-> filter, access |-> access, keyed |-> TRUE,
                   from |-> 0, todo |-> [e \in Elections |-> 0],
                   shown |-> [e \in Elections |-> 0], height |-> 0]
  <2>1. request'[r] = p
    BY <1>1 DEF ListProcesses, TypeOK
  <2>2. \A e \in Wanted(p) : Rank(Wanted(p), e) \in Nat /\ Rank(Wanted(p), e) # 0
    <3> SUFFICES ASSUME NEW e \in Wanted(p)
                 PROVE  Rank(Wanted(p), e) \in Nat /\ Rank(Wanted(p), e) # 0
      OBVIOUS
    <3> HIDE DEF p
    <3>1. IsFiniteSet(Wanted(p)) /\ Wanted(p) \subseteq Nat
      BY MatchingType DEF Wanted
    <3>2. /\ Rank(Wanted(p), e) \in Nat
          /\ Rank(Wanted(p), e) \in 1..Cardinality(Wanted(p))
      BY <3>1, RankType
    <3>3. Cardinality(Wanted(p)) \in Nat
      BY <3>1, FS_CardinalityType
    <3> QED BY <3>2, <3>3
  <2>3. /\ p.pc = "fetching" /\ p.from = 0 /\ p.keyed
        /\ \A e \in Elections : p.todo[e] = 0 /\ p.shown[e] = 0
    OBVIOUS
  <2> HIDE DEF p
  <2>4. \A e \in Wanted(p) : ~(Rank(Wanted(p), e) <= p.from)
    BY <2>2, <2>3
  <2>5. PagesJoin(p)
    BY <2>3, <2>4 DEF PagesJoin
  <2>6. Gathers(p)
    BY <2>3, <2>5 DEF Gathers, PagesComplete, NoneDropped, AllLookedUp, KeyIsGood
  <2> QED BY <2>1, <2>6
<1>2. ASSUME NEW e \in Elections, NEW access \in Access, GetProcess(r, e, access)
      PROVE  Gathers(request'[r])
  <2>1. request'[r].pc = "asked"
    BY <1>2 DEF GetProcess, TypeOK
  <2> QED BY <2>1, OthersGather DEF ListPcs
<1> QED BY <1>1, <1>2 DEF Arrive

LEMMA ViewPc ==
  ASSUME TypeOK, NEW r \in Requests, ViewStep(r)
  PROVE  /\ request[r].pc \in {"asked", "found", "parsed", "started"}
         /\ request'[r].pc \in {"found", "parsed", "started", "viewed", "refused"}
<1>1. request[r].pc \in {"asked", "found", "parsed", "started"} => request[r] \in View
  BY Kind
<1>2. CASE Refuse(r)
  BY <1>2 DEF Refuse, Refused, TypeOK
<1>3. CASE GetElection(r)
  BY <1>1, <1>3 DEF GetElection, Refused, TypeOK, View
<1>4. CASE ParseProcessInfo(r)
  BY <1>1, <1>4 DEF ParseProcessInfo, TypeOK, View
<1>5. CASE ReadStartDate(r)
  BY <1>1, <1>5 DEF ReadStartDate, TypeOK, View
<1>6. CASE ReadEndDate(r)
  BY <1>1, <1>6 DEF ReadEndDate, TypeOK, View
<1> QED BY <1>2, <1>3, <1>4, <1>5, <1>6 DEF ViewStep

LEMMA ViewStepGathers ==
  ASSUME TypeOK, NEW r \in Requests, ViewStep(r)
  PROVE  Gathers(request'[r])
  BY ViewPc, OthersGather DEF ListPcs

(* A step of a handler changes its own record only.                        *)
LEMMA QuietStep ==
  ASSUME TypeOK, NEW r \in Requests, Arrive(r) \/ ListStep(r) \/ ViewStep(r)
  PROVE  /\ UNCHANGED <<cache, process, row, stirred>>
         /\ \A s \in Requests : s # r => request'[s] = request[s]
<1>1. UNCHANGED <<cache, process, row, stirred>>
  BY DEF Arrive, ListProcesses, GetProcess, ListStep, FetchProcessList, FetchFails,
         ReadHeight, LookUp, EndList, ViewStep, Refuse, GetElection,
         ParseProcessInfo, ReadStartDate, ReadEndDate, OutsideUnchanged
<1>2. \A s \in Requests : s # r => request'[s] = request[s]
  BY DEF TypeOK, Arrive, ListProcesses, GetProcess, ListStep, FetchProcessList,
         FetchFails, ReadHeight, LookUp, EndList, ViewStep, Refuse, GetElection,
         ParseProcessInfo, ReadStartDate, ReadEndDate
<1> QED BY <1>1, <1>2

-----------------------------------------------------------------------------
(* The whole.                                                              *)

(* What a list gathers depends on its record, the elections and the rows.  *)
LEMMA SameElections ==
  ASSUME UNCHANGED <<process, row>>, \A r \in Requests \ stirred' : Gathers(request'[r])
  PROVE  GatherInv'
<1> SUFFICES ASSUME NEW r \in (Requests \ stirred)'
             PROVE  Gathers(request[r])'
  BY DEF GatherInv
<1>1. Gathers(request'[r])
  OBVIOUS
<1>2. Wanted(request[r])' = Wanted(request'[r])
  BY DEF Wanted, Matching
<1>3. \A e \in Elections : Due(request[r], e)' <=> Due(request'[r], e)
  BY DEF Due, InList
<1>4. PagesJoin(request[r])'
  BY <1>1, <1>2 DEF Gathers, PagesJoin
<1>5. PagesComplete(request[r])'
  BY <1>1, <1>2 DEF Gathers, PagesComplete
<1>6. NoneDropped(request[r])'
  BY <1>1, <1>2, <1>3 DEF Gathers, NoneDropped
<1>7. AllLookedUp(request[r])' /\ KeyIsGood(request[r])'
  BY <1>1 DEF Gathers, AllLookedUp, KeyIsGood
<1> QED BY <1>4, <1>5, <1>6, <1>7 DEF Gathers

LEMMA InitGathers == Init => GatherInv
<1> SUFFICES ASSUME Init, NEW r \in Requests PROVE Gathers(request[r])
  BY DEF GatherInv
<1>1. request[r].pc = "idle"
  BY DEF Init, Idle
<1> QED BY <1>1, OthersGather DEF ListPcs

(* Growth of the chain and a refresh leave lists alone; what else changes  *)
(* stirs every list that it could make wrong.                              *)
LEMMA EnvironmentGathers ==
  ASSUME TypeOK, GatherInv, Environment
  PROVE  GatherInv'
<1>1. CASE Grow \/ Refresh \/ ResetKey
  <2>1. UNCHANGED <<process, row>>
    BY <1>1 DEF Grow, Refresh, ResetKey
  <2>2. \A r \in Requests \ stirred' : request'[r] = request[r] /\ r \notin stirred
    BY <1>1 DEF Grow, Refresh, ResetKey
  <2>3. \A r \in Requests \ stirred' : Gathers(request'[r])
    BY <2>2 DEF GatherInv
  <2> QED BY <2>1, <2>3, SameElections
<1>2. ASSUME NEW e \in Elections,
             CreateProcess(e) \/ Commit(e) \/ PublishResults(e)
               \/ \E status \in Status : SetProcessStatus(e, status)
      PROVE  GatherInv'
  <2>1. request' = request /\ stirred' = {r \in Requests : Running(r)}
    BY <1>2 DEF CreateProcess, Commit, PublishResults, SetProcessStatus, Stir
  <2>2. \A r \in Requests \ stirred' : request'[r].pc \in {"idle", "failed", "refused"}
    BY <2>1 DEF Running
  <2> QED BY <2>2
      DEF GatherInv, Gathers, PagesJoin, PagesComplete, NoneDropped, AllLookedUp, KeyIsGood,
          ListPcs
<1> QED BY <1>1, <1>2 DEF Environment

LEMMA StepGathers == TypeOK /\ GatherInv /\ [Next]_vars => GatherInv'
<1> SUFFICES ASSUME TypeOK, GatherInv, [Next]_vars PROVE GatherInv'
  OBVIOUS
<1>1. CASE Environment
  BY <1>1, EnvironmentGathers
<1>2. ASSUME NEW r \in Requests, Arrive(r) \/ ListStep(r) \/ ViewStep(r)
      PROVE  GatherInv'
  <2>1. UNCHANGED <<process, row, stirred>>
    BY <1>2, QuietStep
  <2>2. \A s \in Requests : s # r => request'[s] = request[s]
    BY <1>2, QuietStep
  <2>3. r \notin stirred => Gathers(request'[r])
    BY <1>2, ArriveGathers, ListStepGathers, ViewStepGathers DEF GatherInv
  <2>4. \A s \in Requests \ stirred : Gathers(request'[s])
    BY <2>2, <2>3 DEF GatherInv
  <2> QED BY <2>1, <2>4, SameElections
<1>3. CASE UNCHANGED vars
  <2>1. UNCHANGED <<process, row, request, stirred>>
    BY <1>3 DEF vars
  <2> QED BY <2>1, SameElections DEF GatherInv
<1> QED BY <1>1, <1>2, <1>3 DEF Next

(* What a list should name matches what the gateway is asked for, and is   *)
(* in the list by its blocks.                                              *)
LEMMA ExpectedIsDue ==
  ASSUME TypeOK, NEW q \in List, NEW e \in Elections, process[e] # Nil,
         Expected(e, q.filter, q.height)
  PROVE  e \in Wanted(q) /\ InList(q.filter, e, q.height)
<1>1. process[e] \in Process
  BY DEF TypeOK
<1>2. q.height \in Nat
  <2>1. q.height \in 0..MaxHeight /\ MaxHeight \in Nat
    BY ElectionViewsConstants DEF List
  <2> QED BY <2>1
<1>3. CASE q.filter \in {"ACTIVE", "UPCOMING"}
  <2>1. /\ process[e].status = "READY" /\ ProcessStatus(process[e], q.height) = q.filter
        /\ SameBlocks(e) /\ ~AtStart(e, q.height)
    BY <1>3 DEF Expected
  <2>2. e \in Wanted(q)
    BY <1>3, <2>1 DEF Wanted, GwFilter, Matching
  <2>3. process[e].start \in Nat /\ process[e].end \in Nat
    BY <1>1 DEF Process
  <2>4. CASE q.filter = "ACTIVE"
    <3>1. process[e].start < q.height /\ process[e].end > q.height
      BY <2>1, <2>4 DEF ProcessStatus
    <3> QED BY <2>1, <2>2, <2>4, <3>1 DEF SameBlocks, InList
  <2>5. CASE q.filter = "UPCOMING"
    <3>1. process[e].start >= q.height
      BY <2>1, <2>5 DEF ProcessStatus
    <3>2. process[e].start > q.height
      BY <1>2, <2>1, <2>3, <3>1 DEF AtStart
    <3> QED BY <2>1, <2>2, <2>5, <3>2 DEF SameBlocks, InList
  <2> QED BY <1>3, <2>4, <2>5
<1>4. CASE q.filter \in {"PAUSED", "CANCELED"}
  <2>1. ProcessStatus(process[e], q.height) = q.filter
    BY <1>4 DEF Expected
  <2>2. process[e].status = q.filter
    BY <1>4, <2>1 DEF ProcessStatus
  <2> QED BY <1>4, <2>2 DEF Wanted, GwFilter, Matching, InList
<1>5. CASE q.filter = "ENDED"
  BY <1>5 DEF Expected, Wanted, GwFilter, Matching, InList
<1>6. CASE q.filter \in {"BLIND", "SIGNED"}
  BY <1>6 DEF Expected, Wanted, GwFilter, Matching, InList
<1>7. CASE q.filter \notin {"ACTIVE", "UPCOMING", "PAUSED", "CANCELED", "ENDED", "BLIND",
                            "SIGNED"}
  <2>1. q.filter = ""
    BY <1>7 DEF Expected
  <2> QED BY <2>1 DEF Wanted, GwFilter, Matching, InList
<1> QED BY <1>3, <1>4, <1>5, <1>6, <1>7

-----------------------------------------------------------------------------
(* Theorem.                                                                *)

(* A list names every election it should, on whichever page the gateway    *)
(* answers it, and each one once, unless an election, a row or the key     *)
(* changed during the request (getProcessList, appendProcess): for any     *)
(* size of a page and any number of elections.                             *)
THEOREM ListsComplete == Spec => []ListComplete
<1>1. TypeOK /\ GatherInv => ListComplete
  <2> SUFFICES ASSUME TypeOK, GatherInv, NEW r \in Requests \ stirred,
                      request[r].pc = "listed", NEW e \in Elections
               PROVE  LET q == request[r]
                      IN  /\ q.shown[e] <= 1
                          /\ /\ process[e] # Nil /\ row[e].state = "stored"
                             /\ Visible(e, q.access)
                             /\ Expected(e, q.filter, q.height)
                             => q.shown[e] = 1
    BY DEF ListComplete
  <2> DEFINE q == request[r]
  <2>1. q \in List /\ q.shown[e] \in Nat
    <3>1. q \in List
      BY Kind
    <3> QED BY <3>1 DEF List
  <2>2. /\ q.todo[e] = 0 /\ q.todo[e] + q.shown[e] <= 1
        /\ e \in Wanted(q) /\ Due(q, e) => q.shown[e] = 1
    BY DEF GatherInv, Gathers, NoneDropped, AllLookedUp
  <2>3. ASSUME process[e] # Nil, row[e].state = "stored", Visible(e, q.access),
               Expected(e, q.filter, q.height)
        PROVE  q.shown[e] = 1
    <3>1. e \in Wanted(q) /\ InList(q.filter, e, q.height)
      BY <2>1, <2>3, ExpectedIsDue
    <3>2. Due(q, e)
      BY <2>3, <3>1 DEF Due
    <3> QED BY <2>2, <3>1, <3>2
  <2>4. q.shown[e] <= 1
    <3> HIDE DEF q
    <3> QED BY <2>1, <2>2
  <2> QED BY <2>3, <2>4
<1>2. Init => GatherInv
  BY InitGathers
<1>3. TypeOK /\ GatherInv /\ [Next]_vars => GatherInv'
  BY StepGathers
<1> QED BY <1>1, <1>2, <1>3, ViewsTypeCorrect, PTL DEF Spec

-----------------------------------------------------------------------------
(* A list is that of one instant.                                          *)

(* A request is not disturbed before it arrives.                           *)
CalmInv == \A r \in stirred : r \in Requests /\ request[r].pc # "idle"

(* What a step of a list does to its record.                               *)
LEMMA ListRecord ==
  ASSUME TypeOK, NEW r \in Requests, ListStep(r)
  PROVE  LET q == request[r]
             p == request'[r]
         IN  \/ q.pc \in {"fetching", "looking"} /\ p = Failed
             \/ /\ p.filter = q.filter /\ p.access = q.access
                /\ \/ q.pc = "fetching" /\ p.pc \in {"fetching", "fetched"}
                   \/ q.pc = "fetched" /\ p.pc = "looking" /\ p.height = cache.height
                   \/ q.pc = "looking" /\ p.pc = "looking" /\ p.height = q.height
                   \/ /\ q.pc = "looking" /\ p.pc = "listed" /\ p.shown = q.shown
                      /\ p.height = q.height /\ \A e \in Elections : q.todo[e] = 0
<1> DEFINE q == request[r]
<1>0. request \in [Requests -> Bare \cup List \cup View]
  BY DEF TypeOK
<1>1. CASE FetchProcessList(r)
  <2>1. q \in List /\ q.pc = "fetching"
    BY <1>1, Kind DEF FetchProcessList
  <2> DEFINE page == Page(GwFilter(q.filter), q.from)
             todo == [e \in Elections |-> IF e \in page THEN q.todo[e] + 1 ELSE q.todo[e]]
             from == q.from + Cardinality(page)
             pc == IF Cardinality(page) < PageSize THEN "fetched" ELSE q.pc
             p == [q EXCEPT !.from = from, !.todo = todo, !.pc = pc]
  <2>2. request'[r] = p
    BY <1>0, <1>1 DEF FetchProcessList
  <2>3. pc \in {"fetching", "fetched"}
    BY <2>1
  <2> HIDE DEF page, todo, from, pc
  <2>4. p.pc = pc /\ p.filter = q.filter /\ p.access = q.access
    BY <2>1 DEF List
  <2> HIDE DEF p
  <2> QED BY <2>1, <2>2, <2>3, <2>4
<1>2. CASE FetchFails(r)
  BY <1>0, <1>2 DEF FetchFails
<1>3. CASE ReadHeight(r)
  <2>1. q \in List /\ q.pc = "fetched"
    BY <1>3, Kind DEF ReadHeight
  <2> QED BY <1>0, <1>3, <2>1 DEF ReadHeight, List
<1>4. ASSUME NEW e \in Elections, LookUp(r, e)
      PROVE  \/ q.pc = "looking" /\ request'[r] = Failed
             \/ /\ request'[r].filter = q.filter /\ request'[r].access = q.access
                /\ q.pc = "looking" /\ request'[r].pc = "looking"
                /\ request'[r].height = q.height
  <2>1. q \in List /\ q.pc = "looking"
    BY <1>4, Kind DEF LookUp
  <2> DEFINE found == Found(e, q.access, q.keyed)
             named == found /\ InList(q.filter, e, q.height) /\ Visible(e, q.access)
             shown == IF named THEN q.shown[e] + 1 ELSE q.shown[e]
             p == [q EXCEPT !.todo[e] = q.todo[e] - 1, !.shown[e] = shown]
  <2>2. request' = [request EXCEPT ![r] = IF found /\ q.filter = "READY" THEN Failed ELSE p]
    BY <1>4 DEF LookUp
  <2> HIDE DEF found, shown
  <2>3. /\ p.pc = "looking" /\ p.filter = q.filter /\ p.access = q.access
        /\ p.height = q.height
    BY <2>1 DEF List
  <2> HIDE DEF p
  <2>4. request'[r] = Failed \/ request'[r] = p
    BY <1>0, <2>2
  <2> QED BY <2>1, <2>3, <2>4
<1>5. CASE EndList(r)
  <2>1. q \in List /\ q.pc = "looking"
    BY <1>5, Kind DEF EndList
  <2> QED BY <1>0, <1>5, <2>1 DEF EndList, List
<1> QED BY <1>1, <1>2, <1>3, <1>4, <1>5 DEF ListStep

LEMMA StepCalm == TypeOK /\ CalmInv /\ [Next]_vars => CalmInv'
<1> SUFFICES ASSUME TypeOK, CalmInv, [Next]_vars PROVE CalmInv'
  OBVIOUS
<1>1. CASE Grow \/ Refresh
  BY <1>1 DEF Grow, Refresh, CalmInv
<1>2. CASE ResetKey
  <2>1. ASSUME NEW r \in stirred'
        PROVE  r \in Requests /\ request'[r].pc # "idle"
    <3>1. r \in Requests /\ request[r].pc # "idle"
      BY <1>2, <2>1 DEF ResetKey, CalmInv, Keyed, Running
    <3>2. CASE Keyed(r)
      <4>1. request[r] \in List \cup View
        BY <3>1, <3>2, Kind DEF Keyed
      <4>2. request'[r].pc = request[r].pc
        BY <1>2, <3>1, <3>2, <4>1 DEF ResetKey, List, View
      <4> QED BY <3>1, <4>2
    <3>3. CASE ~Keyed(r)
      BY <1>2, <3>1, <3>3 DEF ResetKey
    <3> QED BY <3>2, <3>3
  <2> QED BY <2>1 DEF CalmInv
<1>3. CASE \E e \in Elections :
             CreateProcess(e) \/ Commit(e) \/ PublishResults(e)
               \/ \E status \in Status : SetProcessStatus(e, status)
  <2>1. request' = request /\ stirred' = {r \in Requests : Running(r)}
    BY <1>3 DEF CreateProcess, Commit, PublishResults, SetProcessStatus, Stir
  <2> QED BY <2>1 DEF CalmInv, Running
<1>4. ASSUME NEW r \in Requests, Arrive(r) \/ ListStep(r) \/ ViewStep(r)
      PROVE  CalmInv'
  <2>1. stirred' = stirred
    BY <1>4, QuietStep
  <2>2. \A s \in Requests : s # r => request'[s] = request[s]
    BY <1>4, QuietStep
  <2>3. request'[r].pc # "idle"
    <3>1. CASE Arrive(r)
      BY <3>1 DEF Arrive, ListProcesses, GetProcess, TypeOK
    <3>2. CASE ListStep(r)
      BY <3>2, ListRecord DEF Failed
    <3>3. CASE ViewStep(r)
      BY <3>3, ViewPc
    <3> QED BY <1>4, <3>1, <3>2, <3>3
  <2> QED BY <2>1, <2>2, <2>3 DEF CalmInv
<1>5. CASE UNCHANGED vars
  BY <1>5 DEF vars, CalmInv
<1> QED BY <1>1, <1>2, <1>3, <1>4, <1>5 DEF Next, Environment

(* What the environment's steps leave alone is seen alike.                 *)
LEMMA NamedSame ==
  ASSUME UNCHANGED <<process, row>>
  PROVE  /\ \A filter, height : Named(filter, height)' = Named(filter, height)
         /\ cache'.height = cache.height => NamedNow' = NamedNow
<1>1. ASSUME NEW filter, NEW height
      PROVE  Named(filter, height)' = Named(filter, height)
  BY DEF Named, Matching, InList
<1> QED BY <1>1 DEF NamedNow

LEMMA PromisedSame ==
  ASSUME NEW r, UNCHANGED <<process, row>>, request'[r] = request[r],
         r \in stirred' <=> r \in stirred
  PROVE  Promised(r)' = Promised(r)
<1>1. /\ (request[r].pc)' = request[r].pc /\ (request[r].filter)' = request[r].filter
      /\ (request[r].access)' = request[r].access
      /\ (request[r].shown)' = request[r].shown
      /\ Named(request[r].filter, request[r].height)'
           = Named(request[r].filter, request[r].height)
  BY DEF Named, Matching, InList
<1> QED BY <1>1 DEF Promised, Visible

(* Nothing is promised to a list during which something changed.           *)
LEMMA PromisedDisturbed ==
  ASSUME NEW r, request[r].pc \in ListPcs, r \in stirred
  PROVE  Promised(r) = Listing!Disturbed
  BY DEF Promised, ListPcs, Listing!Disturbed

(* An undisturbed list that is through with its lookups has what one look  *)
(* would have given it when it read the height.                            *)
LEMMA NamedOnce ==
  ASSUME TypeOK, GatherInv, NEW r \in Requests \ stirred, request[r].pc = "looking",
         \A e \in Elections : request[r].todo[e] = 0
  PROVE  LET q == request[r]
         IN  q.shown = [e \in Elections |->
               IF e \in Named(q.filter, q.height) /\ Visible(e, q.access) THEN 1 ELSE 0]
<1> DEFINE q == request[r]
           named == {e \in Named(q.filter, q.height) : Visible(e, q.access)}
<1>1. q.shown \in [Elections -> Nat]
  <2>1. q \in List
    BY Kind
  <2> QED BY <2>1 DEF List
<1>2. \A e \in Elections : e \in named <=> e \in Wanted(q) /\ Due(q, e)
  BY DEF Named, Wanted, Due
<1>3. ASSUME NEW e \in Elections
      PROVE  q.shown[e] = IF e \in named THEN 1 ELSE 0
  <2>1. /\ q.todo[e] = 0 /\ q.shown[e] \in Nat
        /\ e \in Wanted(q) /\ q.todo[e] = 0 /\ Due(q, e) => q.shown[e] = 1
        /\ q.shown[e] > 0 => e \in Wanted(q) /\ Due(q, e)
    BY <1>1 DEF GatherInv, Gathers, NoneDropped
  <2> HIDE DEF q, named
  <2> QED BY <1>2, <2>1
<1> HIDE DEF named
<1>4. q.shown = [e \in Elections |-> IF e \in named THEN 1 ELSE 0]
  BY <1>1, <1>3
<1> QED BY <1>4 DEF named

LEMMA NamedType == NamedNow \in [Filters -> SUBSET Elections]
  BY DEF NamedNow, Named, Matching

(* A step of a handler promises something to one request.                  *)
LEMMA OnePromise ==
  ASSUME TypeOK, NEW r \in Requests, Arrive(r) \/ ListStep(r) \/ ViewStep(r)
  PROVE  /\ NamedNow' = NamedNow
         /\ PromisedLists' = [PromisedLists EXCEPT ![r] = Promised(r)']
<1>1. /\ UNCHANGED <<cache, process, row, stirred>>
      /\ \A s \in Requests : s # r => request'[s] = request[s]
  BY QuietStep
<1>2. NamedNow' = NamedNow
  BY <1>1, NamedSame
<1>3. \A s \in Requests : s # r => Promised(s)' = Promised(s)
  BY <1>1, PromisedSame
<1> QED BY <1>2, <1>3 DEF PromisedLists

LEMMA ListStepPromises ==
  ASSUME TypeOK, GatherInv, NEW r \in Requests, ListStep(r)
  PROVE  \/ Listing!Take(r) \/ Listing!Answer(r) \/ Listing!Fail(r)
         \/ UNCHANGED <<NamedNow, PromisedLists>>
<1> DEFINE q == request[r]
           p == request'[r]
           kind == <<q.filter, q.access>>
<1>1. /\ NamedNow' = NamedNow
      /\ PromisedLists' = [PromisedLists EXCEPT ![r] = Promised(r)']
      /\ PromisedLists[r] = Promised(r)
  BY OnePromise DEF PromisedLists
<1>2. UNCHANGED <<cache, process, row, stirred>>
  BY QuietStep
<1>3. ASSUME Promised(r)' = Promised(r)
      PROVE  UNCHANGED <<NamedNow, PromisedLists>>
  BY <1>1, <1>3 DEF PromisedLists
<1>4. CASE q.pc \in {"fetching", "looking"} /\ p = Failed
  <2>1. Promised(r)' = Listing!None
    BY <1>4 DEF Promised, Failed, Listing!None
  <2>2. Promised(r).pc \in {"asked", "taken", "disturbed"}
    BY <1>4 DEF Promised
  <2> QED BY <1>1, <2>1, <2>2 DEF Listing!Fail
<1>5. CASE r \in stirred /\ p # Failed
  <2>1. q.pc \in ListPcs /\ p.pc \in ListPcs
    BY <1>5, ListRecord DEF ListPcs
  <2>2. Promised(r) = [pc |-> "disturbed"] /\ Promised(r)' = [pc |-> "disturbed"]
    BY <1>2, <1>5, <2>1 DEF Promised, ListPcs
  <2> QED BY <1>3, <2>2
<1>6. CASE r \notin stirred /\ p # Failed
  <2>1. p.filter = q.filter /\ p.access = q.access
    BY <1>6, ListRecord
  <2>2. CASE q.pc = "fetching" /\ p.pc \in {"fetching", "fetched"}
    <3>1. Promised(r)' = Promised(r)
      BY <1>2, <1>6, <2>1, <2>2 DEF Promised
    <3> QED BY <1>3, <3>1
  <2>3. CASE q.pc = "fetched" /\ p.pc = "looking" /\ p.height = cache.height
    <3>1. Promised(r) = [pc |-> "asked", kind |-> kind]
      BY <1>6, <2>3 DEF Promised
    <3>2. Named(request[r].filter, request[r].height)' = Named(q.filter, cache.height)
      BY <1>2, <2>1, <2>3 DEF Named, Matching, InList
    <3>3. Promised(r)' =
            [pc |-> "taken", kind |-> kind,
             names |-> [e \in Elections |->
               IF e \in Named(q.filter, cache.height) /\ Visible(e, q.access) THEN 1 ELSE 0]]
      BY <1>2, <1>6, <2>1, <2>3, <3>2 DEF Promised, Visible
    <3>4. NamedNow[q.filter] = Named(q.filter, cache.height)
      <4>1. q \in List
        BY <2>3, Kind
      <4> QED BY <4>1 DEF NamedNow, List
    <3>5. Listing!Names(kind) =
            [e \in Elections |->
               IF e \in Named(q.filter, cache.height) /\ Visible(e, q.access) THEN 1 ELSE 0]
      BY <3>4 DEF Listing!Names, Visible
    <3>6. Promised(r)' = [pc |-> "taken", kind |-> Promised(r).kind,
                          names |-> Listing!Names(Promised(r).kind)]
      BY <3>1, <3>3, <3>5
    <3> QED BY <1>1, <3>1, <3>6 DEF Listing!Take
  <2>4. CASE q.pc = "looking" /\ p.pc = "looking" /\ p.height = q.height
    <3>1. Named(request[r].filter, request[r].height)' = Named(q.filter, q.height)
      BY <1>2, <2>1, <2>4 DEF Named, Matching, InList
    <3>2. Promised(r)' = Promised(r)
      BY <1>2, <1>6, <2>1, <2>4, <3>1 DEF Promised, Visible
    <3> QED BY <1>3, <3>2
  <2>5. CASE /\ q.pc = "looking" /\ p.pc = "listed" /\ p.shown = q.shown
             /\ p.height = q.height /\ \A e \in Elections : q.todo[e] = 0
    <3>1. Promised(r) = [pc |-> "taken", kind |-> kind, names |-> q.shown]
      <4>1. q.shown = [e \in Elections |->
              IF e \in Named(q.filter, q.height) /\ Visible(e, q.access) THEN 1 ELSE 0]
        BY <1>6, <2>5, NamedOnce
      <4> QED BY <1>6, <2>5, <4>1 DEF Promised
    <3>2. Promised(r)' = [pc |-> "answered", kind |-> kind, names |-> q.shown]
      BY <1>2, <1>6, <2>1, <2>5 DEF Promised
    <3>3. Promised(r)' = [Promised(r) EXCEPT !.pc = "answered"]
      BY <3>1, <3>2
    <3>4. Promised(r).pc = "taken"
      BY <3>1
    <3> QED BY <1>1, <3>3, <3>4 DEF Listing!Answer
  <2> QED BY <1>6, <2>2, <2>3, <2>4, <2>5, ListRecord
<1> QED BY <1>4, <1>5, <1>6, ListRecord DEF Failed

LEMMA ArrivePromises ==
  ASSUME TypeOK, CalmInv, NEW r \in Requests, Arrive(r)
  PROVE  \/ Listing!Ask(r)
         \/ UNCHANGED <<NamedNow, PromisedLists>>
<1>1. /\ NamedNow' = NamedNow
      /\ PromisedLists' = [PromisedLists EXCEPT ![r] = Promised(r)']
      /\ PromisedLists[r] = Promised(r)
  BY OnePromise DEF PromisedLists
<1>2. stirred' = stirred
  BY QuietStep
<1>3. request[r].pc = "idle" /\ r \notin stirred
  BY DEF Arrive, ListProcesses, GetProcess, CalmInv
<1>4. Promised(r) = Listing!None
  BY <1>3 DEF Promised, Listing!None
<1>5. ASSUME NEW filter \in Filters, NEW access \in {"public", "integrator"},
             ListProcesses(r, filter, access)
      PROVE  Listing!Ask(r)
  <2>1. /\ request'[r].pc = "fetching" /\ request'[r].filter = filter
        /\ request'[r].access = access
    BY <1>5 DEF ListProcesses, TypeOK
  <2>2. Promised(r)' = [pc |-> "asked", kind |-> <<filter, access>>]
    BY <1>2, <1>3, <2>1 DEF Promised
  <2>3. <<filter, access>> \in Listing!Kinds
    BY DEF Listing!Kinds
  <2> QED BY <1>1, <1>4, <2>2, <2>3 DEF Listing!Ask
<1>6. ASSUME NEW e \in Elections, NEW access \in Access, GetProcess(r, e, access)
      PROVE  UNCHANGED <<NamedNow, PromisedLists>>
  <2>1. request'[r].pc = "asked"
    BY <1>6 DEF GetProcess, TypeOK
  <2>2. Promised(r)' = Listing!None
    BY <2>1 DEF Promised, Listing!None
  <2> QED BY <1>1, <1>4, <2>2 DEF PromisedLists
<1> QED BY <1>5, <1>6 DEF Arrive

LEMMA ViewPromises ==
  ASSUME TypeOK, NEW r \in Requests, ViewStep(r)
  PROVE  UNCHANGED <<NamedNow, PromisedLists>>
<1>1. /\ NamedNow' = NamedNow
      /\ PromisedLists' = [PromisedLists EXCEPT ![r] = Promised(r)']
  BY OnePromise
<1>2. Promised(r)' = Promised(r)
  BY ViewPc DEF Promised
<1> QED BY <1>1, <1>2 DEF PromisedLists

LEMMA EnvironmentPromises ==
  ASSUME TypeOK, Environment
  PROVE  \/ Listing!NewHeight \/ Listing!Change \/ Listing!Rekey
         \/ UNCHANGED <<NamedNow, PromisedLists>>
<1>0. NamedNow' \in [Filters -> SUBSET Elections]
  BY DEF NamedNow, Named, Matching
<1>1. ASSUME UNCHANGED <<process, row, request, stirred>>
      PROVE  UNCHANGED PromisedLists
  <2>1. \A r \in Requests : Promised(r)' = Promised(r)
    BY <1>1, PromisedSame
  <2> QED BY <2>1 DEF PromisedLists
<1>2. CASE Grow
  <2>1. NamedNow' = NamedNow
    BY <1>2, NamedSame DEF Grow
  <2>2. UNCHANGED PromisedLists
    BY <1>1, <1>2 DEF Grow
  <2> QED BY <2>1, <2>2
<1>3. CASE Refresh
  <2>1. UNCHANGED PromisedLists
    BY <1>1, <1>3 DEF Refresh
  <2>2. ASSUME NEW filter \in Filters \ Listing!ByHeight
        PROVE  NamedNow'[filter] = NamedNow[filter]
    <3>1. UNCHANGED <<process, row>>
      BY <1>3 DEF Refresh
    <3>2. Named(filter, cache.height)' = Named(filter, cache.height)
      BY <2>2, <3>1 DEF Named, Matching, InList, Listing!ByHeight
    <3> QED BY <3>2 DEF NamedNow
  <2>3. Listing!NewHeight
    BY <1>0, <2>1, <2>2 DEF Listing!NewHeight
  <2> QED BY <2>3
<1>4. CASE ResetKey
  <2>1. NamedNow' = NamedNow
    BY <1>4, NamedSame DEF ResetKey
  <2>2. ASSUME NEW r \in Requests
        PROVE  Promised(r)' =
                 IF /\ Promised(r).pc \in {"asked", "taken", "answered"}
                    /\ Promised(r).kind[2] = "integrator"
                   THEN Listing!Disturbed ELSE Promised(r)
    <3> DEFINE q == request[r]
    <3>1. UNCHANGED <<process, row>>
      BY <1>4 DEF ResetKey
    <3>2. CASE q.pc \notin ListPcs
      <4>1. request'[r].pc = q.pc
        <5>1. Keyed(r) => q \in View
          BY <3>2, Kind DEF Keyed, List, ListPcs
        <5> QED BY <1>4, <5>1 DEF ResetKey, View
      <4> QED BY <3>2, <4>1 DEF Promised, ListPcs
    <3>3. CASE q.pc \in ListPcs /\ Keyed(r)
      <4>1. q \in List
        BY <3>3, Kind DEF ListPcs
      <4>2. request'[r].pc = q.pc /\ r \in stirred'
        BY <1>4, <3>3, <4>1 DEF ResetKey, List
      <4>3. Promised(r)' = Listing!Disturbed
        BY <3>3, <4>2 DEF Promised, ListPcs, Listing!Disturbed
      <4>4. CASE r \in stirred
        <5>1. Promised(r) = Listing!Disturbed
          BY <3>3, <4>4, PromisedDisturbed
        <5> QED BY <4>3, <5>1
      <4>5. CASE r \notin stirred
        <5>1. Promised(r).pc \in {"asked", "taken", "answered"}
          BY <3>3, <4>5 DEF Promised, ListPcs
        <5>2. Promised(r).kind[2] = "integrator"
          BY <3>3, <4>5 DEF Promised, ListPcs, Keyed
        <5> QED BY <4>3, <5>1, <5>2
      <4> QED BY <4>4, <4>5
    <3>4. CASE q.pc \in ListPcs /\ ~Keyed(r)
      <4>1. request'[r] = q /\ (r \in stirred' <=> r \in stirred)
        BY <1>4, <3>4 DEF ResetKey
      <4>2. Promised(r)' = Promised(r)
        BY <3>1, <4>1, PromisedSame
      <4>3. ~ (/\ Promised(r).pc \in {"asked", "taken", "answered"}
               /\ Promised(r).kind[2] = "integrator")
        <5>1. q.access # "integrator"
          BY <3>4 DEF Keyed, Running, ListPcs
        <5>2. Promised(r).pc \in {"asked", "taken", "answered"}
                => Promised(r).kind = <<q.filter, q.access>>
          BY DEF Promised
        <5> QED BY <5>1, <5>2
      <4> QED BY <4>2, <4>3
    <3> QED BY <3>2, <3>3, <3>4
  <2>3. Listing!Rekey
    BY <2>1, <2>2 DEF Listing!Rekey, PromisedLists
  <2> QED BY <2>3
<1>5. CASE \E e \in Elections :
             CreateProcess(e) \/ Commit(e) \/ PublishResults(e)
               \/ \E status \in Status : SetProcessStatus(e, status)
  <2>1. request' = request /\ stirred' = {r \in Requests : Running(r)}
    BY <1>5 DEF CreateProcess, Commit, PublishResults, SetProcessStatus, Stir
  <2>2. ASSUME NEW r \in Requests
        PROVE  Promised(r)' = IF Promised(r) = Listing!None THEN Listing!None
                              ELSE Listing!Disturbed
    <3>1. CASE request[r].pc \notin ListPcs
      BY <2>1, <3>1 DEF Promised, ListPcs, Listing!None
    <3>2. CASE request[r].pc \in ListPcs
      <4>1. r \in stirred'
        BY <2>1, <3>2 DEF Running, ListPcs
      <4>2. Promised(r)' = Listing!Disturbed
        BY <2>1, <3>2, <4>1 DEF Promised, ListPcs, Listing!Disturbed
      <4>3. Promised(r) # Listing!None
        <5>1. Promised(r).pc # "none"
          BY <3>2 DEF Promised, ListPcs
        <5> QED BY <5>1 DEF Listing!None
      <4> QED BY <4>2, <4>3
    <3> QED BY <3>1, <3>2
  <2>3. Listing!Change
    BY <1>0, <2>2 DEF Listing!Change, PromisedLists
  <2> QED BY <2>3
<1> QED BY <1>2, <1>3, <1>4, <1>5 DEF Environment

LEMMA StepPromises ==
  TypeOK /\ GatherInv /\ CalmInv /\ [Next]_vars
    => [Listing!ListingNext]_<<NamedNow, PromisedLists>>
<1> SUFFICES ASSUME TypeOK, GatherInv, CalmInv, [Next]_vars
             PROVE  Listing!ListingNext \/ UNCHANGED <<NamedNow, PromisedLists>>
  OBVIOUS
<1>1. CASE Environment
  BY <1>1, EnvironmentPromises DEF Listing!ListingNext
<1>2. ASSUME NEW r \in Requests, Arrive(r) \/ ListStep(r) \/ ViewStep(r)
      PROVE  Listing!ListingNext \/ UNCHANGED <<NamedNow, PromisedLists>>
  BY <1>2, ArrivePromises, ListStepPromises, ViewPromises DEF Listing!ListingNext
<1>3. CASE UNCHANGED vars
  <2>1. UNCHANGED <<cache, process, row, request, stirred>>
    BY <1>3 DEF vars
  <2>2. \A r \in Requests : Promised(r)' = Promised(r)
    BY <2>1, PromisedSame
  <2>3. NamedNow' = NamedNow
    BY <2>1, NamedSame
  <2> QED BY <2>2, <2>3 DEF PromisedLists
<1> QED BY <1>1, <1>2, <1>3 DEF Next

(* The handler's pages, its height and its lookups, with whatever happens  *)
(* in between, implement one look at all elections when the height is      *)
(* read, for any number of elections and pages: the code needs no lock     *)
(* over the three to answer with a list that was true at one instant,      *)
(* unless an election, a row or the key changed meanwhile.                 *)
THEOREM ListsAreSnapshots == Spec => ListIsSnapshot
<1>1. Init => Listing!ListingInit
  <2> SUFFICES ASSUME Init PROVE Listing!ListingInit
    OBVIOUS
  <2>1. \A r \in Requests : Promised(r) = Listing!None
    BY DEF Init, Idle, Promised, Listing!None
  <2> QED BY <2>1, NamedType DEF PromisedLists, Listing!ListingInit
<1>2. Init => GatherInv /\ CalmInv
  BY InitGathers DEF Init, CalmInv
<1>3. TypeOK /\ GatherInv /\ CalmInv /\ [Next]_vars => GatherInv' /\ CalmInv'
  BY StepGathers, StepCalm
<1>4. TypeOK /\ GatherInv /\ CalmInv /\ [Next]_vars
        => [Listing!ListingNext]_(Listing!listingVars)
  BY StepPromises DEF Listing!listingVars
<1> QED BY <1>1, <1>2, <1>3, <1>4, ViewsTypeCorrect, PTL
        DEF Spec, ListIsSnapshot, Listing!ListingSpec
=============================================================================
