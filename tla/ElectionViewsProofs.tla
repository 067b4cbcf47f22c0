------------------------- MODULE ElectionViewsProofs -------------------------
(***************************************************************************)
(* What holds of ElectionViews for any elections, pages, averages and      *)
(* number of requests.                                                     *)
(***************************************************************************)
EXTENDS ElectionViews, FiniteSetTheorems, TLAPS

LEMMA CacheType ==
  ASSUME NEW read \in Cache
  PROVE  read.height \in 0..MaxHeight /\ read.height \in Nat /\ read.times \in BlockTimes
<1>1. read.height \in 0..MaxHeight /\ read.times \in BlockTimes
  BY DEF Cache
<1>2. MaxHeight \in Nat
  BY ElectionViewsConstants
<1> QED BY <1>1, <1>2

(* getMaxTimeFrom never returns 0: the dates of two different blocks are   *)
(* different dates.                                                        *)
LEMMA AverageIsPositive ==
  ASSUME NEW times \in BlockTimes, NEW i \in 0..4
  PROVE  GetMaxTimeFrom(times, i) \in Nat \ {0}
<1> DEFINE known == {j \in 0..i : times[j] # 0}
           m == CHOOSE j \in known : \A k \in known : k <= j
<1>1. CASE known = {}
  BY <1>1, ElectionViewsConstants DEF GetMaxTimeFrom
<1>2. CASE known # {}
  <2>1. \E j \in known : \A k \in known : k <= j
    <3>1. known \subseteq 0..4 OBVIOUS
    <3>2. PICK k \in known : TRUE BY <1>2
    <3> QED BY <3>1, <3>2
  <2>2. m \in known
    BY <2>1
  <2>3. times[m] \in Nat \ {0}
    BY <2>2 DEF BlockTimes
  <2>4. GetMaxTimeFrom(times, i) = times[m]
    BY <1>2 DEF GetMaxTimeFrom
  <2> QED BY <2>3, <2>4
<1> QED BY <1>1, <1>2

LEMMA BlockTimeType ==
  ASSUME NEW read \in Cache, NEW height \in Nat
  PROVE  BlockTime(read, height) \in Nat \ {0}
<1>1. read.times \in BlockTimes
  BY DEF Cache
<1>2. 1 \in 0..4 /\ 3 \in 0..4 /\ 4 \in 0..4
  OBVIOUS
<1> QED BY <1>1, <1>2, AverageIsPositive DEF BlockTime

LEMMA SignOfProduct ==
  ASSUME NEW a \in Int, NEW t \in Nat \ {0}
  PROVE  /\ a * t \in Int
         /\ a >= 0 <=> a * t >= 0
         /\ a > 0 <=> a * t > 0
  OBVIOUS

LEMMA ProductOrder ==
  ASSUME NEW a \in Int, NEW b \in Int, NEW t \in Nat \ {0}, a <= b
  PROVE  a * t <= b * t
  OBVIOUS

(* A date lies in the future exactly if its block does.                    *)
LEMMA DateOfBlock ==
  ASSUME NEW read \in Cache, NEW height \in Nat
  PROVE  /\ EstimateBlockTime(read, height) \in Int
         /\ height >= read.height <=> EstimateBlockTime(read, height) >= 0
         /\ height > read.height <=> EstimateBlockTime(read, height) > 0
<1> DEFINE d == height - read.height
           t == BlockTime(read, height)
<1>1. d \in Int /\ read.height \in Nat
  BY CacheType
<1>2. t \in Nat \ {0}
  BY BlockTimeType
<1>3. EstimateBlockTime(read, height) = d * t
  BY DEF EstimateBlockTime
<1>4. (height >= read.height <=> d >= 0) /\ (height > read.height <=> d > 0)
  BY <1>1
<1> HIDE DEF d, t
<1> QED BY <1>1, <1>2, <1>3, <1>4, SignOfProduct

-----------------------------------------------------------------------------
(* Types.                                                                  *)

LEMMA ProcessStatusType ==
  ASSUME NEW p, NEW height
  PROVE  ProcessStatus(p, height) \in {"PAUSED", "CANCELED", "UPCOMING", "ACTIVE", "ENDED"}
  BY DEF ProcessStatus

LEMMA RowStartType ==
  ASSUME TypeOK, NEW e \in Elections
  PROVE  RowStart(e) \in Nat
<1>1. cache.height \in Nat
  BY CacheType DEF TypeOK
<1>2. StartBlock[e] \in Nat
  BY ElectionViewsConstants
<1> QED BY <1>1, <1>2 DEF RowStart, IMMEDIATE_PROCESS_CREATION_OFFSET

LEMMA PageType ==
  ASSUME NEW status, NEW from
  PROVE  /\ Page(status, from) \subseteq Matching(status)
         /\ Matching(status) \subseteq Elections
         /\ Cardinality(Page(status, from)) \in Nat
<1>1. Page(status, from) \subseteq Elections /\ Matching(status) \subseteq Elections
  BY DEF Page, Matching
<1>2. IsFiniteSet(Page(status, from))
  BY <1>1, FS_Subset, ElectionViewsConstants
<1>3. Cardinality(Page(status, from)) \in Nat
  BY <1>2, FS_CardinalityType
<1> QED BY <1>1, <1>3 DEF Page

(* The handler that takes a step of a list or of an answer is one.         *)
LEMMA Kind ==
  ASSUME TypeOK, NEW r \in Requests
  PROVE  /\ request[r].pc \in {"fetching", "fetched", "looking", "listed"}
              => request[r] \in List
         /\ request[r].pc \in {"asked", "found", "parsed", "started", "viewed"}
              => request[r] \in View
         /\ Running(r) => request[r] \in List \cup View
<1>1. request[r] \in Bare \cup List \cup View
  BY DEF TypeOK
<1> QED BY <1>1 DEF Bare, List, View, Running

(* What changes meanwhile keeps the types.                                 *)
LEMMA EnvironmentTypes ==
  ASSUME TypeOK, Environment
  PROVE  TypeOK'
<1>0. MaxHeight \in Nat /\ MaxChanges \in Nat
  BY ElectionViewsConstants
<1>1. CASE Grow
  <2>1. chain' \in 0..MaxHeight
    BY <1>0, <1>1 DEF TypeOK, Grow
  <2> QED BY <1>1, <2>1 DEF TypeOK, Grow
<1>2. CASE Refresh
  <2>1. PICK times \in AvgTimes \cup {cache.times} :
          cache' = [height |-> chain, times |-> times]
    BY <1>2 DEF Refresh
  <2>2. times \in BlockTimes
    <3>1. cache.times \in BlockTimes
      BY CacheType DEF TypeOK
    <3> QED BY <3>1, ElectionViewsConstants
  <2>3. cache' \in Cache
    BY <2>1, <2>2 DEF TypeOK, Cache
  <2> QED BY <1>2, <2>3 DEF TypeOK, Refresh
<1>3. CASE ResetKey
  <2>1. \A r \in Requests :
          Keyed(r) => [request[r] EXCEPT !.keyed = FALSE] \in List \cup View
    <3> SUFFICES ASSUME NEW r \in Requests, Keyed(r)
                 PROVE  [request[r] EXCEPT !.keyed = FALSE] \in List \cup View
      OBVIOUS
    <3>1. request[r] \in List \cup View
      BY Kind DEF Keyed
    <3> QED BY <3>1 DEF List, View
  <2>2. request' \in [Requests -> Bare \cup List \cup View]
    BY <1>3, <2>1 DEF TypeOK, ResetKey
  <2>3. stirred' \subseteq Requests
    BY <1>3 DEF TypeOK, ResetKey
  <2> QED BY <1>3, <2>2, <2>3 DEF TypeOK, ResetKey
<1>4. ASSUME NEW e \in Elections, CreateProcess(e)
      PROVE  TypeOK'
  <2>1. RowStart(e) \in Nat /\ BlockCount[e] \in Nat /\ StartBlock[e] \in Nat /\ chain \in Nat
    <3>1. chain \in 0..MaxHeight
      BY DEF TypeOK
    <3>2. BlockCount[e] \in Nat /\ StartBlock[e] \in Nat
      BY ElectionViewsConstants
    <3> QED BY <1>0, <3>1, <3>2, RowStartType
  <2>2. process' \in [Elections -> Process \cup {Nil}]
    BY <1>4, <2>1 DEF CreateProcess, TypeOK, Process, Status
  <2>3. row' \in [Elections -> Row]
    BY <1>4, <2>1 DEF CreateProcess, TypeOK, Row
  <2> QED BY <1>4, <2>2, <2>3 DEF CreateProcess, TypeOK, Stir
<1>5. ASSUME NEW e \in Elections, Commit(e)
      PROVE  TypeOK'
  BY <1>5 DEF Commit, TypeOK, Row, Stir
<1>6. ASSUME NEW e \in Elections, PublishResults(e)
      PROVE  TypeOK'
  <2>1. process' \in [Elections -> Process \cup {Nil}]
    BY <1>6 DEF PublishResults, TypeOK, Process, Status
  <2>2. changes' \in 0..MaxChanges
    BY <1>0, <1>6 DEF PublishResults, TypeOK
  <2> QED BY <1>6, <2>1, <2>2 DEF PublishResults, TypeOK, Stir
<1>7. ASSUME NEW e \in Elections, NEW status \in Status, SetProcessStatus(e, status)
      PROVE  TypeOK'
  <2>1. process' \in [Elections -> Process \cup {Nil}]
    BY <1>7 DEF SetProcessStatus, TypeOK, Process
  <2>2. changes' \in 0..MaxChanges
    BY <1>0, <1>7 DEF SetProcessStatus, TypeOK
  <2> QED BY <1>7, <2>1, <2>2 DEF SetProcessStatus, TypeOK, Stir
<1> QED BY <1>1, <1>2, <1>3, <1>4, <1>5, <1>6, <1>7 DEF Environment

LEMMA ListTypes ==
  ASSUME TypeOK, NEW r \in Requests, ListStep(r)
  PROVE  TypeOK'
<1> DEFINE q == request[r]
<1>0. SUFFICES request' \in [Requests -> Bare \cup List \cup View]
  BY DEF TypeOK, ListStep, FetchProcessList, FetchFails, ReadHeight, LookUp, EndList,
         OutsideUnchanged
<1>1. CASE FetchProcessList(r)
  <2>1. q \in List
    BY <1>1, Kind DEF FetchProcessList
  <2> DEFINE page == Page(GwFilter(q.filter), q.from)
             n == Cardinality(page)
             todo == [e \in Elections |-> IF e \in page THEN q.todo[e] + 1 ELSE q.todo[e]]
  <2>2. n \in Nat
    BY PageType
  <2>3. q.from + n \in Nat /\ todo \in [Elections -> Nat]
    BY <2>1, <2>2 DEF List
  <2>4. request' = [request EXCEPT ![r] =
          [q EXCEPT !.from = q.from + n, !.todo = todo,
                    !.pc = IF n < PageSize THEN "fetched" ELSE q.pc]]
    BY <1>1 DEF FetchProcessList
  <2> HIDE DEF n, todo
  <2>5. [q EXCEPT !.from = q.from + n, !.todo = todo,
                  !.pc = IF n < PageSize THEN "fetched" ELSE q.pc] \in List
    BY <2>1, <2>3 DEF List
  <2> QED BY <2>4, <2>5 DEF TypeOK
<1>2. CASE FetchFails(r)
  BY <1>2 DEF FetchFails, TypeOK, Failed, Bare
<1>3. CASE ReadHeight(r)
  <2>1. q \in List
    BY <1>3, Kind DEF ReadHeight
  <2>2. cache.height \in 0..MaxHeight
    BY CacheType DEF TypeOK
  <2>3. request' = [request EXCEPT ![r] = [q EXCEPT !.pc = "looking", !.height = cache.height]]
    BY <1>3 DEF ReadHeight, TypeOK
  <2>4. [q EXCEPT !.pc = "looking", !.height = cache.height] \in List
    BY <2>1, <2>2 DEF List
  <2> QED BY <2>3, <2>4 DEF TypeOK
<1>4. ASSUME NEW e \in Elections, LookUp(r, e)
      PROVE  request' \in [Requests -> Bare \cup List \cup View]
  <2>1. q \in List /\ q.todo[e] > 0
    BY <1>4, Kind DEF LookUp
  <2>2. PICK shown \in {q.shown[e], q.shown[e] + 1} :
          \/ request' = [request EXCEPT ![r] = Failed]
          \/ request' = [request EXCEPT ![r] =
               [q EXCEPT !.todo[e] = q.todo[e] - 1, !.shown[e] = shown]]
    BY <1>4 DEF LookUp
  <2>3. q.todo[e] - 1 \in Nat /\ shown \in Nat
    BY <2>1 DEF List
  <2>4. [q EXCEPT !.todo[e] = q.todo[e] - 1, !.shown[e] = shown] \in List
    BY <2>1, <2>3 DEF List
  <2>5. Failed \in Bare
    BY DEF Failed, Bare
  <2> QED BY <2>2, <2>4, <2>5 DEF TypeOK
<1>5. CASE EndList(r)
  <2>1. q \in List
    BY <1>5, Kind DEF EndList
  <2> QED BY <1>5, <2>1 DEF EndList, TypeOK, List
<1> QED BY <1>1, <1>2, <1>3, <1>4, <1>5 DEF ListStep

LEMMA ViewTypes ==
  ASSUME TypeOK, NEW r \in Requests, ViewStep(r)
  PROVE  TypeOK'
<1> DEFINE q == request[r]
<1>0. SUFFICES request' \in [Requests -> Bare \cup List \cup View]
  BY DEF TypeOK, ViewStep, Refuse, GetElection, ParseProcessInfo, ReadStartDate,
         ReadEndDate, OutsideUnchanged
<1>1. Refused \in Bare
  BY DEF Refused, Bare
<1>2. q.pc \in {"asked", "found", "parsed", "started"} => q \in View
  BY Kind
<1>3. cache \in Cache
  BY DEF TypeOK
<1>4. CASE Refuse(r)
  BY <1>1, <1>4 DEF Refuse, TypeOK
<1>5. CASE GetElection(r)
  <2>1. q \in View /\ [q EXCEPT !.pc = "found"] \in View
    BY <1>2, <1>5 DEF GetElection, View
  <2> QED BY <1>1, <1>5, <2>1 DEF GetElection, TypeOK
<1>6. CASE ParseProcessInfo(r)
  <2> DEFINE status == ProcessStatus(q.process, cache.height)
  <2>1. status \in {"PAUSED", "CANCELED", "UPCOMING", "ACTIVE", "ENDED"}
    BY ProcessStatusType
  <2>2. request' = [request EXCEPT ![r] =
          [q EXCEPT !.pc = "parsed", !.first = cache, !.status = status]]
    BY <1>6 DEF ParseProcessInfo
  <2> HIDE DEF status
  <2>3. [q EXCEPT !.pc = "parsed", !.first = cache, !.status = status] \in View
    BY <1>2, <1>3, <1>6, <2>1 DEF ParseProcessInfo, View
  <2> QED BY <2>2, <2>3 DEF TypeOK
<1>7. CASE ReadStartDate(r)
  <2> DEFINE date == EstimateBlockTime(cache, q.process.start)
             same == cache = q.first
  <2>1. q \in View /\ q.process.start \in Nat
    BY <1>2, <1>7 DEF ReadStartDate, View, Process
  <2>2. date \in Int /\ same \in BOOLEAN
    BY <1>3, <2>1, DateOfBlock
  <2>3. request' = [request EXCEPT ![r] =
          [q EXCEPT !.pc = "started", !.startDate = date, !.same = same]]
    BY <1>7 DEF ReadStartDate
  <2> HIDE DEF date, same
  <2>4. [q EXCEPT !.pc = "started", !.startDate = date, !.same = same] \in View
    BY <2>1, <2>2 DEF View
  <2> QED BY <2>3, <2>4 DEF TypeOK
<1>8. CASE ReadEndDate(r)
  <2> DEFINE date == EstimateBlockTime(cache, q.process.end)
             same == q.same /\ cache = q.first
  <2>1. q \in View /\ q.process.end \in Nat
    BY <1>2, <1>8 DEF ReadEndDate, View, Process
  <2>2. date \in Int /\ same \in BOOLEAN
    BY <1>3, <2>1, DateOfBlock
  <2>3. request' = [request EXCEPT ![r] =
          [q EXCEPT !.pc = "viewed", !.endDate = date, !.same = same]]
    BY <1>8 DEF ReadEndDate
  <2> HIDE DEF date, same
  <2>4. [q EXCEPT !.pc = "viewed", !.endDate = date, !.same = same] \in View
    BY <2>1, <2>2 DEF View
  <2> QED BY <2>3, <2>4 DEF TypeOK
<1> QED BY <1>4, <1>5, <1>6, <1>7, <1>8 DEF ViewStep

LEMMA ArriveTypes ==
  ASSUME TypeOK, NEW r \in Requests, Arrive(r)
  PROVE  TypeOK'
<1>0. SUFFICES request' \in [Requests -> Bare \cup List \cup View]
  BY DEF TypeOK, Arrive, ListProcesses, GetProcess, OutsideUnchanged
<1>1. ASSUME NEW filter \in Filters, NEW access \in {"public", "integrator"},
             ListProcesses(r, filter, access)
      PROVE  request' \in [Requests -> Bare \cup List \cup View]
  <2>1. 0 \in 0..MaxHeight
    <3>1. MaxHeight \in Nat
      BY ElectionViewsConstants
    <3> QED BY <3>1
  <2>2. [pc |-> "fetching", filter |-> filter, access |-> access, keyed |-> TRUE,
         from |-> 0, todo |-> [e \in Elections |-> 0], shown |-> [e \in Elections |-> 0],
         height |-> 0] \in List
    BY <2>1 DEF List
  <2> QED BY <1>1, <2>2 DEF ListProcesses, TypeOK
<1>2. ASSUME NEW e \in Elections, NEW access \in Access, GetProcess(r, e, access)
      PROVE  request' \in [Requests -> Bare \cup List \cup View]
  <2>1. process[e] \in Process /\ cache \in Cache
    BY <1>2 DEF GetProcess, TypeOK
  <2>2. [pc |-> "asked", election |-> e, access |-> access, keyed |-> TRUE,
         process |-> process[e], status |-> "ENDED", startDate |-> 0, endDate |-> 0,
         first |-> cache, same |-> TRUE] \in View
    BY <2>1 DEF View
  <2> QED BY <1>2, <2>2 DEF GetProcess, TypeOK
<1> QED BY <1>1, <1>2 DEF Arrive

-----------------------------------------------------------------------------
(* The inductive invariant.                                                *)

(* No process ends before it starts.                                       *)
ProcessInv ==
  \A e \in Elections : process[e] # Nil => process[e].start <= process[e].end

(* What a list has to look up or has named has the status it asked for,    *)
(* and is in the list by its blocks.                                       *)
ListInv ==
  \A r \in Requests \ stirred :
    request[r].pc \in {"fetching", "fetched", "looking", "listed"} =>
      \A e \in Elections :
        /\ request[r].todo[e] > 0 \/ request[r].shown[e] > 0
             => e \in Matching(GwFilter(request[r].filter))
        /\ request[r].shown[e] > 0
             => /\ request[r].pc \in {"looking", "listed"}
                /\ InList(request[r].filter, e, request[r].height)

(* Status and dates of an answer come from the reads that it remembers.    *)
Remembers(q) ==
  /\ q.pc \in {"asked", "found", "parsed", "started", "viewed"}
       => q.process.start <= q.process.end
  /\ q.pc \in {"parsed", "started", "viewed"}
       => q.status = ProcessStatus(q.process, q.first.height)
  /\ q.pc \in {"started", "viewed"} /\ q.same
       => q.startDate = EstimateBlockTime(q.first, q.process.start)
  /\ q.pc = "viewed" /\ q.same
       => q.endDate = EstimateBlockTime(q.first, q.process.end)

ViewInv == \A r \in Requests : Remembers(request[r])

IInv == TypeOK /\ ProcessInv /\ ListInv /\ ViewInv

LEMMA InitInv == Init => IInv
<1> SUFFICES ASSUME Init PROVE IInv
  OBVIOUS
<1>0. MaxHeight \in Nat /\ MaxChanges \in Nat
  BY ElectionViewsConstants
<1>1. ASSUME NEW e \in Elections
      PROVE  StartBlock[e] \in Nat /\ EndBlock(e) \in Nat /\ StartBlock[e] <= EndBlock(e)
  <2>1. StartBlock[e] \in Nat /\ BlockCount[e] \in Nat
    BY ElectionViewsConstants
  <2> QED BY <2>1 DEF EndBlock
<1>2. PICK paused \in SUBSET Old :
        process = [e \in Elections |->
          IF e \in Old
            THEN [status |-> IF e \in paused THEN "PAUSED" ELSE "READY",
                  start |-> StartBlock[e], end |-> EndBlock(e)]
            ELSE Nil]
  BY DEF Init
<1>3. TypeOK
  <2>1. cache \in Cache
    BY <1>0 DEF Init, Cache, BlockTimes
  <2>2. process \in [Elections -> Process \cup {Nil}]
    BY <1>1, <1>2 DEF Process, Status
  <2>3. row \in [Elections -> Row]
    BY <1>1 DEF Init, Row
  <2>4. request \in [Requests -> Bare \cup List \cup View]
    BY DEF Init, Idle, Bare
  <2>5. chain \in 0..MaxHeight
    <3>1. FirstHeight \in 0..MaxHeight
      BY ElectionViewsConstants
    <3> QED BY <3>1 DEF Init
  <2> QED BY <1>0, <2>1, <2>2, <2>3, <2>4, <2>5 DEF Init, TypeOK
<1>4. ProcessInv
  BY <1>1, <1>2 DEF ProcessInv
<1>5. ListInv /\ ViewInv
  BY DEF Init, Idle, ListInv, ViewInv, Remembers
<1> QED BY <1>3, <1>4, <1>5 DEF IInv

(* A change of an election, a row or the key stirs the requests that run.  *)
LEMMA EnvironmentInv ==
  ASSUME IInv, Environment
  PROVE  ProcessInv' /\ ListInv' /\ ViewInv'
<1>0. TypeOK /\ TypeOK'
  BY EnvironmentTypes DEF IInv
<1>1. CASE Grow \/ Refresh
  <2>1. UNCHANGED <<process, row, request, stirred>>
    BY <1>1 DEF Grow, Refresh
  <2>2. ProcessInv' /\ ViewInv'
    BY <2>1 DEF IInv, ProcessInv, ViewInv, Remembers
  <2>3. ListInv'
    BY <2>1 DEF IInv, ListInv, Matching, InList
  <2> QED BY <2>2, <2>3
<1>2. CASE ResetKey
  <2>1. UNCHANGED <<process, row>>
    BY <1>2 DEF ResetKey
  <2>2. ASSUME NEW r \in Requests
        PROVE  request'[r] = request[r] \/ request'[r] = [request[r] EXCEPT !.keyed = FALSE]
    BY <1>2 DEF ResetKey
  <2>3. ProcessInv'
    BY <2>1 DEF IInv, ProcessInv
  <2>4. ViewInv'
    <3> SUFFICES ASSUME NEW r \in Requests PROVE Remembers(request'[r])
      BY DEF ViewInv
    <3>1. Remembers(request[r])
      BY DEF IInv, ViewInv
    <3>2. CASE request'[r] = request[r]
      BY <3>1, <3>2
    <3>3. CASE Keyed(r) /\ request'[r] = [request[r] EXCEPT !.keyed = FALSE]
      <4>1. request[r] \in List \cup View
        BY <1>0, <3>3, Kind DEF Keyed
      <4>2. CASE request[r] \in List
        BY <3>3, <4>2 DEF List, Remembers
      <4>3. CASE request[r] \in View
        BY <3>1, <3>3, <4>3 DEF View, Remembers
      <4> QED BY <4>1, <4>2, <4>3
    <3> QED BY <1>2, <3>2, <3>3 DEF ResetKey
  <2>5. ListInv'
    <3>1. ASSUME NEW r \in Requests \ stirred'
          PROVE  request'[r] = request[r] /\ r \notin stirred
      BY <1>2, <3>1 DEF ResetKey
    <3> QED BY <2>1, <3>1 DEF IInv, ListInv, Matching, InList
  <2> QED BY <2>3, <2>4, <2>5
<1>3. ASSUME NEW e \in Elections,
             CreateProcess(e) \/ Commit(e) \/ PublishResults(e)
               \/ \E status \in Status : SetProcessStatus(e, status)
      PROVE  ProcessInv' /\ ListInv' /\ ViewInv'
  <2>1. request' = request /\ stirred' = {r \in Requests : Running(r)}
    BY <1>3 DEF CreateProcess, Commit, PublishResults, SetProcessStatus, Stir
  <2>2. ViewInv'
    BY <2>1 DEF IInv, ViewInv, Remembers
  <2>3. ListInv'
    BY <2>1 DEF ListInv, Running
  <2>4. ProcessInv'
    <3>1. CASE CreateProcess(e)
      <4> DEFINE start == IF StartBlock[e] = 0 THEN chain ELSE StartBlock[e]
      <4>1. BlockCount[e] \in Nat /\ StartBlock[e] \in Nat
        BY ElectionViewsConstants
      <4>2. start \in Nat
        BY <1>0, <4>1 DEF TypeOK
      <4>3. process' = [process EXCEPT ![e] =
              [status |-> "READY", start |-> start, end |-> start + BlockCount[e]]]
        BY <3>1 DEF CreateProcess
      <4>4. start <= start + BlockCount[e]
        BY <4>1, <4>2
      <4> HIDE DEF start
      <4> QED BY <1>0, <4>3, <4>4 DEF IInv, ProcessInv, TypeOK
    <3>2. CASE Commit(e)
      BY <3>2 DEF Commit, IInv, ProcessInv
    <3>3. ASSUME NEW status \in Status, process[e] # Nil,
                 process' = [process EXCEPT ![e].status = status]
          PROVE  ProcessInv'
      <4>1. process[e] \in Process
        BY <1>0, <3>3 DEF TypeOK
      <4> QED BY <1>0, <3>3, <4>1 DEF IInv, ProcessInv, TypeOK, Process
    <3>4. CASE PublishResults(e)
      BY <3>3, <3>4 DEF PublishResults, Status
    <3>5. CASE \E status \in Status : SetProcessStatus(e, status)
      BY <3>3, <3>5 DEF SetProcessStatus
    <3> QED BY <1>3, <3>1, <3>2, <3>4, <3>5
  <2> QED BY <2>2, <2>3, <2>4
<1> QED BY <1>1, <1>2, <1>3 DEF Environment

(* The part of ListInv about one request.                                  *)
ListOk(q) ==
  q.pc \in {"fetching", "fetched", "looking", "listed"} =>
    \A e \in Elections :
      /\ q.todo[e] > 0 \/ q.shown[e] > 0 => e \in Matching(GwFilter(q.filter))
      /\ q.shown[e] > 0
           => /\ q.pc \in {"looking", "listed"}
              /\ InList(q.filter, e, q.height)

LEMMA ListSteps ==
  ASSUME TypeOK, NEW r \in Requests, ListStep(r), ListOk(request[r])
  PROVE  /\ ListOk(request'[r]) /\ Remembers(request'[r])
         /\ request' = [request EXCEPT ![r] = request'[r]]
<1> DEFINE q == request[r]
<1>0. request \in [Requests -> Bare \cup List \cup View]
  BY DEF TypeOK
<1>1. CASE FetchProcessList(r)
  <2>1. q \in List /\ q.pc = "fetching"
    BY <1>1, Kind DEF FetchProcessList
  <2> DEFINE page == Page(GwFilter(q.filter), q.from)
             n == Cardinality(page)
             todo == [e \in Elections |-> IF e \in page THEN q.todo[e] + 1 ELSE q.todo[e]]
             pc == IF n < PageSize THEN "fetched" ELSE q.pc
             p == [q EXCEPT !.from = q.from + n, !.todo = todo, !.pc = pc]
  <2>2. page \subseteq Matching(GwFilter(q.filter))
    BY PageType
  <2>3. \A e \in Elections : todo[e] > 0 => e \in page \/ q.todo[e] > 0
    OBVIOUS
  <2>4. request' = [request EXCEPT ![r] = p]
    BY <1>1 DEF FetchProcessList
  <2>5. pc \in {"fetching", "fetched"}
    BY <2>1
  <2> HIDE DEF page, n, todo, pc
  <2>6. p.pc = pc /\ p.todo = todo /\ p.shown = q.shown /\ p.filter = q.filter
    BY <2>1 DEF List
  <2>7. \A e \in Elections : ~(q.shown[e] > 0)
    BY <2>1 DEF ListOk
  <2>8. \A e \in Elections : q.todo[e] > 0 => e \in Matching(GwFilter(q.filter))
    BY <2>1 DEF ListOk
  <2> HIDE DEF p
  <2>9. ListOk(p)
    BY <2>2, <2>3, <2>6, <2>7, <2>8 DEF ListOk
  <2>10. Remembers(p)
    BY <2>5, <2>6 DEF Remembers
  <2> QED BY <1>0, <2>4, <2>9, <2>10
<1>2. CASE FetchFails(r)
  BY <1>0, <1>2 DEF FetchFails, Failed, ListOk, Remembers
<1>3. CASE ReadHeight(r)
  <2> DEFINE p == [q EXCEPT !.pc = "looking", !.height = cache.height]
  <2>1. q \in List /\ q.pc = "fetched"
    BY <1>3, Kind DEF ReadHeight
  <2>2. request' = [request EXCEPT ![r] = p]
    BY <1>0, <1>3 DEF ReadHeight
  <2>3. p.pc = "looking" /\ p.todo = q.todo /\ p.shown = q.shown /\ p.filter = q.filter
    BY <2>1 DEF List
  <2>4. \A e \in Elections : ~(q.shown[e] > 0)
    BY <2>1 DEF ListOk
  <2>5. \A e \in Elections : q.todo[e] > 0 => e \in Matching(GwFilter(q.filter))
    BY <2>1 DEF ListOk
  <2> HIDE DEF p
  <2>6. ListOk(p) /\ Remembers(p)
    BY <2>3, <2>4, <2>5 DEF ListOk, Remembers
  <2> QED BY <1>0, <2>2, <2>6
<1>4. ASSUME NEW e \in Elections, LookUp(r, e)
      PROVE  /\ ListOk(request'[r]) /\ Remembers(request'[r])
             /\ request' = [request EXCEPT ![r] = request'[r]]
  <2>1. q \in List /\ q.pc = "looking" /\ q.todo[e] > 0
    BY <1>4, Kind DEF LookUp
  <2>2. PICK shown \in {q.shown[e], q.shown[e] + 1} :
          /\ \/ request' = [request EXCEPT ![r] = Failed]
             \/ request' = [request EXCEPT ![r] =
                  [q EXCEPT !.todo[e] = q.todo[e] - 1, !.shown[e] = shown]]
          /\ shown = q.shown[e] + 1 => InList(q.filter, e, q.height)
    <3>1. q.shown[e] \in Nat
      BY <2>1 DEF List
    <3> DEFINE found == Found(e, q.access, q.keyed)
               listed == found /\ InList(q.filter, e, q.height) /\ Visible(e, q.access)
               next == IF listed THEN q.shown[e] + 1 ELSE q.shown[e]
               p == [q EXCEPT !.todo[e] = q.todo[e] - 1, !.shown[e] = next]
    <3>2. request' = [request EXCEPT ![r] = IF found /\ q.filter = "READY" THEN Failed ELSE p]
      BY <1>4 DEF LookUp
    <3>3. next \in {q.shown[e], q.shown[e] + 1}
      OBVIOUS
    <3>4. next = q.shown[e] + 1 => InList(q.filter, e, q.height)
      BY <3>1
    <3>5. \/ request' = [request EXCEPT ![r] = Failed]
          \/ request' = [request EXCEPT ![r] = p]
      <4> HIDE DEF p, found
      <4> QED BY <3>2
    <3> HIDE DEF next
    <3> QED BY <3>3, <3>4, <3>5
  <2>3. CASE request' = [request EXCEPT ![r] = Failed]
    BY <1>0, <2>3 DEF Failed, ListOk, Remembers
  <2>4. CASE request' = [request EXCEPT ![r] =
               [q EXCEPT !.todo[e] = q.todo[e] - 1, !.shown[e] = shown]]
    <3> DEFINE p == [q EXCEPT !.todo[e] = q.todo[e] - 1, !.shown[e] = shown]
    <3>1. /\ p.pc = "looking" /\ p.filter = q.filter /\ p.height = q.height
          /\ p.todo = [q.todo EXCEPT ![e] = q.todo[e] - 1]
          /\ p.shown = [q.shown EXCEPT ![e] = shown]
      BY <2>1 DEF List
    <3>2. q.todo \in [Elections -> Nat] /\ q.shown \in [Elections -> Nat]
      BY <2>1 DEF List
    <3>3. \A f \in Elections :
            /\ q.todo[f] > 0 \/ q.shown[f] > 0 => f \in Matching(GwFilter(q.filter))
            /\ q.shown[f] > 0 => InList(q.filter, f, q.height)
      BY <2>1 DEF ListOk
    <3> HIDE DEF p
    <3>4. ASSUME NEW f \in Elections
          PROVE  /\ p.todo[f] > 0 \/ p.shown[f] > 0 => f \in Matching(GwFilter(q.filter))
                 /\ p.shown[f] > 0 => InList(q.filter, f, q.height)
      <4>1. CASE f = e
        <5>1. e \in Matching(GwFilter(q.filter))
          BY <2>1, <3>3
        <5>2. p.shown[e] > 0 => InList(q.filter, e, q.height)
          <6>1. p.shown[e] = shown
            BY <3>1, <3>2
          <6> QED BY <2>2, <3>3, <6>1
        <5> QED BY <4>1, <5>1, <5>2
      <4>2. CASE f # e
        <5>1. p.todo[f] = q.todo[f] /\ p.shown[f] = q.shown[f]
          BY <3>1, <3>2, <4>2
        <5> QED BY <3>3, <5>1
      <4> QED BY <4>1, <4>2
    <3>5. ListOk(p) /\ Remembers(p)
      BY <3>1, <3>4 DEF ListOk, Remembers
    <3>6. request' = [request EXCEPT ![r] = p]
      BY <2>4 DEF p
    <3> QED BY <1>0, <3>5, <3>6
  <2> QED BY <2>2, <2>3, <2>4
<1>5. CASE EndList(r)
  <2> DEFINE p == [q EXCEPT !.pc = "listed"]
  <2>1. q \in List /\ q.pc = "looking"
    BY <1>5, Kind DEF EndList
  <2>2. request' = [request EXCEPT ![r] = p]
    BY <1>0, <1>5 DEF EndList
  <2>3. /\ p.pc = "listed" /\ p.todo = q.todo /\ p.shown = q.shown
        /\ p.filter = q.filter /\ p.height = q.height
    BY <2>1 DEF List
  <2> HIDE DEF p
  <2>4. ListOk(p) /\ Remembers(p)
    BY <2>1, <2>3 DEF ListOk, Remembers
  <2> QED BY <1>0, <2>2, <2>4
<1> QED BY <1>1, <1>2, <1>3, <1>4, <1>5 DEF ListStep

LEMMA ListRemembers ==
  ASSUME TypeOK, NEW r \in Requests, ListStep(r)
  PROVE  Remembers(request'[r]) /\ request' = [request EXCEPT ![r] = request'[r]]
<1> DEFINE q == request[r]
           Lists == {"fetching", "fetched", "looking", "listed", "failed"}
<1>0. request \in [Requests -> Bare \cup List \cup View]
  BY DEF TypeOK
<1>1. q.pc \in {"fetching", "fetched", "looking"} => q \in List
  BY Kind
<1>2. SUFFICES \E p : request' = [request EXCEPT ![r] = p] /\ p.pc \in Lists
  BY <1>0 DEF Remembers
<1>3. CASE FetchProcessList(r)
  <2>1. q \in List
    BY <1>1, <1>3 DEF FetchProcessList
  <2> DEFINE page == Page(GwFilter(q.filter), q.from)
             p == [q EXCEPT !.from = @ + Cardinality(page),
                            !.todo = [e \in Elections |->
                                        IF e \in page THEN @[e] + 1 ELSE @[e]],
                            !.pc = IF Cardinality(page) < PageSize THEN "fetched" ELSE @]
  <2>2. request' = [request EXCEPT ![r] = p]
    BY <1>3 DEF FetchProcessList
  <2>3. p.pc \in Lists
    BY <2>1 DEF List
  <2> HIDE DEF p
  <2> QED BY <2>2, <2>3
<1>4. CASE FetchFails(r)
  <2>1. request' = [request EXCEPT ![r] = Failed]
    BY <1>4 DEF FetchFails
  <2>2. Failed.pc \in Lists
    BY DEF Failed
  <2> QED BY <2>1, <2>2
<1>5. CASE ReadHeight(r)
  <2> DEFINE p == [q EXCEPT !.pc = "looking", !.height = cache.height]
  <2>1. q \in List
    BY <1>1, <1>5 DEF ReadHeight
  <2>2. request' = [request EXCEPT ![r] = p]
    BY <1>0, <1>5 DEF ReadHeight
  <2>3. p.pc \in Lists
    BY <2>1 DEF List
  <2> HIDE DEF p
  <2> QED BY <2>2, <2>3
<1>6. CASE \E e \in Elections : LookUp(r, e)
  <2>1. q \in List /\ q.pc = "looking"
    BY <1>1, <1>6 DEF LookUp
  <2>2. PICK e \in Elections : LookUp(r, e)
    BY <1>6
  <2> DEFINE found == Found(e, q.access, q.keyed)
             p == IF found /\ q.filter = "READY"
                    THEN Failed
                    ELSE [q EXCEPT !.todo[e] = @ - 1,
                                   !.shown[e] = IF /\ found
                                                   /\ InList(q.filter, e, q.height)
                                                   /\ Visible(e, q.access)
                                                  THEN @ + 1 ELSE @]
  <2>3. request' = [request EXCEPT ![r] = p]
    BY <2>2 DEF LookUp
  <2>4. p.pc \in Lists
    BY <2>1 DEF Failed, List
  <2> HIDE DEF p
  <2> QED BY <2>3, <2>4
<1>7. CASE EndList(r)
  <2> DEFINE p == [q EXCEPT !.pc = "listed"]
  <2>1. q \in List
    BY <1>1, <1>7 DEF EndList
  <2>2. request' = [request EXCEPT ![r] = p]
    BY <1>0, <1>7 DEF EndList
  <2>3. p.pc \in Lists
    BY <2>1 DEF List
  <2> HIDE DEF p
  <2> QED BY <2>2, <2>3
<1> QED BY <1>3, <1>4, <1>5, <1>6, <1>7 DEF ListStep

LEMMA ViewSteps ==
  ASSUME TypeOK, NEW r \in Requests, ViewStep(r), Remembers(request[r])
  PROVE  /\ ListOk(request'[r]) /\ Remembers(request'[r])
         /\ request' = [request EXCEPT ![r] = request'[r]]
<1> DEFINE q == request[r]
<1>0. request \in [Requests -> Bare \cup List \cup View]
  BY DEF TypeOK
<1>1. q.pc \in {"asked", "found", "parsed", "started"} => q \in View
  BY Kind
<1>2. CASE Refuse(r)
  BY <1>0, <1>2 DEF Refuse, Refused, ListOk, Remembers
<1>3. CASE GetElection(r)
  <2>1. q \in View /\ q.pc = "asked"
    BY <1>1, <1>3 DEF GetElection
  <2>2. \/ request' = [request EXCEPT ![r] = Refused]
        \/ request' = [request EXCEPT ![r] = [q EXCEPT !.pc = "found"]]
    BY <1>3 DEF GetElection
  <2>3. ListOk(Refused) /\ Remembers(Refused)
    BY DEF Refused, ListOk, Remembers
  <2>4. ListOk([q EXCEPT !.pc = "found"]) /\ Remembers([q EXCEPT !.pc = "found"])
    BY <2>1 DEF View, ListOk, Remembers
  <2> QED BY <1>0, <2>2, <2>3, <2>4
<1>4. CASE ParseProcessInfo(r)
  <2> DEFINE p == [q EXCEPT !.pc = "parsed", !.first = cache,
                            !.status = ProcessStatus(q.process, cache.height)]
  <2>1. q \in View /\ q.pc = "found"
    BY <1>1, <1>4 DEF ParseProcessInfo
  <2>2. request' = [request EXCEPT ![r] = p]
    BY <1>4 DEF ParseProcessInfo
  <2>3. /\ p.pc = "parsed" /\ p.first = cache /\ p.process = q.process
        /\ p.status = ProcessStatus(q.process, cache.height)
    BY <2>1 DEF View
  <2> HIDE DEF p
  <2>4. ListOk(p) /\ Remembers(p)
    BY <2>1, <2>3 DEF ListOk, Remembers
  <2> QED BY <1>0, <2>2, <2>4
<1>5. CASE ReadStartDate(r)
  <2> DEFINE date == EstimateBlockTime(cache, q.process.start)
             same == cache = q.first
             p == [q EXCEPT !.pc = "started", !.startDate = date, !.same = same]
  <2>1. q \in View /\ q.pc = "parsed"
    BY <1>1, <1>5 DEF ReadStartDate
  <2>2. request' = [request EXCEPT ![r] = p]
    BY <1>5 DEF ReadStartDate
  <2>3. same => date = EstimateBlockTime(q.first, q.process.start)
    OBVIOUS
  <2> HIDE DEF date, same
  <2>4. /\ p.pc = "started" /\ p.first = q.first /\ p.process = q.process
        /\ p.status = q.status /\ p.startDate = date /\ p.same = same
    BY <2>1 DEF View
  <2> HIDE DEF p
  <2>5. ListOk(p) /\ Remembers(p)
    BY <2>1, <2>3, <2>4 DEF ListOk, Remembers
  <2> QED BY <1>0, <2>2, <2>5
<1>6. CASE ReadEndDate(r)
  <2> DEFINE date == EstimateBlockTime(cache, q.process.end)
             same == q.same /\ cache = q.first
             p == [q EXCEPT !.pc = "viewed", !.endDate = date, !.same = same]
  <2>1. q \in View /\ q.pc = "started"
    BY <1>1, <1>6 DEF ReadEndDate
  <2>2. request' = [request EXCEPT ![r] = p]
    BY <1>6 DEF ReadEndDate
  <2>3. same => q.same /\ date = EstimateBlockTime(q.first, q.process.end)
    OBVIOUS
  <2> HIDE DEF date, same
  <2>4. /\ p.pc = "viewed" /\ p.first = q.first /\ p.process = q.process
        /\ p.status = q.status /\ p.startDate = q.startDate /\ p.endDate = date
        /\ p.same = same
    BY <2>1 DEF View
  <2> HIDE DEF p
  <2>5. ListOk(p) /\ Remembers(p)
    BY <2>1, <2>3, <2>4 DEF ListOk, Remembers
  <2> QED BY <1>0, <2>2, <2>5
<1> QED BY <1>2, <1>3, <1>4, <1>5, <1>6 DEF ViewStep

LEMMA ArriveSteps ==
  ASSUME TypeOK, ProcessInv, NEW r \in Requests, Arrive(r)
  PROVE  /\ ListOk(request'[r]) /\ Remembers(request'[r])
         /\ request' = [request EXCEPT ![r] = request'[r]]
<1>0. request \in [Requests -> Bare \cup List \cup View]
  BY DEF TypeOK
<1>1. ASSUME NEW filter \in Filters, NEW access \in {"public", "integrator"},
             ListProcesses(r, filter, access)
      PROVE  /\ ListOk(request'[r]) /\ Remembers(request'[r])
             /\ request' = [request EXCEPT ![r] = request'[r]]
  BY <1>0, <1>1 DEF ListProcesses, ListOk, Remembers
<1>2. ASSUME NEW e \in Elections, NEW access \in Access, GetProcess(r, e, access)
      PROVE  /\ ListOk(request'[r]) /\ Remembers(request'[r])
             /\ request' = [request EXCEPT ![r] = request'[r]]
  <2>1. process[e].start <= process[e].end
    BY <1>2 DEF GetProcess, ProcessInv
  <2> QED BY <1>0, <1>2, <2>1 DEF GetProcess, ListOk, Remembers
<1> QED BY <1>1, <1>2 DEF Arrive

LEMMA StepInv == IInv /\ [Next]_vars => IInv'
<1> SUFFICES ASSUME IInv, [Next]_vars PROVE IInv'
  OBVIOUS
<1>0. TypeOK /\ ProcessInv
  BY DEF IInv
<1>1. CASE Environment
  BY <1>0, <1>1, EnvironmentTypes, EnvironmentInv DEF IInv
<1>2. ASSUME NEW r \in Requests, Arrive(r) \/ ListStep(r) \/ ViewStep(r)
      PROVE  IInv'
  <2>1. TypeOK'
    BY <1>0, <1>2, ArriveTypes, ListTypes, ViewTypes
  <2>2. UNCHANGED <<process, row, stirred>>
    BY <1>2 DEF Arrive, ListProcesses, GetProcess, ListStep, FetchProcessList, FetchFails,
                ReadHeight, LookUp, EndList, ViewStep, Refuse, GetElection,
                ParseProcessInfo, ReadStartDate, ReadEndDate, OutsideUnchanged
  <2>3. /\ r \notin stirred => ListOk(request'[r])
        /\ Remembers(request'[r])
        /\ request' = [request EXCEPT ![r] = request'[r]]
    <3>1. CASE Arrive(r)
      BY <1>0, <3>1, ArriveSteps
    <3>2. CASE ViewStep(r)
      BY <1>0, <3>2, ViewSteps DEF IInv, ViewInv
    <3>3. CASE ListStep(r) /\ r \notin stirred
      <4>1. ListOk(request[r])
        BY <3>3 DEF IInv, ListInv, ListOk
      <4> QED BY <1>0, <3>3, <4>1, ListSteps
    <3>4. CASE ListStep(r) /\ r \in stirred
      BY <1>0, <3>4, ListRemembers
    <3> QED BY <1>2, <3>1, <3>2, <3>3, <3>4
  <2>4. \A s \in Requests : s # r => request'[s] = request[s]
    BY <1>0, <2>3 DEF TypeOK
  <2>5. ProcessInv'
    BY <1>0, <2>2 DEF ProcessInv
  <2>6. ViewInv'
    BY <2>3, <2>4 DEF IInv, ViewInv
  <2>7. ListInv'
    <3>1. \A s \in Requests \ stirred : ListOk(request'[s])
      BY <2>3, <2>4 DEF IInv, ListInv, ListOk
    <3> QED BY <2>2, <3>1 DEF ListInv, ListOk, Matching, InList
  <2> QED BY <2>1, <2>5, <2>6, <2>7 DEF IInv
<1>3. CASE UNCHANGED vars
  BY <1>3 DEF vars, IInv, TypeOK, ProcessInv, ListInv, ViewInv, Remembers, Matching, InList
<1> QED BY <1>1, <1>2, <1>3 DEF Next

LEMMA Invariant == Spec => []IInv
<1>1. Init => IInv
  BY InitInv
<1>2. IInv /\ [Next]_vars => IInv'
  BY StepInv
<1> QED BY <1>1, <1>2, PTL DEF Spec

-----------------------------------------------------------------------------
(* Theorems.                                                               *)

(* Every block, count and date of a list or an answer has its type,        *)
(* whatever averages the gateway reports.                                  *)
THEOREM ViewsTypeCorrect == Spec => []TypeOK
<1>1. IInv => TypeOK
  BY DEF IInv
<1> QED BY <1>1, Invariant, PTL

(* The two ways to say what is active or upcoming, by the database's       *)
(* blocks and by the Vochain's, do not contradict each other.              *)
THEOREM ListsAgree == Spec => []ListAgrees
<1>1. IInv => ListAgrees
  <2> SUFFICES ASSUME IInv, NEW r \in Requests \ stirred,
                      request[r].pc = "listed",
                      request[r].filter \in {"ACTIVE", "UPCOMING"},
                      NEW e \in Elections, request[r].shown[e] > 0
               PROVE  /\ process[e] # Nil
                      /\ SameBlocks(e) =>
                           ProcessStatus(process[e], request[r].height) = request[r].filter
    BY DEF ListAgrees
  <2> DEFINE q == request[r]
  <2>1. e \in Matching(GwFilter(q.filter)) /\ InList(q.filter, e, q.height)
    BY DEF IInv, ListInv
  <2>2. GwFilter(q.filter) = "READY"
    BY DEF GwFilter
  <2>3. process[e] # Nil /\ process[e].status = "READY"
    BY <2>1, <2>2 DEF Matching
  <2>4. q.height \in Nat /\ process[e].start \in Nat /\ process[e].end \in Nat
    <3>1. q \in List /\ process[e] \in Process
      BY <2>3, Kind DEF IInv, TypeOK
    <3>2. q.height \in 0..MaxHeight /\ MaxHeight \in Nat
      <4>1. MaxHeight \in Nat
        BY ElectionViewsConstants
      <4> QED BY <3>1, <4>1 DEF List
    <3> QED BY <3>1, <3>2 DEF Process
  <2>5. ASSUME SameBlocks(e), q.filter = "ACTIVE"
        PROVE  ProcessStatus(process[e], q.height) = "ACTIVE"
    <3>1. process[e].start < q.height /\ process[e].end > q.height
      BY <2>1, <2>5 DEF InList, SameBlocks
    <3> QED BY <2>3, <2>4, <3>1 DEF ProcessStatus
  <2>6. ASSUME SameBlocks(e), q.filter = "UPCOMING"
        PROVE  ProcessStatus(process[e], q.height) = "UPCOMING"
    <3>1. process[e].start > q.height
      BY <2>1, <2>6 DEF InList, SameBlocks
    <3> QED BY <2>3, <2>4, <3>1 DEF ProcessStatus
  <2> QED BY <2>3, <2>5, <2>6
<1> QED BY <1>1, Invariant, PTL

(* Status and dates of an answer from one state of the cache agree, for    *)
(* any averages: the sign of a product decides.                            *)
THEOREM DatesCorrect == Spec => []DatesAgree
<1>1. IInv => DatesAgree
  <2> SUFFICES ASSUME IInv, NEW r \in Requests, request[r].pc = "viewed", request[r].same
               PROVE  LET q == request[r]
                      IN  /\ q.status = "UPCOMING" => q.startDate >= 0
                          /\ q.status = "ACTIVE" => q.startDate < 0 /\ 0 < q.endDate
                          /\ q.status = "ENDED" => q.startDate < 0 /\ q.endDate <= 0
                          /\ BlockTime(q.first, q.process.start)
                               = BlockTime(q.first, q.process.end)
                               => q.startDate <= q.endDate
    BY DEF DatesAgree
  <2> DEFINE q == request[r]
             start == q.process.start
             end == q.process.end
             height == q.first.height
  <2>1. q \in View /\ q.first \in Cache /\ start \in Nat /\ end \in Nat
    <3>1. q \in View
      BY Kind DEF IInv
    <3> QED BY <3>1 DEF View, Process
  <2>2. height \in Nat
    BY <2>1, CacheType
  <2>3. /\ start <= end
        /\ q.status = ProcessStatus(q.process, height)
        /\ q.startDate = EstimateBlockTime(q.first, start)
        /\ q.endDate = EstimateBlockTime(q.first, end)
    BY DEF IInv, ViewInv, Remembers
  <2>4. /\ q.startDate \in Int /\ q.endDate \in Int
        /\ start >= height <=> q.startDate >= 0
        /\ end > height <=> q.endDate > 0
    BY <2>1, <2>3, DateOfBlock
  <2>5. /\ q.status = "UPCOMING" => start >= height
        /\ q.status = "ACTIVE" => start < height /\ end > height
        /\ q.status = "ENDED" => start < height /\ end <= height
    BY <2>1, <2>2, <2>3 DEF ProcessStatus
  <2>6. ASSUME BlockTime(q.first, start) = BlockTime(q.first, end)
        PROVE  q.startDate <= q.endDate
    <3> DEFINE t == BlockTime(q.first, end)
    <3>1. t \in Nat \ {0}
      BY <2>1, BlockTimeType
    <3>2. q.startDate = (start - height) * t /\ q.endDate = (end - height) * t
      BY <2>3, <2>6 DEF EstimateBlockTime
    <3>3. start - height \in Int /\ end - height \in Int /\ start - height <= end - height
      BY <2>1, <2>2, <2>3
    <3> HIDE DEF t, start, end, height
    <3> QED BY <3>1, <3>2, <3>3, ProductOrder
  <2> HIDE DEF start, end, height
  <2>7. /\ q.status = "UPCOMING" => q.startDate >= 0
        /\ q.status = "ACTIVE" => q.startDate < 0 /\ 0 < q.endDate
        /\ q.status = "ENDED" => q.startDate < 0 /\ q.endDate <= 0
    <3>1. start \in Nat /\ end \in Nat
      BY <2>1 DEF start, end
    <3> QED BY <2>2, <2>4, <2>5, <3>1
  <2> QED BY <2>6, <2>7 DEF start, end
<1> QED BY <1>1, Invariant, PTL
=============================================================================
