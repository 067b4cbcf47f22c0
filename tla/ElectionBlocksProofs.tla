------------------------ MODULE ElectionBlocksProofs ------------------------
(***************************************************************************)
(* What holds of ElectionBlocks for any word, periods, averages and number *)
(* of requests.                                                            *)
(***************************************************************************)
EXTENDS ElectionBlocks, TLAPS

(* A remainder of uint32 arithmetic is a uint32.                           *)
LEMMA Remainder ==
  ASSUME NEW a \in Int, NEW n \in Nat \ {0}
  PROVE  a % n \in 0..n - 1
  OBVIOUS

(* A quotient of naturals by a positive average is a natural.              *)
LEMMA Quotient ==
  ASSUME NEW a \in Nat, NEW n \in Nat \ {0}
  PROVE  a \div n \in Nat
  OBVIOUS

(* A product of naturals is a natural.                                     *)
LEMMA Product ==
  ASSUME NEW a \in Nat, NEW b \in Nat
  PROVE  a * b \in Nat
  OBVIOUS

LEMMA WordPositive == Word \in Nat \ {0} /\ Word - 1 >= MaxHeight + VOCHAIN_BLOCK_MARGIN
  BY ElectionBlocksConstants DEF VOCHAIN_BLOCK_MARGIN

LEMMA NilIsNoHeight == Nil \notin Height
  BY ElectionBlocksConstants, WordPositive DEF Height

(* getMaxTimeFrom never returns 0, whatever the gateway reports: the       *)
(* division of estimateBlockHeight is safe.                                *)
LEMMA AverageIsPositive ==
  ASSUME NEW times \in BlockTimes, NEW i \in 0..4
  PROVE  GetMaxTimeFrom(times, i) \in Nat \ {0}
<1> DEFINE known == {j \in 0..i : times[j] # 0}
<1>1. CASE known = {}
  BY <1>1, ElectionBlocksConstants DEF GetMaxTimeFrom
<1>2. CASE known # {}
  <2>1. \E m \in known : \A j \in known : m >= j
    <3>1. known \subseteq 0..4 OBVIOUS
    <3>2. PICK k \in known : TRUE BY <1>2
    <3> QED BY <3>1, <3>2
  <2>2. Max(known) \in known
    BY <2>1 DEF Max
  <2> QED BY <1>2, <2>2 DEF GetMaxTimeFrom, BlockTimes
<1> QED BY <1>1, <1>2

LEMMA DistanceType ==
  ASSUME NEW a \in Nat, NEW b \in Nat
  PROVE  Distance(a, b) \in Nat
  BY DEF Distance

LEMMA PeriodType ==
  ASSUME NEW seconds \in Nat
  PROVE  Period(seconds) \in 0..4
  BY ElectionBlocksConstants DEF Period

LEMMA BlockDiffType ==
  ASSUME NEW read \in Read, NEW date \in Nat
  PROVE  BlockDiff(read, date) \in Nat
<1> DEFINE d == Distance(date, read.now)
<1>1. read.now \in Nat /\ read.times \in BlockTimes
  BY DEF Read
<1>2. d \in Nat
  BY <1>1, DistanceType
<1>3. d * Milli \in Nat
  BY <1>2, Product, ElectionBlocksConstants
<1>4. (d * Milli) % Word \in Nat
  <2> DEFINE p == d * Milli
  <2>1. p \in Int
    BY <1>3
  <2> HIDE DEF p
  <2>2. p % Word \in 0..Word - 1
    BY <2>1, Remainder, WordPositive
  <2> QED BY <2>2, WordPositive DEF p
<1>5. BlockTime(read, date) \in Nat \ {0}
  BY <1>1, <1>2, PeriodType, AverageIsPositive DEF BlockTime
<1> HIDE DEF d
<1> QED BY <1>4, <1>5, Quotient DEF BlockDiff, d

(* An estimate is a height or the error.                                   *)
LEMMA EstimateType ==
  ASSUME NEW read \in Read, NEW date \in Nat
  PROVE  EstimateBlockHeight(read, date) \in Height \cup {Nil}
<1>1. read.height \in Height /\ read.now \in Nat
  BY DEF Read
<1>2. BlockDiff(read, date) \in Nat
  BY BlockDiffType
<1>3. (read.height + BlockDiff(read, date)) % Word \in Height
  <2> DEFINE sum == read.height + BlockDiff(read, date)
  <2>1. sum \in Int
    BY <1>1, <1>2, WordPositive DEF Height
  <2> HIDE DEF sum
  <2>2. sum % Word \in Height
    BY <2>1, Remainder, WordPositive DEF Height
  <2> QED BY <2>2 DEF sum
<1>4. ASSUME BlockDiff(read, date) <= read.height
      PROVE  read.height - BlockDiff(read, date) \in Height
  BY <1>1, <1>2, <1>4, WordPositive DEF Height
<1>5. CASE date >= read.now
  BY <1>1, <1>3, <1>5 DEF EstimateBlockHeight
<1>6. CASE date < read.now /\ BlockDiff(read, date) <= read.height
  BY <1>1, <1>4, <1>6 DEF EstimateBlockHeight
<1>7. CASE date < read.now /\ ~ BlockDiff(read, date) <= read.height
  BY <1>1, <1>7 DEF EstimateBlockHeight
<1> QED BY <1>1, <1>5, <1>6, <1>7

-----------------------------------------------------------------------------
(* Types.                                                                  *)

LEMMA BlockCountType ==
  ASSUME NEW startBlock \in Height, NEW endBlock \in Height, NEW current \in Height
  PROVE  BlockCount(startBlock, endBlock, current) \in Height
<1>1. endBlock - startBlock - current + 3 \in Int /\ endBlock - startBlock \in Int
  BY WordPositive DEF Height
<1>2. \A a \in Int : a % Word \in Height
  BY Remainder, WordPositive DEF Height
<1> QED BY <1>1, <1>2 DEF BlockCount

LEMMA DbStartType ==
  ASSUME NEW startBlock \in Height, NEW current \in Height
  PROVE  DbStart(startBlock, current) \in Height
<1>1. \A a \in Int : a % Word \in Height
  BY Remainder, WordPositive DEF Height
<1>2. current + IMMEDIATE_PROCESS_CREATION_OFFSET \in Int
  BY WordPositive DEF Height, IMMEDIATE_PROCESS_CREATION_OFFSET
<1> QED BY <1>1, <1>2 DEF DbStart

LEMMA RefusedType == NoRequest \in Request /\ Refused \in Request
<1>1. 0 \in Height
  BY WordPositive DEF Height
<1> QED BY <1>1 DEF NoRequest, Refused, Request

LEMMA ReadType ==
  ASSUME TypeOK
  PROVE  GetBlockTimes \in Read
  BY DEF TypeOK, Cache, Read, GetBlockTimes

(* One request changes, to another request.                                *)
LEMMA OneRequest ==
  ASSUME TypeOK, NEW r \in Requests, NEW q \in Request,
         request' = [request EXCEPT ![r] = q], OutsideUnchanged
  PROVE  TypeOK'
  BY DEF TypeOK, OutsideUnchanged

LEMMA InitType == Init => TypeOK
<1>1. 0 \in Height /\ 0..MaxHeight \subseteq Height
  BY WordPositive, ElectionBlocksConstants DEF Height, VOCHAIN_BLOCK_MARGIN
<1> QED BY <1>1, RefusedType, ElectionBlocksConstants DEF Init, TypeOK, Cache, Marks, BlockTimes

LEMMA RefreshType ==
  ASSUME TypeOK, Refresh
  PROVE  TypeOK'
<1>1. 0 \in Height
  BY WordPositive DEF Height
<1>2. CASE AskHeight
  BY <1>2 DEF AskHeight, TypeOK
<1>3. CASE HeightFails
  BY <1>1, <1>3 DEF HeightFails, TypeOK
<1>4. CASE SetHeight
  BY <1>4 DEF SetHeight, TypeOK, Cache, Marks
<1>5. CASE SetTimes
  BY <1>1, <1>5, ElectionBlocksConstants DEF SetTimes, TypeOK, Cache, Marks
<1>6. CASE TimesFail
  BY <1>1, <1>6 DEF TimesFail, TypeOK, Cache, Marks
<1> QED BY <1>2, <1>3, <1>4, <1>5, <1>6 DEF Refresh

LEMMA BeginType ==
  ASSUME TypeOK, NEW r \in Requests, NEW endDate \in Dates,
         \/ StartNow(r, endDate)
         \/ \E startDate \in Dates : StartAt(r, startDate, endDate)
  PROVE  TypeOK'
<1> endDate \in Nat
  BY ElectionBlocksConstants
<1>1. CASE StartNow(r, endDate)
  <2> DEFINE q == [NoRequest EXCEPT !.pc = "started", !.startDate = clock,
                                    !.endDate = endDate]
  <2>1. q \in Request
    BY RefusedType DEF Request, TypeOK
  <2> QED BY <1>1, <2>1, OneRequest DEF StartNow
<1>2. ASSUME NEW startDate \in Dates, StartAt(r, startDate, endDate)
      PROVE  TypeOK'
  <2> DEFINE block == EstimateBlockHeight(GetBlockTimes, startDate)
             q == [NoRequest EXCEPT !.pc = "started", !.startDate = startDate,
                                    !.endDate = endDate, !.startBlock = block,
                                    !.startRead = GetBlockTimes]
  <2>1. startDate \in Nat /\ GetBlockTimes \in Read
    BY ReadType, ElectionBlocksConstants
  <2>2. block \in Height \cup {Nil}
    BY <2>1, EstimateType
  <2>3. CASE block = Nil
    BY <1>2, <2>3, RefusedType, OneRequest DEF StartAt
  <2>4. CASE block # Nil
    <3>1. q \in Request
      <4> HIDE DEF block
      <4> QED BY <2>1, <2>2, <2>4, RefusedType DEF Request
    <3>2. request' = [request EXCEPT ![r] = q]
      BY <1>2, <2>4 DEF StartAt
    <3> QED BY <1>2, <3>1, <3>2, OneRequest DEF StartAt
  <2> QED BY <2>3, <2>4
<1> QED BY <1>1, <1>2

LEMMA StepType ==
  ASSUME TypeOK, NEW r \in Requests, Step(r) \/ Include(r)
  PROVE  TypeOK'
<1> DEFINE q == request[r]
<1> q \in Request
  BY DEF TypeOK
<1>1. CASE CheckEnd(r) \/ RefuseForService(r)
  <2> DEFINE p == [q EXCEPT !.pc = "dated"]
  <2>1. p \in Request
    BY DEF Request
  <2>2. request' = [request EXCEPT ![r] = Refused] \/ request' = [request EXCEPT ![r] = p]
    BY <1>1 DEF CheckEnd, RefuseForService
  <2>3. OutsideUnchanged
    BY <1>1 DEF CheckEnd, RefuseForService
  <2> QED BY <2>1, <2>2, <2>3, RefusedType, OneRequest
<1>2. CASE EstimateEnd(r)
  <2> DEFINE block == EstimateBlockHeight(GetBlockTimes, q.endDate)
             p == [q EXCEPT !.pc = "ranged", !.endBlock = block, !.endRead = GetBlockTimes]
  <2>1. q.endDate \in Nat /\ GetBlockTimes \in Read
    BY ReadType DEF Request
  <2>2. block \in Height \cup {Nil}
    BY <2>1, EstimateType
  <2>3. CASE block = Nil \/ q.endDate < q.startDate
    BY <1>2, <2>3, RefusedType, OneRequest DEF EstimateEnd
  <2>4. CASE ~(block = Nil \/ q.endDate < q.startDate)
    <3>1. p \in Request
      <4> HIDE DEF block, q
      <4> QED BY <2>1, <2>2, <2>4 DEF Request
    <3>2. request' = [request EXCEPT ![r] = p]
      BY <1>2, <2>4 DEF EstimateEnd
    <3> QED BY <1>2, <3>1, <3>2, OneRequest DEF EstimateEnd
  <2> QED BY <2>3, <2>4
<1>3. CASE CountBlocks(r)
  <2> DEFINE count == BlockCount(q.startBlock, q.endBlock, cache.height)
             p == [q EXCEPT !.pc = "counted", !.current = cache.height, !.count = count]
  <2>1. cache.height \in Height
    BY DEF TypeOK, Cache
  <2>2. count \in Height
    BY <2>1, BlockCountType DEF Request
  <2>3. p \in Request
    <3> HIDE DEF count, q
    <3> QED BY <2>1, <2>2 DEF Request
  <2>4. CASE TooSoon(q.startBlock, cache.height)
    BY <1>3, <2>4, RefusedType, OneRequest DEF CountBlocks
  <2>5. CASE ~TooSoon(q.startBlock, cache.height)
    BY <1>3, <2>3, <2>5, OneRequest DEF CountBlocks
  <2> QED BY <2>4, <2>5
<1>4. CASE CreateProcess(r)
  <2> DEFINE first == DbStart(q.startBlock, q.current)
             last == (first + q.count) % Word
             p == [q EXCEPT !.pc = "created", !.dbStart = first, !.dbEnd = last]
  <2>1. first \in Height
    BY DbStartType DEF Request
  <2>2. first + q.count \in Int
    BY <2>1, WordPositive DEF Request, Height
  <2>3. last \in Height
    <3> HIDE DEF first, q
    <3> QED BY <2>2, Remainder, WordPositive DEF Height
  <2>4. p \in Request
    <3> HIDE DEF first, last, q
    <3> QED BY <2>1, <2>3 DEF Request
  <2> QED BY <1>4, <2>4, OneRequest DEF CreateProcess
<1>5. CASE Include(r)
  <2> DEFINE p == [q EXCEPT !.pc = "included"]
  <2>1. p \in Request
    BY DEF Request
  <2>2. request' = [request EXCEPT ![r] = p]
    BY <1>5 DEF Include, TypeOK, Request
  <2> QED BY <1>5, <2>1, <2>2, OneRequest DEF Include
<1> QED BY <1>1, <1>2, <1>3, <1>4, <1>5 DEF Step

LEMMA NextType ==
  ASSUME TypeOK, [Next]_vars
  PROVE  TypeOK'
<1>1. CASE Grow
  <2>1. chain + 1 \in Height
    BY <1>1, WordPositive, ElectionBlocksConstants
       DEF Grow, TypeOK, Height, VOCHAIN_BLOCK_MARGIN
  <2> QED BY <1>1, <2>1 DEF Grow, TypeOK
<1>2. CASE Tick
  BY <1>2 DEF Tick, TypeOK
<1>3. CASE UNCHANGED vars
  BY <1>3 DEF vars, TypeOK
<1> QED
  BY <1>1, <1>2, <1>3, RefreshType, BeginType, StepType DEF Next

(* Every height a request computes is an unsigned integer, whatever the    *)
(* dates, the averages and the moments of the refresh.                     *)
THEOREM TypeCorrect == Spec => []TypeOK
<1>1. Init => TypeOK
  BY InitType
<1>2. TypeOK /\ [Next]_vars => TypeOK'
  BY NextType
<1> QED BY <1>1, <1>2, PTL DEF Spec

-----------------------------------------------------------------------------
(* The lock.                                                               *)

WholeRequest(q) ==
  /\ q.startRead # Nil => q.startRead.mark # "half"
  /\ q.endRead # Nil => q.endRead.mark # "half"

(* Only between the two assignments of getVocHeight is the cache half new, *)
(* and the lock is held there.                                             *)
LockCovers == cache.mark = "half" => refresh.locked

WholeInv == LockCovers /\ \A r \in Requests : WholeRequest(request[r])

LEMMA RefusedIsWhole == WholeRequest(NoRequest) /\ WholeRequest(Refused)
  BY DEF WholeRequest, NoRequest, Refused

LEMMA OneRequestWhole ==
  ASSUME TypeOK, WholeInv, NEW r \in Requests, NEW q, WholeRequest(q),
         request' = [request EXCEPT ![r] = q], OutsideUnchanged
  PROVE  WholeInv'
<1>1. \A x \in Requests : request'[x] = request[x] \/ request'[x] = q
  BY DEF TypeOK
<1>2. \A x \in Requests : WholeRequest(request'[x])
  BY <1>1 DEF WholeInv
<1>3. LockCovers'
  BY DEF WholeInv, LockCovers, OutsideUnchanged
<1> QED BY <1>2, <1>3 DEF WholeInv, WholeRequest

LEMMA WholeStep ==
  ASSUME TypeOK, WholeInv, [Next]_vars
  PROVE  WholeInv'
<1> SUFFICES ASSUME Next PROVE WholeInv'
  BY DEF WholeInv, WholeRequest, LockCovers, vars
<1>1. CASE Refresh
  BY <1>1 DEF Refresh, AskHeight, HeightFails, SetHeight, SetTimes, TimesFail,
              WholeInv, WholeRequest, LockCovers, TypeOK, Cache
<1>2. CASE Grow \/ Tick
  BY <1>2 DEF Grow, Tick, WholeInv, WholeRequest, LockCovers
<1>3. ASSUME NEW r \in Requests, NEW endDate \in Dates, StartNow(r, endDate)
      PROVE  WholeInv'
  <2> DEFINE q == [NoRequest EXCEPT !.pc = "started", !.startDate = clock,
                                    !.endDate = endDate]
  <2>1. WholeRequest(q)
    BY DEF WholeRequest, NoRequest
  <2> QED BY <1>3, <2>1, OneRequestWhole DEF StartNow
<1>4. ASSUME NEW r \in Requests, NEW startDate \in Dates, NEW endDate \in Dates,
             StartAt(r, startDate, endDate)
      PROVE  WholeInv'
  <2> DEFINE block == EstimateBlockHeight(GetBlockTimes, startDate)
             q == [NoRequest EXCEPT !.pc = "started", !.startDate = startDate,
                                    !.endDate = endDate, !.startBlock = block,
                                    !.startRead = GetBlockTimes]
  <2>1. GetBlockTimes.mark # "half"
    BY <1>4 DEF StartAt, CanRead, WholeInv, LockCovers, GetBlockTimes
  <2>2. WholeRequest(q)
    BY <2>1 DEF WholeRequest, NoRequest
  <2>3. request' = [request EXCEPT ![r] = Refused] \/ request' = [request EXCEPT ![r] = q]
    BY <1>4 DEF StartAt
  <2> QED BY <1>4, <2>2, <2>3, RefusedIsWhole, OneRequestWhole DEF StartAt
<1>5. ASSUME NEW r \in Requests, CheckEnd(r) \/ RefuseForService(r)
      PROVE  WholeInv'
  <2> DEFINE q == [request[r] EXCEPT !.pc = "dated"]
  <2>1. CASE request' = [request EXCEPT ![r] = Refused]
    BY <1>5, <2>1, RefusedIsWhole, OneRequestWhole DEF CheckEnd, RefuseForService
  <2>2. CASE request[r].pc = "started" /\ request' = [request EXCEPT ![r] = q]
    <3>1. WholeRequest(q)
      BY <2>2 DEF WholeRequest, WholeInv, TypeOK, Request
    <3> QED BY <1>5, <2>2, <3>1, OneRequestWhole DEF CheckEnd, RefuseForService
  <2> QED BY <1>5, <2>1, <2>2 DEF CheckEnd, RefuseForService
<1>6. ASSUME NEW r \in Requests, EstimateEnd(r)
      PROVE  WholeInv'
  <2> DEFINE block == EstimateBlockHeight(GetBlockTimes, request[r].endDate)
             q == [request[r] EXCEPT !.pc = "ranged", !.endBlock = block,
                                     !.endRead = GetBlockTimes]
  <2>1. GetBlockTimes.mark # "half"
    BY <1>6 DEF EstimateEnd, CanRead, WholeInv, LockCovers, GetBlockTimes
  <2>2. WholeRequest(q)
    BY <2>1 DEF WholeRequest, WholeInv, TypeOK, Request
  <2>3. request' = [request EXCEPT ![r] = Refused] \/ request' = [request EXCEPT ![r] = q]
    BY <1>6 DEF EstimateEnd
  <2> QED BY <1>6, <2>2, <2>3, RefusedIsWhole, OneRequestWhole DEF EstimateEnd
<1>7. ASSUME NEW r \in Requests, CountBlocks(r)
      PROVE  WholeInv'
  <2> DEFINE count == BlockCount(request[r].startBlock, request[r].endBlock, cache.height)
             q == [request[r] EXCEPT !.pc = "counted", !.current = cache.height,
                                     !.count = count]
  <2>1. WholeRequest(q)
    BY DEF WholeRequest, WholeInv, TypeOK, Request
  <2>2. request' = [request EXCEPT ![r] = Refused] \/ request' = [request EXCEPT ![r] = q]
    BY <1>7 DEF CountBlocks
  <2> QED BY <1>7, <2>1, <2>2, RefusedIsWhole, OneRequestWhole DEF CountBlocks
<1>8. ASSUME NEW r \in Requests, CreateProcess(r)
      PROVE  WholeInv'
  <2> DEFINE first == DbStart(request[r].startBlock, request[r].current)
             q == [request[r] EXCEPT !.pc = "created", !.dbStart = first,
                                     !.dbEnd = (first + request[r].count) % Word]
  <2>1. WholeRequest(q)
    BY DEF WholeRequest, WholeInv, TypeOK, Request
  <2> QED BY <1>8, <2>1, OneRequestWhole DEF CreateProcess
<1>9. ASSUME NEW r \in Requests, Include(r)
      PROVE  WholeInv'
  <2> DEFINE q == [request[r] EXCEPT !.pc = "included"]
  <2>1. WholeRequest(q)
    BY DEF WholeRequest, WholeInv, TypeOK, Request
  <2>2. request' = [request EXCEPT ![r] = q]
    BY <1>9 DEF Include, TypeOK, Request
  <2> QED BY <1>9, <2>1, <2>2, OneRequestWhole DEF Include
<1> QED
  BY <1>1, <1>2, <1>3, <1>4, <1>5, <1>6, <1>7, <1>8, <1>9 DEF Next, Step

(* No handler sees the new height with the old averages, however many      *)
(* handlers read while the refresh is between its two requests.            *)
THEOREM ReadsAreWhole == Spec => []WholeReads
<1>1. Init => WholeInv
  BY RefusedIsWhole DEF Init, WholeInv, LockCovers, WholeRequest
<1>2. TypeOK /\ WholeInv /\ [Next]_vars => WholeInv'
  BY WholeStep
<1>3. WholeInv => WholeReads
  BY DEF WholeInv, WholeRequest, WholeReads
<1> QED BY <1>1, <1>2, <1>3, TypeCorrect, PTL DEF Spec

-----------------------------------------------------------------------------
(* The length of an election that starts at once.                          *)

SubtractsPast(q) ==
  q.pc \in {"counted", "created"} =>
    /\ q.current <= chain
    /\ q.count = BlockCount(q.startBlock, q.endBlock, q.current)

(* A height that was read is never ahead of the chain.                     *)
PastInv ==
  /\ refresh.height <= chain
  /\ cache.height <= chain
  /\ \A r \in Requests : SubtractsPast(request[r])

(* Modulo Word, the length counted from a height of the past reaches from  *)
(* any later height to the end block.                                      *)
LEMMA CountReaches ==
  ASSUME NEW endBlock \in Height, NEW current \in Height, NEW now \in Height,
         current <= now, endBlock + 3 < Word
  PROVE  now + BlockCount(0, endBlock, current) >= endBlock
<1> DEFINE length == endBlock - current + 3
<1>1. BlockCount(0, endBlock, current) = length % Word
  BY WordPositive DEF BlockCount, Height
<1>2. length \in Int /\ -Word < length /\ length < Word
  BY WordPositive DEF Height
<1>3. CASE length >= 0
  <2>1. length % Word = length
    <3> HIDE DEF length
    <3> QED BY <1>2, <1>3, WordPositive
  <2> QED BY <1>1, <2>1 DEF Height
<1>4. CASE length < 0
  <2>1. length % Word >= 0
    <3> HIDE DEF length
    <3> QED BY <1>2, Remainder, WordPositive
  <2>2. length % Word = length + Word
    <3> HIDE DEF length
    <3>1. length + Word \in 0..Word - 1
      BY <1>2, <1>4, WordPositive
    <3> QED BY <1>2, <3>1, WordPositive
  <2> QED BY <1>1, <2>2, WordPositive DEF Height
<1> QED BY <1>2, <1>3, <1>4

LEMMA OneRequestPast ==
  ASSUME TypeOK, PastInv, NEW r \in Requests, NEW q, SubtractsPast(q),
         request' = [request EXCEPT ![r] = q], OutsideUnchanged
  PROVE  PastInv'
<1>1. \A x \in Requests : request'[x] = request[x] \/ request'[x] = q
  BY DEF TypeOK
<1>2. \A x \in Requests : SubtractsPast(request'[x])
  BY <1>1 DEF PastInv
<1> QED BY <1>2 DEF PastInv, SubtractsPast, OutsideUnchanged

LEMMA PastStep ==
  ASSUME TypeOK, PastInv, [Next]_vars
  PROVE  PastInv'
<1> SUFFICES ASSUME Next PROVE PastInv'
  BY DEF PastInv, SubtractsPast, vars
<1> USE DEF PastInv
<1>0. SubtractsPast(Refused)
  BY DEF SubtractsPast, Refused, NoRequest
<1>1. CASE Refresh
  <2>1. chain \in Nat /\ 0 <= chain /\ refresh.height <= chain /\ cache.height <= chain
    BY WordPositive DEF TypeOK, Height
  <2>2. CASE AskHeight
    BY <2>1, <2>2 DEF AskHeight, TypeOK, SubtractsPast
  <2>3. CASE HeightFails
    BY <2>1, <2>3 DEF HeightFails, TypeOK, SubtractsPast
  <2>4. CASE SetHeight
    BY <2>1, <2>4 DEF SetHeight, TypeOK, Cache, SubtractsPast
  <2>5. CASE SetTimes
    BY <2>1, <2>5 DEF SetTimes, TypeOK, Cache, SubtractsPast
  <2>6. CASE TimesFail
    BY <2>1, <2>6 DEF TimesFail, TypeOK, Cache, SubtractsPast
  <2> QED BY <1>1, <2>2, <2>3, <2>4, <2>5, <2>6 DEF Refresh
<1>2. CASE Grow
  <2>1. chain' >= chain /\ chain' \in Int
    BY <1>2 DEF Grow, TypeOK, Height
  <2>2. UNCHANGED <<cache, refresh, request>>
    BY <1>2 DEF Grow
  <2>3. ASSUME NEW r \in Requests PROVE SubtractsPast(request[r])'
    <3>1. request[r].current \in Int /\ chain \in Int
      BY WordPositive DEF TypeOK, Request, Height
    <3> QED BY <2>1, <2>2, <3>1 DEF SubtractsPast
  <2>4. refresh.height \in Int /\ cache.height \in Int /\ chain \in Int
    BY WordPositive DEF TypeOK, Cache, Height
  <2> QED BY <2>1, <2>2, <2>3, <2>4
<1>3. CASE Tick
  BY <1>3 DEF Tick, SubtractsPast
<1>4. ASSUME NEW r \in Requests, NEW endDate \in Dates, StartNow(r, endDate)
      PROVE  PastInv'
  <2> DEFINE q == [NoRequest EXCEPT !.pc = "started", !.startDate = clock,
                                    !.endDate = endDate]
  <2>1. SubtractsPast(q)
    BY DEF SubtractsPast, NoRequest
  <2> QED BY <1>4, <2>1, OneRequestPast DEF StartNow
<1>5. ASSUME NEW r \in Requests, NEW startDate \in Dates, NEW endDate \in Dates,
             StartAt(r, startDate, endDate)
      PROVE  PastInv'
  <2> DEFINE block == EstimateBlockHeight(GetBlockTimes, startDate)
             q == [NoRequest EXCEPT !.pc = "started", !.startDate = startDate,
                                    !.endDate = endDate, !.startBlock = block,
                                    !.startRead = GetBlockTimes]
  <2>1. SubtractsPast(q)
    BY DEF SubtractsPast, NoRequest
  <2>2. request' = [request EXCEPT ![r] = Refused] \/ request' = [request EXCEPT ![r] = q]
    BY <1>5 DEF StartAt
  <2> QED BY <1>0, <1>5, <2>1, <2>2, OneRequestPast DEF StartAt
<1>6. ASSUME NEW r \in Requests, CheckEnd(r) \/ RefuseForService(r)
      PROVE  PastInv'
  <2> DEFINE q == [request[r] EXCEPT !.pc = "dated"]
  <2>1. CASE request' = [request EXCEPT ![r] = Refused]
    BY <1>6, <2>1, <1>0, OneRequestPast DEF CheckEnd, RefuseForService
  <2>2. CASE request[r].pc = "started" /\ request' = [request EXCEPT ![r] = q]
    <3>1. SubtractsPast(q)
      BY <2>2 DEF SubtractsPast, TypeOK, Request
    <3> QED BY <1>6, <2>2, <3>1, OneRequestPast DEF CheckEnd, RefuseForService
  <2> QED BY <1>6, <2>1, <2>2 DEF CheckEnd, RefuseForService
<1>7. ASSUME NEW r \in Requests, EstimateEnd(r)
      PROVE  PastInv'
  <2> DEFINE block == EstimateBlockHeight(GetBlockTimes, request[r].endDate)
             q == [request[r] EXCEPT !.pc = "ranged", !.endBlock = block,
                                     !.endRead = GetBlockTimes]
  <2>1. SubtractsPast(q)
    BY DEF SubtractsPast, TypeOK, Request
  <2>2. request' = [request EXCEPT ![r] = Refused] \/ request' = [request EXCEPT ![r] = q]
    BY <1>7 DEF EstimateEnd
  <2> QED BY <1>0, <1>7, <2>1, <2>2, OneRequestPast DEF EstimateEnd
<1>8. ASSUME NEW r \in Requests, CountBlocks(r)
      PROVE  PastInv'
  <2> DEFINE count == BlockCount(request[r].startBlock, request[r].endBlock, cache.height)
             q == [request[r] EXCEPT !.pc = "counted", !.current = cache.height,
                                     !.count = count]
  <2>1. SubtractsPast(q)
    BY DEF SubtractsPast, TypeOK, Request
  <2>2. request' = [request EXCEPT ![r] = Refused] \/ request' = [request EXCEPT ![r] = q]
    BY <1>8 DEF CountBlocks
  <2> QED BY <1>0, <1>8, <2>1, <2>2, OneRequestPast DEF CountBlocks
<1>9. ASSUME NEW r \in Requests, CreateProcess(r)
      PROVE  PastInv'
  <2> DEFINE first == DbStart(request[r].startBlock, request[r].current)
             q == [request[r] EXCEPT !.pc = "created", !.dbStart = first,
                                     !.dbEnd = (first + request[r].count) % Word]
  <2>1. SubtractsPast(request[r]) /\ request[r].pc = "counted"
    BY <1>9 DEF CreateProcess
  <2>2. SubtractsPast(q)
    BY <2>1 DEF SubtractsPast, TypeOK, Request
  <2> QED BY <1>9, <2>2, OneRequestPast DEF CreateProcess
<1>10. ASSUME NEW r \in Requests, Include(r)
       PROVE  PastInv'
  <2> DEFINE q == [request[r] EXCEPT !.pc = "included"]
  <2>1. SubtractsPast(q)
    BY DEF SubtractsPast, TypeOK, Request
  <2>2. request' = [request EXCEPT ![r] = q]
    BY <1>10 DEF Include, TypeOK, Request
  <2> QED BY <1>10, <2>1, <2>2, OneRequestPast DEF Include
<1> QED
  BY <1>1, <1>2, <1>3, <1>4, <1>5, <1>6, <1>7, <1>8, <1>9, <1>10 DEF Next, Step

LEMMA IncludedInTime ==
  ASSUME TypeOK, PastInv, NEW r \in Requests,
         request[r].pc = "created", request[r].startBlock = 0,
         request[r].endBlock + 3 < Word
  PROVE  chain + request[r].count >= request[r].endBlock
<1> DEFINE q == request[r]
<1>1. q.endBlock \in Height /\ q.current \in Height /\ chain \in Height
  BY DEF TypeOK, Request
<1>2. q.current <= chain /\ q.count = BlockCount(0, q.endBlock, q.current)
  BY DEF PastInv, SubtractsPast
<1> HIDE DEF q
<1>3. q.endBlock + 3 < Word => chain + BlockCount(0, q.endBlock, q.current) >= q.endBlock
  BY <1>1, <1>2, CountReaches
<1> QED BY <1>2, <1>3 DEF q

(* An election that starts at once is never shorter than its end date asks *)
(* for, whatever the age of the cached height and the block that includes  *)
(* it.                                                                     *)
THEOREM ElectionsLongEnough == Spec => NeverShort
<1>1. Init => PastInv
  <2>1. 0..MaxHeight \subseteq Nat
    OBVIOUS
  <2> QED
    BY <2>1, ElectionBlocksConstants DEF Init, PastInv, SubtractsPast, NoRequest
<1>2. TypeOK /\ PastInv /\ [Next]_vars => PastInv'
  BY PastStep
<1> DEFINE A == \A r \in Requests :
       /\ request[r].pc = "created" /\ request'[r].pc = "included"
       /\ request[r].startBlock = 0 /\ request[r].endBlock + 3 < Word
       => chain + request[r].count >= request[r].endBlock
<1>3. TypeOK /\ PastInv => A
  BY IncludedInTime
<1>4. NeverShort <=> [][A]_vars
  BY DEF NeverShort
<1> QED BY <1>1, <1>2, <1>3, <1>4, TypeCorrect, PTL DEF Spec
-----------------------------------------------------------------------------
(* Blocks out of order.                                                    *)

(* The quotient by an average keeps the order.                             *)
LEMMA QuotientMonotone ==
  ASSUME NEW a \in Nat, NEW b \in Nat, NEW n \in Nat \ {0}, a <= b
  PROVE  a \div n <= b \div n
  BY SMTT(30)

LEMMA ProductMonotone ==
  ASSUME NEW a \in Nat, NEW b \in Nat, NEW n \in Nat, a <= b
  PROVE  a * n <= b * n
<1> DEFINE k == b - a
<1>1. k \in Nat /\ b = a + k
  OBVIOUS
<1> HIDE DEF k
<1>2. (a + k) * n = a * n + k * n /\ k * n \in Nat /\ a * n \in Nat
  BY <1>1
<1> QED BY <1>1, <1>2

(* A distance that fits in the word is divided as it is.                   *)
LEMMA FittingDiff ==
  ASSUME NEW read \in Read, NEW date \in Nat, Fits(read, date)
  PROVE  BlockDiff(read, date) = (Distance(date, read.now) * Milli) \div BlockTime(read, date)
<1> DEFINE p == Distance(date, read.now) * Milli
<1>1. p \in Nat
  BY DistanceType, Product, ElectionBlocksConstants DEF Read
<1>2. p < Word
  BY DEF Fits
<1> HIDE DEF p
<1>3. p % Word = p
  BY <1>1, <1>2, WordPositive
<1> QED BY <1>3 DEF BlockDiff, p

(* With one average, what is further away is more blocks away.             *)
LEMMA DiffMonotone ==
  ASSUME NEW read \in Read, NEW a \in Nat, NEW b \in Nat,
         Fits(read, a), Fits(read, b), BlockTime(read, a) = BlockTime(read, b),
         Distance(a, read.now) <= Distance(b, read.now)
  PROVE  BlockDiff(read, a) <= BlockDiff(read, b)
<1> DEFINE n == BlockTime(read, b)
           c == Distance(a, read.now)
           d == Distance(b, read.now)
<1>1. read.now \in Nat /\ read.times \in BlockTimes
  BY DEF Read
<1>2. c \in Nat /\ d \in Nat /\ c <= d
  BY <1>1, DistanceType
<1>3. n \in Nat \ {0}
  BY <1>1, <1>2, PeriodType, AverageIsPositive DEF BlockTime
<1>4. BlockDiff(read, a) = (c * Milli) \div n /\ BlockDiff(read, b) = (d * Milli) \div n
  BY FittingDiff
<1> HIDE DEF n, c, d
<1>5. Milli \in Nat
  BY ElectionBlocksConstants
<1>6. c * Milli \in Nat /\ d * Milli \in Nat /\ c * Milli <= d * Milli
  BY <1>2, <1>5, Product, ProductMonotone
<1>7. (c * Milli) \div n <= (d * Milli) \div n
  BY <1>3, <1>6, QuotientMonotone
<1> QED BY <1>4, <1>7

(* One read converts dates in order to blocks in order, if they fit and    *)
(* have the same average.                                                  *)
LEMMA EstimateMonotone ==
  ASSUME NEW read \in Read, NEW a \in Nat, NEW b \in Nat, a <= b,
         Fits(read, a), Fits(read, b), BlockTime(read, a) = BlockTime(read, b),
         EstimateBlockHeight(read, a) # Nil, EstimateBlockHeight(read, b) # Nil
  PROVE  EstimateBlockHeight(read, a) <= EstimateBlockHeight(read, b)
<1> DEFINE d(date) == BlockDiff(read, date)
<1>1. read.now \in Nat /\ read.height \in Nat
  BY WordPositive DEF Read, Height
<1>2. d(a) \in Nat /\ d(b) \in Nat
  BY BlockDiffType
<1>3. \A date \in {a, b} :
        date >= read.now => EstimateBlockHeight(read, date) = read.height + d(date)
  <2> SUFFICES ASSUME NEW date \in {a, b}, date >= read.now
               PROVE  EstimateBlockHeight(read, date) = read.height + d(date)
    OBVIOUS
  <2> DEFINE sum == read.height + d(date)
  <2>1. sum \in Nat
    BY <1>1, <1>2
  <2>2. sum < Word
    BY DEF Fits
  <2>3. EstimateBlockHeight(read, date) = sum % Word
    BY <1>1 DEF EstimateBlockHeight
  <2> HIDE DEF sum
  <2>4. sum % Word = sum
    BY <2>1, <2>2, WordPositive
  <2> QED BY <2>3, <2>4 DEF sum
<1>4. \A date \in {a, b} :
        date < read.now => EstimateBlockHeight(read, date) = read.height - d(date)
  BY <1>1 DEF EstimateBlockHeight
<1>5. CASE a >= read.now
  <2>1. b >= read.now /\ Distance(a, read.now) <= Distance(b, read.now)
    BY <1>1, <1>5 DEF Distance
  <2>2. d(a) <= d(b)
    BY <2>1, DiffMonotone
  <2>3. /\ EstimateBlockHeight(read, a) = read.height + d(a)
        /\ EstimateBlockHeight(read, b) = read.height + d(b)
    BY <1>3, <1>5, <2>1
  <2> HIDE DEF d
  <2> QED BY <1>1, <1>2, <2>2, <2>3
<1>6. CASE a < read.now /\ b < read.now
  <2>1. Distance(b, read.now) <= Distance(a, read.now)
    BY <1>1, <1>6 DEF Distance
  <2>2. d(b) <= d(a)
    BY <2>1, DiffMonotone
  <2>3. /\ EstimateBlockHeight(read, a) = read.height - d(a)
        /\ EstimateBlockHeight(read, b) = read.height - d(b)
    BY <1>4, <1>6
  <2> HIDE DEF d
  <2> QED BY <1>1, <1>2, <2>2, <2>3
<1>7. CASE a < read.now /\ b >= read.now
  <2>1. /\ EstimateBlockHeight(read, a) = read.height - d(a)
        /\ EstimateBlockHeight(read, b) = read.height + d(b)
    BY <1>3, <1>4, <1>7
  <2> HIDE DEF d
  <2> QED BY <1>1, <1>2, <2>1
<1> QED BY <1>1, <1>5, <1>6, <1>7

BothDates(q) == q.pc \in {"ranged", "counted", "created", "included"}
Started(q) == q.pc \in {"started", "dated"} \/ BothDates(q)

(* A block of a request is the estimate of its date.                       *)
Converted(q) ==
  /\ Started(q) =>
       \/ q.startBlock = 0
       \/ /\ q.startRead \in Read
          /\ q.startBlock = EstimateBlockHeight(q.startRead, q.startDate)
          /\ q.startBlock # Nil
  /\ BothDates(q) =>
       /\ q.startDate <= q.endDate
       /\ q.endRead \in Read
       /\ q.endBlock = EstimateBlockHeight(q.endRead, q.endDate)
       /\ q.endBlock # Nil

ConvertedInv == \A r \in Requests : Converted(request[r])

LEMMA OneRequestConverted ==
  ASSUME TypeOK, ConvertedInv, NEW r \in Requests, NEW q, Converted(q),
         request' = [request EXCEPT ![r] = q]
  PROVE  ConvertedInv'
<1>1. \A x \in Requests : request'[x] = request[x] \/ request'[x] = q
  BY DEF TypeOK
<1>2. \A x \in Requests : Converted(request'[x])
  BY <1>1 DEF ConvertedInv
<1> QED BY <1>2 DEF ConvertedInv, Converted, Started, BothDates

LEMMA ConvertedStep ==
  ASSUME TypeOK, ConvertedInv, [Next]_vars
  PROVE  ConvertedInv'
<1>0. Converted(Refused)
  BY DEF Converted, Started, BothDates, Refused, NoRequest
<1>1. CASE UNCHANGED request
  BY <1>1 DEF ConvertedInv, Converted, Started, BothDates
<1>2. CASE Refresh \/ Grow \/ Tick \/ UNCHANGED vars
  BY <1>1, <1>2 DEF Refresh, AskHeight, HeightFails, SetHeight, SetTimes, TimesFail,
                    Grow, Tick, vars
<1>3. ASSUME NEW r \in Requests, NEW endDate \in Dates, StartNow(r, endDate)
      PROVE  ConvertedInv'
  <2> DEFINE q == [NoRequest EXCEPT !.pc = "started", !.startDate = clock,
                                    !.endDate = endDate]
  <2>1. Converted(q)
    BY DEF Converted, Started, BothDates, NoRequest
  <2> QED BY <1>3, <2>1, OneRequestConverted DEF StartNow
<1>4. ASSUME NEW r \in Requests, NEW startDate \in Dates, NEW endDate \in Dates,
             StartAt(r, startDate, endDate)
      PROVE  ConvertedInv'
  <2> DEFINE block == EstimateBlockHeight(GetBlockTimes, startDate)
             q == [NoRequest EXCEPT !.pc = "started", !.startDate = startDate,
                                    !.endDate = endDate, !.startBlock = block,
                                    !.startRead = GetBlockTimes]
  <2>1. CASE block = Nil
    BY <1>0, <1>4, <2>1, OneRequestConverted DEF StartAt
  <2>2. CASE block # Nil
    <3>1. request' = [request EXCEPT ![r] = q]
      BY <1>4, <2>2 DEF StartAt
    <3>2. /\ q.pc = "started" /\ q.startRead = GetBlockTimes /\ q.startDate = startDate
          /\ q.startBlock = block
      BY DEF NoRequest
    <3> HIDE DEF q
    <3>3. Converted(q)
      BY <2>2, <3>2, ReadType DEF Converted, Started, BothDates
    <3> QED BY <3>1, <3>3, OneRequestConverted
  <2> QED BY <2>1, <2>2
<1>5. ASSUME NEW r \in Requests, CheckEnd(r) \/ RefuseForService(r)
      PROVE  ConvertedInv'
  <2> DEFINE q == [request[r] EXCEPT !.pc = "dated"]
  <2>1. CASE request' = [request EXCEPT ![r] = Refused]
    BY <1>5, <2>1, <1>0, OneRequestConverted DEF CheckEnd, RefuseForService
  <2>2. CASE request[r].pc = "started" /\ request' = [request EXCEPT ![r] = q]
    <3>1. Converted(q)
      BY <2>2 DEF Converted, ConvertedInv, Started, BothDates, TypeOK, Request
    <3> QED BY <1>5, <2>2, <3>1, OneRequestConverted DEF CheckEnd, RefuseForService
  <2> QED BY <1>5, <2>1, <2>2 DEF CheckEnd, RefuseForService
<1>6. ASSUME NEW r \in Requests, EstimateEnd(r)
      PROVE  ConvertedInv'
  <2> DEFINE p == request[r]
             block == EstimateBlockHeight(GetBlockTimes, p.endDate)
             q == [p EXCEPT !.pc = "ranged", !.endBlock = block,
                            !.endRead = GetBlockTimes]
  <2>1. CASE block = Nil \/ p.endDate < p.startDate
    BY <1>0, <1>6, <2>1, OneRequestConverted DEF EstimateEnd
  <2>2. CASE ~(block = Nil \/ p.endDate < p.startDate)
    <3>1. request' = [request EXCEPT ![r] = q]
      BY <1>6, <2>2 DEF EstimateEnd
    <3>2. p \in Request /\ p.pc = "dated" /\ Converted(p)
      BY <1>6 DEF EstimateEnd, TypeOK, ConvertedInv
    <3>3. /\ q.pc = "ranged" /\ q.startRead = p.startRead /\ q.startDate = p.startDate
          /\ q.startBlock = p.startBlock /\ q.endDate = p.endDate
          /\ q.endRead = GetBlockTimes /\ q.endBlock = block
      BY <3>2 DEF Request
    <3>4. p.startDate <= p.endDate
      BY <2>2, <3>2 DEF Request
    <3> HIDE DEF q, p
    <3>5. Converted(q)
      BY <2>2, <3>2, <3>3, <3>4, ReadType DEF Converted, Started, BothDates
    <3> QED BY <3>1, <3>5, OneRequestConverted
  <2> QED BY <2>1, <2>2
<1>7. ASSUME NEW r \in Requests, CountBlocks(r)
      PROVE  ConvertedInv'
  <2> DEFINE count == BlockCount(request[r].startBlock, request[r].endBlock, cache.height)
             q == [request[r] EXCEPT !.pc = "counted", !.current = cache.height,
                                     !.count = count]
  <2>1. Converted(q)
    BY <1>7 DEF Converted, Started, BothDates, ConvertedInv, TypeOK, Request, CountBlocks
  <2>2. request' = [request EXCEPT ![r] = Refused] \/ request' = [request EXCEPT ![r] = q]
    BY <1>7 DEF CountBlocks
  <2> QED BY <1>0, <2>1, <2>2, OneRequestConverted
<1>8. ASSUME NEW r \in Requests, CreateProcess(r)
      PROVE  ConvertedInv'
  <2> DEFINE first == DbStart(request[r].startBlock, request[r].current)
             q == [request[r] EXCEPT !.pc = "created", !.dbStart = first,
                                     !.dbEnd = (first + request[r].count) % Word]
  <2>1. Converted(q)
    BY <1>8 DEF Converted, Started, BothDates, ConvertedInv, TypeOK, Request, CreateProcess
  <2> QED BY <1>8, <2>1, OneRequestConverted DEF CreateProcess
<1>9. ASSUME NEW r \in Requests, Include(r)
      PROVE  ConvertedInv'
  <2> DEFINE q == [request[r] EXCEPT !.pc = "included"]
  <2>1. Converted(q)
    BY <1>9 DEF Converted, Started, BothDates, ConvertedInv, TypeOK, Request, Include
  <2>2. request' = [request EXCEPT ![r] = q]
    BY <1>9 DEF Include, TypeOK, Request
  <2> QED BY <2>1, <2>2, OneRequestConverted
<1> QED
  BY <1>2, <1>3, <1>4, <1>5, <1>6, <1>7, <1>8, <1>9 DEF Next, Step

(* The end block of an election comes before its start block only if the   *)
(* cache or the clock moved between the two estimates, the averages of the *)
(* two dates differ, or the word is too short, for any dates and averages. *)
THEOREM InversionsExplained == Spec => []InvertedExplained
<1>1. Init => ConvertedInv
  BY DEF Init, ConvertedInv, Converted, Started, BothDates, NoRequest
<1>2. TypeOK /\ ConvertedInv /\ [Next]_vars => ConvertedInv'
  BY ConvertedStep
<1>3. TypeOK /\ ConvertedInv => InvertedExplained
  <2> SUFFICES ASSUME TypeOK, ConvertedInv, NEW r \in Requests,
                      Ranged(r), request[r].startRead = request[r].endRead,
                      Fits(request[r].startRead, request[r].startDate),
                      Fits(request[r].endRead, request[r].endDate),
                      BlockTime(request[r].startRead, request[r].startDate)
                        = BlockTime(request[r].endRead, request[r].endDate)
               PROVE  request[r].startBlock <= request[r].endBlock
    BY DEF InvertedExplained
  <2> DEFINE q == request[r]
  <2>1. q \in Request /\ Converted(q) /\ BothDates(q)
    BY DEF TypeOK, ConvertedInv, Ranged, BothDates
  <2>2. q.startDate \in Nat /\ q.endDate \in Nat /\ q.endBlock \in Nat
    BY <2>1, WordPositive DEF Request, Height
  <2> HIDE DEF q
  <2>3. CASE q.startBlock = 0
    BY <2>2, <2>3 DEF q
  <2>4. CASE q.startBlock # 0
    <3>1. /\ q.endRead \in Read
          /\ q.startBlock = EstimateBlockHeight(q.endRead, q.startDate)
          /\ q.endBlock = EstimateBlockHeight(q.endRead, q.endDate)
          /\ q.startBlock # Nil /\ q.endBlock # Nil /\ q.startDate <= q.endDate
      BY <2>1, <2>4 DEF Converted, Started, BothDates, q
    <3>2. Fits(q.endRead, q.startDate) /\ Fits(q.endRead, q.endDate)
      BY DEF q
    <3>3. BlockTime(q.endRead, q.startDate) = BlockTime(q.endRead, q.endDate)
      BY DEF q
    <3>4. q.startBlock <= q.endBlock
      BY <2>2, <3>1, <3>2, <3>3, EstimateMonotone
    <3> QED BY <3>4 DEF q
  <2> QED BY <2>3, <2>4
<1> QED BY <1>1, <1>2, <1>3, TypeCorrect, PTL DEF Spec
=============================================================================
