--------------------------- MODULE ElectionBlocks ---------------------------
(***************************************************************************)
(* From the dates of an election to its blocks.  createProcess asks        *)
(* estimateBlockHeight for the block of either date, and reads the height  *)
(* of the chain once more, after slow calls, to count the blocks of the    *)
(* election.  All three reads take the client's cache, which a goroutine   *)
(* refreshes with two requests to the gateway, the second under the lock.  *)
(* Heights are unsigned integers modulo Word.                              *)
(***************************************************************************)
EXTENDS Integers, FiniteSetsExt

CONSTANTS
  Requests,      \* the createProcess handlers that run
  Dates,         \* the dates a client may ask for, in seconds
  AvgTimes,      \* averages a gateway reports, [0..4 -> milliseconds], 0 for none
  FirstHeights,  \* heights of the chain when the process starts
  Word,          \* 2^32 in the code
  Milli,         \* 1000 in the code
  Near,          \* 900 seconds in the code
  Far,           \* 21600 seconds in the code
  Fallback,      \* 10000 milliseconds in the code
  MaxHeight,     \* bound: the chain's height
  MaxClock,      \* bound: the clock
  Nil

VOCHAIN_BLOCK_MARGIN == 5
IMMEDIATE_PROCESS_CREATION_OFFSET == 3

BlockTimes == [0..4 -> Nat]

ASSUME ElectionBlocksConstants ==
  /\ Dates \subseteq Nat
  /\ AvgTimes \subseteq BlockTimes
  /\ Word \in Nat /\ Milli \in Nat \ {0} /\ Fallback \in Nat \ {0}
  /\ Near \in Nat /\ Far \in Nat /\ Near <= Far
  /\ MaxHeight \in Nat /\ MaxClock \in Nat
  /\ MaxHeight + VOCHAIN_BLOCK_MARGIN < Word
  /\ FirstHeights \subseteq 0..MaxHeight
  /\ Nil \notin Int

VARIABLES
  chain,    \* height of the Vochain
  clock,    \* time.Now(), in seconds
  cache,    \* blockHeight of the client, and how its last refresh went
  refresh,  \* the goroutine that refreshes it, the height in its hands, its lock
  request   \* the handlers of createProcess

vars == <<chain, clock, cache, refresh, request>>

Height == 0..Word - 1
Marks == {"unset", "half", "whole", "failed"}
Cache == [height: Height, times: BlockTimes, mark: Marks]
Read == [height: Height, times: BlockTimes, mark: Marks, now: Nat]

(* What a handler knows, and a history of what it read for either date.    *)
Request == [
  pc: {"idle", "started", "dated", "ranged", "counted", "created", "included", "refused"},
  startDate: Nat, endDate: Nat,
  startBlock: Height, endBlock: Height,
  startRead: Read \cup {Nil}, endRead: Read \cup {Nil},
  current: Height, count: Height,
  dbStart: Height, dbEnd: Height]

TypeOK ==
  /\ chain \in Height
  /\ clock \in Nat
  /\ cache \in Cache
  /\ refresh \in [pc: {"sleeping", "asked", "setting"}, height: Height, locked: BOOLEAN]
  /\ request \in [Requests -> Request]

NoRequest == [
  pc |-> "idle", startDate |-> 0, endDate |-> 0, startBlock |-> 0, endBlock |-> 0,
  startRead |-> Nil, endRead |-> Nil, current |-> 0, count |-> 0,
  dbStart |-> 0, dbEnd |-> 0]

(* The cache holds zeros until the first refresh, 10 seconds after New.    *)
Init ==
  /\ chain \in FirstHeights
  /\ clock = 0
  /\ cache = [height |-> 0, times |-> [i \in 0..4 |-> 0], mark |-> "unset"]
  /\ refresh = [pc |-> "sleeping", height |-> 0, locked |-> FALSE]
  /\ request = [r \in Requests |-> NoRequest]

-----------------------------------------------------------------------------
(* estimateBlockHeight.                                                    *)

Distance(a, b) == IF a < b THEN b - a ELSE a - b

(* getMaxTimeFrom: the longest period up to i that has an average.         *)
GetMaxTimeFrom(times, i) ==
  LET known == {j \in 0..i : times[j] # 0}
  IN  IF known = {} THEN Fallback ELSE times[Max(known)]

Period(seconds) == CASE seconds < Near -> 1
                     [] seconds >= Near /\ seconds < Far -> 3
                     [] OTHER -> 4

BlockTime(read, date) == GetMaxTimeFrom(read.times, Period(Distance(date, read.now)))

BlockDiff(read, date) ==
  ((Distance(date, read.now) * Milli) % Word) \div BlockTime(read, date)

(* Mutant: the check for the origin of the chain is lost.                  *)
EstimateBeforeOrigin(read, date) ==
  IF date >= read.now THEN (read.height + BlockDiff(read, date)) % Word
                      ELSE read.height - BlockDiff(read, date)

(* Mutant: the distance of a past date is added.                           *)
EstimateForward(read, date) == (read.height + BlockDiff(read, date)) % Word

(* Nil is the error "before Vochain origin".                               *)
EstimateBlockHeight(read, date) ==
  CASE date >= read.now -> (read.height + BlockDiff(read, date)) % Word
    [] date < read.now /\ BlockDiff(read, date) <= read.height ->
         read.height - BlockDiff(read, date)
    [] OTHER -> Nil

-----------------------------------------------------------------------------
(* The cache.                                                              *)

(* Mutant: GetBlockTimes without RLock.                                    *)
CanAlwaysRead == TRUE

(* RLock waits for the goroutine that holds the lock.                      *)
CanRead == ~refresh.locked

GetBlockTimes ==
  [height |-> cache.height, times |-> cache.times, mark |-> cache.mark, now |-> clock]

(* getBlockHeight: the height the gateway answers with, if it answers.     *)
AskHeight ==
  /\ refresh.pc = "sleeping"
  /\ refresh' = [refresh EXCEPT !.pc = "asked", !.height = chain]
  /\ UNCHANGED <<chain, clock, cache, request>>

HeightFails ==
  /\ refresh.pc = "asked"
  /\ refresh' = [refresh EXCEPT !.pc = "sleeping", !.height = 0]
  /\ UNCHANGED <<chain, clock, cache, request>>

SetHeight ==
  /\ refresh.pc = "asked"
  /\ ~refresh.locked
  /\ refresh' = [refresh EXCEPT !.pc = "setting", !.locked = TRUE]
  /\ cache' = [cache EXCEPT !.height = refresh.height, !.mark = "half"]
  /\ UNCHANGED <<chain, clock, request>>

(* getBlockStatus; its timestamp plays no part in the estimates.           *)
SetTimes ==
  /\ refresh.pc = "setting"
  /\ \E times \in AvgTimes :
       cache' = [cache EXCEPT !.times = times, !.mark = "whole"]
  /\ refresh' = [pc |-> "sleeping", height |-> 0, locked |-> FALSE]
  /\ UNCHANGED <<chain, clock, request>>

(* Mutant: an early return without the deferred Unlock.                    *)
TimesFailLocked ==
  /\ refresh.pc = "setting"
  /\ cache' = [cache EXCEPT !.mark = "failed"]
  /\ refresh' = [refresh EXCEPT !.pc = "sleeping", !.height = 0]
  /\ UNCHANGED <<chain, clock, request>>

TimesFail ==
  /\ refresh.pc = "setting"
  /\ cache' = [cache EXCEPT !.mark = "failed"]
  /\ refresh' = [pc |-> "sleeping", height |-> 0, locked |-> FALSE]
  /\ UNCHANGED <<chain, clock, request>>

-----------------------------------------------------------------------------
(* createProcess, from the dates to the answer.                            *)

OutsideUnchanged == UNCHANGED <<chain, clock, cache, refresh>>

(* A refused request leaves nothing behind.                                *)
Refused == [NoRequest EXCEPT !.pc = "refused"]

(* No startDate: startBlock stays 0.                                       *)
StartNow(r, endDate) ==
  /\ request[r].pc = "idle"
  /\ request' = [request EXCEPT ![r] =
       [NoRequest EXCEPT !.pc = "started", !.startDate = clock, !.endDate = endDate]]
  /\ OutsideUnchanged

StartAt(r, startDate, endDate) ==
  LET block == EstimateBlockHeight(GetBlockTimes, startDate)
  IN  /\ request[r].pc = "idle"
      /\ CanRead
      /\ request' = [request EXCEPT ![r] =
           IF block = Nil
             THEN Refused
             ELSE [NoRequest EXCEPT !.pc = "started", !.startDate = startDate,
                                    !.endDate = endDate, !.startBlock = block,
                                    !.startRead = GetBlockTimes]]
      /\ OutsideUnchanged

(* The end date has not passed; it may have when the lock is free.         *)
CheckEnd(r) ==
  /\ request[r].pc = "started"
  /\ request' = [request EXCEPT ![r] =
       IF request[r].endDate < clock THEN Refused ELSE [request[r] EXCEPT !.pc = "dated"]]
  /\ OutsideUnchanged

EstimateEnd(r) ==
  LET q == request[r]
      block == EstimateBlockHeight(GetBlockTimes, q.endDate)
  IN  /\ q.pc = "dated"
      /\ CanRead
      /\ request' = [request EXCEPT ![r] =
           IF block = Nil \/ q.endDate < q.startDate
             THEN Refused
             ELSE [q EXCEPT !.pc = "ranged", !.endBlock = block,
                            !.endRead = GetBlockTimes]]
      /\ OutsideUnchanged

(* The metadata cannot be stored, the account cannot be read or funded, or *)
(* the Vochain rejects the process.                                        *)
RefuseForService(r) ==
  /\ request[r].pc \in {"ranged", "counted"}
  /\ request' = [request EXCEPT ![r] = Refused]
  /\ OutsideUnchanged

(* Mutant: from the block the process is expected to start at.             *)
BlockCountFromStart(startBlock, endBlock, current) ==
  IF startBlock = 0
    THEN (endBlock - startBlock - current - 3) % Word
    ELSE (endBlock - startBlock) % Word

BlockCount(startBlock, endBlock, current) ==
  IF startBlock = 0
    THEN (endBlock - startBlock - current + 3) % Word
    ELSE (endBlock - startBlock) % Word

TooSoon(startBlock, current) ==
  startBlock > 1 /\ startBlock < (current + VOCHAIN_BLOCK_MARGIN) % Word

CountBlocks(r) ==
  LET q == request[r]
  IN  /\ q.pc = "ranged"
      /\ CanRead
      /\ request' = [request EXCEPT ![r] =
           IF TooSoon(q.startBlock, cache.height)
             THEN Refused
             ELSE [q EXCEPT !.pc = "counted", !.current = cache.height,
                            !.count = BlockCount(q.startBlock, q.endBlock, cache.height)]]
      /\ OutsideUnchanged

DbStart(startBlock, current) ==
  IF startBlock <= 1 THEN (current + IMMEDIATE_PROCESS_CREATION_OFFSET) % Word
                     ELSE startBlock

(* The Vochain takes startBlock and count; the row gets the blocks below.  *)
CreateProcess(r) ==
  LET q == request[r]
      first == DbStart(q.startBlock, q.current)
  IN  /\ q.pc = "counted"
      /\ request' = [request EXCEPT ![r] =
           [q EXCEPT !.pc = "created", !.dbStart = first,
                     !.dbEnd = (first + q.count) % Word]]
      /\ OutsideUnchanged

(* The Vochain: a process that starts at once starts with its block.       *)
Include(r) ==
  /\ request[r].pc = "created"
  /\ request' = [request EXCEPT ![r].pc = "included"]
  /\ OutsideUnchanged

Grow ==
  /\ chain < MaxHeight
  /\ chain' = chain + 1
  /\ UNCHANGED <<clock, cache, refresh, request>>

Tick ==
  /\ clock < MaxClock
  /\ clock' = clock + 1
  /\ UNCHANGED <<chain, cache, refresh, request>>

Refresh == AskHeight \/ HeightFails \/ SetHeight \/ SetTimes \/ TimesFail

Step(r) ==
  \/ CheckEnd(r)
  \/ EstimateEnd(r)
  \/ RefuseForService(r)
  \/ CountBlocks(r)
  \/ CreateProcess(r)

Next ==
  \/ Refresh
  \/ Grow
  \/ Tick
  \/ \E r \in Requests :
       \/ \E endDate \in Dates : StartNow(r, endDate)
       \/ \E startDate, endDate \in Dates : StartAt(r, startDate, endDate)
       \/ Step(r)
       \/ Include(r)

Spec == Init /\ [][Next]_vars

(* The call made under the lock returns, and so do those of a handler.  A  *)
(* handler finds the lock free again and again: strong fairness says that  *)
(* readers who wait for an RWMutex go before the next writer.              *)
FairSpec ==
  /\ Spec
  /\ WF_vars(SetTimes \/ TimesFail)
  /\ \A r \in Requests : SF_vars(Step(r))

-----------------------------------------------------------------------------
(* Properties.                                                             *)

Ranged(r) == request[r].pc \in {"ranged", "counted", "created", "included"}
Created(r) == request[r].pc \in {"created", "included"}

(* The blocks of a date fit in Word without wrapping.                      *)
Fits(read, date) ==
  /\ Distance(date, read.now) * Milli < Word
  /\ read.height + BlockDiff(read, date) < Word

(* The end block of an election comes before its start block, and the      *)
(* count of blocks wraps, only if the cache or the clock moved between the *)
(* two calls of estimateBlockHeight, if the two dates are converted with   *)
(* different averages, or if 32 bits are not enough (createProcess).       *)
InvertedExplained ==
  \A r \in Requests :
    LET q == request[r]
    IN  /\ Ranged(r) /\ q.startRead = q.endRead
        /\ Fits(q.startRead, q.startDate) /\ Fits(q.endRead, q.endDate)
        /\ BlockTime(q.startRead, q.startDate) = BlockTime(q.endRead, q.endDate)
        => q.startBlock <= q.endBlock

(* No estimate takes the new height with the averages that are about to be *)
(* replaced: the lock of getVocHeight covers both requests.                *)
WholeReads ==
  \A r \in Requests :
    /\ request[r].startRead # Nil => request[r].startRead.mark # "half"
    /\ request[r].endRead # Nil => request[r].endRead.mark # "half"

(* An election that starts at once never ends on the Vochain before the    *)
(* block estimated for its end date, however old the height was that       *)
(* createProcess subtracted and however late the process is included.      *)
NeverShort ==
  [][\A r \in Requests :
       /\ request[r].pc = "created" /\ request'[r].pc = "included"
       /\ request[r].startBlock = 0 /\ request[r].endBlock + 3 < Word
       => chain + request[r].count >= request[r].endBlock]_vars

(* Once begun, a request is answered: the refresh gives the lock back also *)
(* when its second call fails (getVocHeight).                              *)
RequestsAnswered ==
  \A r \in Requests :
    request[r].pc = "started" ~> request[r].pc \in {"created", "refused"}

(* "end date must be after start date": so does the end block of a row     *)
(* come after its start block (createProcess).                             *)
EndAfterStart ==
  \A r \in Requests : Created(r) => request[r].dbStart <= request[r].dbEnd

(* "Otherwise, ensure the startBlock is in the future", when the process   *)
(* is sent to the Vochain (createProcess).                                 *)
StartInFuture ==
  [][\A r \in Requests :
       /\ request[r].pc = "counted" /\ request'[r].pc = "created"
       /\ request[r].startBlock # 0
       => request[r].startBlock > chain]_vars
=============================================================================
