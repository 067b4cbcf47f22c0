---------------------------- MODULE ElectionViews ----------------------------
(***************************************************************************)
(* What clients are told of elections.  A list asks a gateway for the      *)
(* elections with a status, page by page, and sorts them by the blocks of  *)
(* the database and the cached height.  The answer about one election      *)
(* takes the gateway's status and blocks, and three reads of the cache.    *)
(* Elections, their rows, the integrator's key and the cache change        *)
(* meanwhile.  Handlers read and write nothing that others read.           *)
(***************************************************************************)
EXTENDS Integers, FiniteSets

CONSTANTS
  Requests,      \* requests to list elections or to show one
  Elections,     \* numbers: the order in which the gateway lists them
  Old,           \* elections that were there before
  StartBlock,    \* of each election, 0 for one that starts at once
  BlockCount,    \* of each election
  Confidential,  \* elections with private metadata
  Blind,         \* elections with blind signatures, the others are ecdsa
  AvgTimes,      \* averages a gateway reports, [0..4 -> milliseconds], 0 for none
  PageSize,      \* 64 in the code
  Near,          \* 100 blocks in the code
  Far,           \* 1000 blocks in the code
  Fallback,      \* 10000 milliseconds in the code
  Filters,       \* filters the clients use, in upper case; "" for all elections
  FirstHeight,   \* height of the chain when the process starts
  MaxHeight,     \* bound: the chain's height
  MaxChanges,    \* bound: changes of status
  Nil

IMMEDIATE_PROCESS_CREATION_OFFSET == 3

BlockTimes == [0..4 -> Nat]

ASSUME ElectionViewsConstants ==
  /\ IsFiniteSet(Elections) /\ Elections \subseteq Nat
  /\ Old \subseteq Elections /\ Confidential \subseteq Elections
  /\ StartBlock \in [Elections -> Nat] /\ BlockCount \in [Elections -> Nat]
  /\ \A e \in Old : StartBlock[e] > 1
  /\ AvgTimes \subseteq BlockTimes
  /\ PageSize \in Nat \ {0} /\ Fallback \in Nat \ {0}
  /\ Near \in Nat /\ Far \in Nat
  /\ Filters \subseteq {"", "PAUSED", "CANCELED", "ENDED", "ACTIVE", "UPCOMING",
                        "BLIND", "SIGNED", "READY"}
  /\ MaxHeight \in Nat /\ FirstHeight \in 0..MaxHeight /\ MaxChanges \in Nat

VARIABLES
  chain,    \* height of the Vochain
  cache,    \* the client's height and averages
  process,  \* what a gateway answers about each election
  row,      \* its row in the database, or what waits to become one
  request,  \* the handlers
  changes,  \* how often the status of an election changed
  stirred   \* history: requests during which an election, a row or the key changed

vars == <<chain, cache, process, row, request, changes, stirred>>

Cache == [height: 0..MaxHeight, times: BlockTimes]

(* READY also after the last block, until the results are there.           *)
Status == {"READY", "PAUSED", "ENDED", "CANCELED", "RESULTS"}
Process == [status: Status, start: Nat, end: Nat]
Row == [state: {"absent", "cached", "stored"}, start: Nat, end: Nat]

Access == {"public", "voter", "integrator"}

Bare == [pc: {"idle", "failed", "refused"}]
Idle == [pc |-> "idle"]
Failed == [pc |-> "failed"]
Refused == [pc |-> "refused"]

(* keyed: the token of the request is the integrator's key.                *)
List == [pc: {"fetching", "fetched", "looking", "listed"},
         filter: Filters, access: {"public", "integrator"}, keyed: BOOLEAN,
         from: Nat, todo: [Elections -> Nat], shown: [Elections -> Nat],
         height: 0..MaxHeight]
(* same: every read of the cache so far found it as the first one did.     *)
View == [pc: {"asked", "found", "parsed", "started", "viewed"},
         election: Elections, access: Access, keyed: BOOLEAN, process: Process,
         status: {"PAUSED", "CANCELED", "UPCOMING", "ACTIVE", "ENDED"},
         startDate: Int, endDate: Int, first: Cache, same: BOOLEAN]

TypeOK ==
  /\ chain \in 0..MaxHeight
  /\ cache \in Cache
  /\ process \in [Elections -> Process \cup {Nil}]
  /\ row \in [Elections -> Row]
  /\ request \in [Requests -> Bare \cup List \cup View]
  /\ changes \in 0..MaxChanges
  /\ stirred \subseteq Requests

EndBlock(e) == StartBlock[e] + BlockCount[e]

Init ==
  /\ chain = FirstHeight
  /\ cache = [height |-> 0, times |-> [i \in 0..4 |-> 0]]
  /\ \E paused \in SUBSET Old :
       process = [e \in Elections |->
         IF e \in Old
           THEN [status |-> IF e \in paused THEN "PAUSED" ELSE "READY",
                 start |-> StartBlock[e], end |-> EndBlock(e)]
           ELSE Nil]
  /\ row = [e \in Elections |->
       [state |-> IF e \in Old THEN "stored" ELSE "absent",
        start |-> StartBlock[e], end |-> EndBlock(e)]]
  /\ request = [r \in Requests |-> Idle]
  /\ changes = 0
  /\ stirred = {}

-----------------------------------------------------------------------------
(* What changes meanwhile.                                                 *)

Running(r) == request[r].pc \notin {"idle", "failed", "refused"}

Stir == stirred' = {r \in Requests : Running(r)}

Grow ==
  /\ chain < MaxHeight
  /\ chain' = chain + 1
  /\ UNCHANGED <<cache, process, row, request, changes, stirred>>

(* getVocHeight, under its lock; the averages stay if they are not answered. *)
Refresh ==
  /\ \E times \in AvgTimes \cup {cache.times} :
       cache' = [height |-> chain, times |-> times]
  /\ UNCHANGED <<chain, process, row, request, changes, stirred>>

(* Mutant: the offset is taken off.                                        *)
RowStartEarlier(e) ==
  IF StartBlock[e] <= 1 THEN cache.height - IMMEDIATE_PROCESS_CREATION_OFFSET
                        ELSE StartBlock[e]

(* The row of an election that starts at once has a guess for its start.   *)
RowStart(e) ==
  IF StartBlock[e] <= 1 THEN cache.height + IMMEDIATE_PROCESS_CREATION_OFFSET
                        ELSE StartBlock[e]

(* createProcess; the Vochain starts it with its block if it is to start   *)
(* at once.                                                                *)
CreateProcess(e) ==
  LET start == IF StartBlock[e] = 0 THEN chain ELSE StartBlock[e]
  IN  /\ process[e] = Nil
      /\ process' = [process EXCEPT ![e] =
           [status |-> "READY", start |-> start, end |-> start + BlockCount[e]]]
      /\ row' = [row EXCEPT ![e] =
           [state |-> "cached", start |-> RowStart(e), end |-> RowStart(e) + BlockCount[e]]]
      /\ Stir
      /\ UNCHANGED <<chain, cache, request, changes>>

(* monitorCachedTxs: CreateElection.                                       *)
Commit(e) ==
  /\ row[e].state = "cached"
  /\ row' = [row EXCEPT ![e].state = "stored"]
  /\ Stir
  /\ UNCHANGED <<chain, cache, process, request, changes>>

After(status) ==
  CASE status = "READY"  -> {"PAUSED", "ENDED", "CANCELED"}
    [] status = "PAUSED" -> {"READY", "ENDED", "CANCELED"}
    [] OTHER             -> {}

(* setProcessStatus, as far as the Vochain executes it.                    *)
SetProcessStatus(e, status) ==
  /\ process[e] # Nil
  /\ status \in After(process[e].status)
  /\ changes < MaxChanges
  /\ changes' = changes + 1
  /\ process' = [process EXCEPT ![e].status = status]
  /\ Stir
  /\ UNCHANGED <<chain, cache, row, request>>

(* The Vochain has the results of an election that is over.                *)
PublishResults(e) ==
  /\ process[e] # Nil
  /\ \/ process[e].status = "ENDED"
     \/ process[e].status = "READY" /\ process[e].end <= chain
  /\ changes < MaxChanges
  /\ changes' = changes + 1
  /\ process' = [process EXCEPT ![e].status = "RESULTS"]
  /\ Stir
  /\ UNCHANGED <<chain, cache, row, request>>

Keyed(r) == Running(r) /\ request[r].access = "integrator"

(* UpdateIntegratorApiKey: the rows' keys cascade, the token does not.     *)
ResetKey ==
  /\ request' = [r \in Requests |->
       IF Keyed(r) THEN [request[r] EXCEPT !.keyed = FALSE] ELSE request[r]]
  /\ stirred' = stirred \cup {r \in Requests : Keyed(r)}
  /\ UNCHANGED <<chain, cache, process, row, changes>>

-----------------------------------------------------------------------------
(* getProcessList.                                                         *)

OutsideUnchanged == UNCHANGED <<chain, cache, process, row, changes, stirred>>

ListProcesses(r, filter, access) ==
  /\ request[r].pc = "idle"
  /\ request' = [request EXCEPT ![r] =
       [pc |-> "fetching", filter |-> filter, access |-> access, keyed |-> TRUE,
        from |-> 0, todo |-> [e \in Elections |-> 0], shown |-> [e \in Elections |-> 0],
        height |-> 0]]
  /\ OutsideUnchanged

GwFilter(filter) ==
  CASE filter \in {"ACTIVE", "UPCOMING"} -> "READY"
    [] filter \in {"BLIND", "SIGNED"}    -> ""
    [] OTHER                             -> filter

Matching(status) ==
  {e \in Elections : process[e] # Nil /\ status \in {"", process[e].status}}

(* Mutant: the last election of a page opens the next one, too.            *)
PageOverlapping(status, from) ==
  {e \in Matching(status) :
     LET rank == Cardinality({f \in Matching(status) : f <= e})
     IN  from <= rank /\ rank < from + PageSize}

(* The gateway counts the elections that match when it is asked.           *)
Page(status, from) ==
  {e \in Matching(status) :
     LET rank == Cardinality({f \in Matching(status) : f <= e})
     IN  from < rank /\ rank <= from + PageSize}

FetchProcessList(r) ==
  LET q == request[r]
      page == Page(GwFilter(q.filter), q.from)
  IN  /\ q.pc = "fetching"
      /\ request' = [request EXCEPT ![r] =
           [q EXCEPT !.from = @ + Cardinality(page),
                     !.todo = [e \in Elections |-> IF e \in page THEN @[e] + 1 ELSE @[e]],
                     !.pc = IF Cardinality(page) < PageSize THEN "fetched" ELSE @]]
      /\ OutsideUnchanged

FetchFails(r) ==
  /\ request[r].pc = "fetching"
  /\ request' = [request EXCEPT ![r] = Failed]
  /\ OutsideUnchanged

ReadHeight(r) ==
  /\ request[r].pc = "fetched"
  /\ request' = [request EXCEPT ![r].pc = "looking", ![r].height = cache.height]
  /\ OutsideUnchanged

(* Mutant: the limits of parseProcessInfo, for either list.                *)
InListInclusive(filter, e, height) ==
  CASE filter = "ACTIVE"   -> row[e].start <= height /\ row[e].end >= height
    [] filter = "UPCOMING" -> row[e].start > height
    [] filter = "BLIND"    -> e \in Blind
    [] filter = "SIGNED"   -> e \notin Blind
    [] OTHER               -> TRUE

InList(filter, e, height) ==
  CASE filter = "ACTIVE"   -> row[e].start < height /\ row[e].end > height
    [] filter = "UPCOMING" -> row[e].start > height
    [] filter = "BLIND"    -> e \in Blind
    [] filter = "SIGNED"   -> e \notin Blind
    [] OTHER               -> TRUE

(* GetElection asks with the key, GetElectionPublic without; appendProcess *)
(* leaves confidential elections out of a public list.                     *)
Found(e, access, keyed) == row[e].state = "stored" /\ (access = "integrator" => keyed)
Visible(e, access) == access = "public" => e \notin Confidential

(* Mutant: an election that is not in the database is tried again.         *)
LookUpAgain(r, e) ==
  LET q == request[r]
  IN  /\ q.pc = "looking" /\ q.todo[e] > 0
      /\ Found(e, q.access, q.keyed)
      /\ request' = [request EXCEPT ![r] =
           IF q.filter = "READY"
             THEN Failed
             ELSE [q EXCEPT !.todo[e] = @ - 1,
                            !.shown[e] = IF /\ InList(q.filter, e, q.height)
                                            /\ Visible(e, q.access)
                                           THEN @ + 1 ELSE @]]
      /\ OutsideUnchanged

(* Mutant: each election is compared with a height of its own.             *)
LookUpAnew(r, e) ==
  LET q == request[r]
      found == Found(e, q.access, q.keyed)
  IN  /\ q.pc = "looking" /\ q.todo[e] > 0
      /\ request' = [request EXCEPT ![r] =
           IF found /\ q.filter = "READY"
             THEN Failed
             ELSE [q EXCEPT !.todo[e] = @ - 1,
                            !.shown[e] = IF /\ found
                                            /\ InList(q.filter, e, cache.height)
                                            /\ Visible(e, q.access)
                                           THEN @ + 1 ELSE @]]
      /\ OutsideUnchanged

(* The body of the loop.  READY is not a filter of the API: an error, but  *)
(* only once an election is found.                                         *)
LookUp(r, e) ==
  LET q == request[r]
      found == Found(e, q.access, q.keyed)
  IN  /\ q.pc = "looking" /\ q.todo[e] > 0
      /\ request' = [request EXCEPT ![r] =
           IF found /\ q.filter = "READY"
             THEN Failed
             ELSE [q EXCEPT !.todo[e] = @ - 1,
                            !.shown[e] = IF /\ found
                                            /\ InList(q.filter, e, q.height)
                                            /\ Visible(e, q.access)
                                           THEN @ + 1 ELSE @]]
      /\ OutsideUnchanged

EndList(r) ==
  /\ request[r].pc = "looking"
  /\ \A e \in Elections : request[r].todo[e] = 0
  /\ request' = [request EXCEPT ![r].pc = "listed"]
  /\ OutsideUnchanged

-----------------------------------------------------------------------------
(* getProcessInfoPublic, getProcessInfoConfidential, getProcess.           *)

GetProcess(r, e, access) ==
  /\ request[r].pc = "idle"
  /\ process[e] # Nil
  /\ request' = [request EXCEPT ![r] =
       [pc |-> "asked", election |-> e, access |-> access, keyed |-> TRUE,
        process |-> process[e], status |-> "ENDED", startDate |-> 0, endDate |-> 0,
        first |-> cache, same |-> TRUE]]
  /\ OutsideUnchanged

(* A gateway does not answer, a signature is not that of a voter, results  *)
(* do not fit the questions.                                               *)
Refuse(r) ==
  /\ request[r].pc \in {"asked", "found"}
  /\ request' = [request EXCEPT ![r] = Refused]
  /\ OutsideUnchanged

GetElection(r) ==
  LET q == request[r]
  IN  /\ q.pc = "asked"
      /\ request' = [request EXCEPT ![r] =
           IF /\ Found(q.election, q.access, q.keyed)
              /\ Visible(q.election, q.access)
             THEN [q EXCEPT !.pc = "found"] ELSE Refused]
      /\ OutsideUnchanged

ProcessStatus(p, height) ==
  CASE p.status \in {"PAUSED", "CANCELED"} -> p.status
    [] p.status \notin {"PAUSED", "CANCELED"} /\ p.start >= height -> "UPCOMING"
    [] /\ p.status \notin {"PAUSED", "CANCELED"}
       /\ p.start < height /\ p.end > height -> "ACTIVE"
    [] OTHER -> "ENDED"

ParseProcessInfo(r) ==
  LET q == request[r]
  IN  /\ q.pc = "found"
      /\ request' = [request EXCEPT ![r] =
           [q EXCEPT !.pc = "parsed", !.first = cache,
                     !.status = ProcessStatus(q.process, cache.height)]]
      /\ OutsideUnchanged

(* estimateBlockTime: the longest period up to i that has an average.      *)
GetMaxTimeFrom(times, i) ==
  LET known == {j \in 0..i : times[j] # 0}
  IN  IF known = {} THEN Fallback
      ELSE times[CHOOSE j \in known : \A k \in known : k <= j]

Blocks(read, height) ==
  IF height < read.height THEN read.height - height ELSE height - read.height

BlockTime(read, height) ==
  GetMaxTimeFrom(read.times, CASE Blocks(read, height) < Near -> 1
                               [] /\ Blocks(read, height) >= Near
                                  /\ Blocks(read, height) < Far -> 3
                               [] OTHER -> 4)

(* Mutant: a block of the past is taken for one of the future.             *)
EstimateForward(read, height) == Blocks(read, height) * BlockTime(read, height)

(* Milliseconds from now.                                                  *)
EstimateBlockTime(read, height) == (height - read.height) * BlockTime(read, height)

ReadStartDate(r) ==
  LET q == request[r]
  IN  /\ q.pc = "parsed"
      /\ request' = [request EXCEPT ![r] =
           [q EXCEPT !.pc = "started",
                     !.startDate = EstimateBlockTime(cache, q.process.start),
                     !.same = cache = q.first]]
      /\ OutsideUnchanged

ReadEndDate(r) ==
  LET q == request[r]
  IN  /\ q.pc = "started"
      /\ request' = [request EXCEPT ![r] =
           [q EXCEPT !.pc = "viewed",
                     !.endDate = EstimateBlockTime(cache, q.process.end),
                     !.same = q.same /\ cache = q.first]]
      /\ OutsideUnchanged

-----------------------------------------------------------------------------
Environment ==
  \/ Grow
  \/ Refresh
  \/ ResetKey
  \/ \E e \in Elections :
       \/ CreateProcess(e)
       \/ Commit(e)
       \/ PublishResults(e)
       \/ \E status \in Status : SetProcessStatus(e, status)

ListStep(r) ==
  \/ FetchProcessList(r)
  \/ FetchFails(r)
  \/ ReadHeight(r)
  \/ \E e \in Elections : LookUp(r, e)
  \/ EndList(r)

ViewStep(r) ==
  \/ Refuse(r)
  \/ GetElection(r)
  \/ ParseProcessInfo(r)
  \/ ReadStartDate(r)
  \/ ReadEndDate(r)

Arrive(r) ==
  \/ \E filter \in Filters, access \in {"public", "integrator"} :
       ListProcesses(r, filter, access)
  \/ \E e \in Elections, access \in Access : GetProcess(r, e, access)

Next ==
  \/ Environment
  \/ \E r \in Requests : Arrive(r) \/ ListStep(r) \/ ViewStep(r)

Spec == Init /\ [][Next]_vars

(* Gateway and database answer or fail, and a handler goes on.             *)
FairSpec == Spec /\ \A r \in Requests : WF_vars(ListStep(r))

-----------------------------------------------------------------------------
(* Properties.                                                             *)

(* The blocks of the row are those of the process; not those of an         *)
(* election that starts at once, which createProcess had to guess.         *)
SameBlocks(e) == row[e].start = process[e].start /\ row[e].end = process[e].end

(* A list ACTIVE or UPCOMING names no election of which the answer about   *)
(* it would say otherwise at the same height, unless something changed     *)
(* during the request or createProcess had guessed its blocks.             *)
ListAgrees ==
  \A r \in Requests \ stirred :
    LET q == request[r]
    IN  q.pc = "listed" /\ q.filter \in {"ACTIVE", "UPCOMING"} =>
          \A e \in Elections :
            q.shown[e] > 0 =>
              /\ process[e] # Nil
              /\ SameBlocks(e) => ProcessStatus(process[e], q.height) = q.filter

(* What parseProcessInfo calls UPCOMING and no list does: an election at   *)
(* its start block.                                                        *)
AtStart(e, height) == process[e].start = height

(* What a list should name, by the answer about the election.  An election *)
(* that ENDED by its status is ACTIVE or UPCOMING in the answer about it   *)
(* until its blocks are over.                                              *)
Expected(e, filter, height) ==
  LET status == ProcessStatus(process[e], height)
  IN  CASE filter \in {"ACTIVE", "UPCOMING"} ->
             /\ process[e].status = "READY" /\ status = filter
             /\ SameBlocks(e) /\ ~AtStart(e, height)
        [] filter \in {"PAUSED", "CANCELED"} -> status = filter
        [] filter = "ENDED"  -> process[e].status = "ENDED"
        [] filter = "BLIND"  -> e \in Blind
        [] filter = "SIGNED" -> e \notin Blind
        [] OTHER             -> filter = ""

(* A list names every election it should, on whichever page it is, and     *)
(* each one once, unless something changed during the request: then an     *)
(* election may be missed or named twice, because the gateway counts anew  *)
(* for every page.                                                         *)
ListComplete ==
  \A r \in Requests \ stirred :
    LET q == request[r]
    IN  q.pc = "listed" =>
          \A e \in Elections :
            /\ q.shown[e] <= 1
            /\ /\ process[e] # Nil /\ row[e].state = "stored"
               /\ Visible(e, q.access)
               /\ Expected(e, q.filter, q.height)
               => q.shown[e] = 1

(* The status of an answer and its dates are read one after the other.     *)
(* They contradict each other only if the cache was refreshed in between;  *)
(* the end comes before the start only if the two are converted with       *)
(* different averages.                                                     *)
DatesAgree ==
  \A r \in Requests :
    LET q == request[r]
    IN  q.pc = "viewed" /\ q.same =>
          /\ q.status = "UPCOMING" => q.startDate >= 0
          /\ q.status = "ACTIVE" => q.startDate < 0 /\ 0 < q.endDate
          /\ q.status = "ENDED" => q.startDate < 0 /\ q.endDate <= 0
          /\ BlockTime(q.first, q.process.start) = BlockTime(q.first, q.process.end)
               => q.startDate <= q.endDate

(* A request for a list is answered: the pages come to an end, and what is *)
(* not in the database is passed over (getProcessList).                    *)
ListAnswered ==
  \A r \in Requests :
    request[r].pc = "fetching" ~> request[r].pc \in {"listed", "failed"}

(* The elections with a filter, by the gateway, the database and a height. *)
Named(filter, height) ==
  {e \in Matching(GwFilter(filter)) : row[e].state = "stored" /\ InList(filter, e, height)}

NamedNow == [filter \in Filters |-> Named(filter, cache.height)]

(* What of a request ElectionListing sees: how often its list names each   *)
(* election, or is going to.                                               *)
Promised(r) ==
  LET q == request[r]
      kind == <<q.filter, q.access>>
      lists == q.pc \in {"fetching", "fetched", "looking", "listed"}
  IN  CASE ~lists -> [pc |-> "none"]
        [] lists /\ r \in stirred -> [pc |-> "disturbed"]
        [] q.pc \in {"fetching", "fetched"} /\ r \notin stirred ->
             [pc |-> "asked", kind |-> kind]
        [] q.pc = "looking" /\ r \notin stirred ->
             [pc |-> "taken", kind |-> kind,
              names |-> [e \in Elections |->
                IF e \in Named(q.filter, q.height) /\ Visible(e, q.access) THEN 1 ELSE 0]]
        [] q.pc = "listed" /\ r \notin stirred ->
             [pc |-> "answered", kind |-> kind, names |-> q.shown]

PromisedLists == [r \in Requests |-> Promised(r)]

Listing == INSTANCE ElectionListing WITH now <- NamedNow, list <- PromisedLists

(* A list is that of one instant: the pages that the gateway counts one by *)
(* one, the height and the rows, read one after the other, add up to what  *)
(* one look at all of them would have named when the height was read       *)
(* (getProcessList), unless something changed during the request.          *)
ListIsSnapshot == Listing!ListingSpec
=============================================================================
