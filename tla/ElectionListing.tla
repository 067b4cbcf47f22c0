-------------------------- MODULE ElectionListing --------------------------
(***************************************************************************)
(* What a list of elections promises, whatever pages and reads it takes:   *)
(* it is the list of one instant, that at which its handler reads the      *)
(* height, unless an election, a row or the key changed meanwhile.         *)
(***************************************************************************)
CONSTANTS Requests, Elections, Confidential, Filters

Kinds == Filters \X {"public", "integrator"}

(* Which elections have these changes as the chain grows.                  *)
ByHeight == {"ACTIVE", "UPCOMING"}

VARIABLES
  now,  \* the elections with each filter
  list  \* the requests

listingVars == <<now, list>>

None == [pc |-> "none"]
Disturbed == [pc |-> "disturbed"]

(* Each election once, a confidential one only for the integrator.         *)
Names(kind) ==
  [e \in Elections |->
    IF e \in now[kind[1]] /\ (kind[2] = "public" => e \notin Confidential) THEN 1 ELSE 0]

ListingInit ==
  /\ now \in [Filters -> SUBSET Elections]
  /\ list = [r \in Requests |-> None]

Ask(r) ==
  /\ list[r] = None
  /\ \E kind \in Kinds : list' = [list EXCEPT ![r] = [pc |-> "asked", kind |-> kind]]
  /\ UNCHANGED now

(* The answer is fixed here.                                               *)
Take(r) ==
  /\ list[r].pc = "asked"
  /\ list' = [list EXCEPT ![r] =
       [pc |-> "taken", kind |-> list[r].kind, names |-> Names(list[r].kind)]]
  /\ UNCHANGED now

Answer(r) ==
  /\ list[r].pc = "taken"
  /\ list' = [list EXCEPT ![r].pc = "answered"]
  /\ UNCHANGED now

Fail(r) ==
  /\ list[r].pc \in {"asked", "taken", "disturbed"}
  /\ list' = [list EXCEPT ![r] = None]
  /\ UNCHANGED now

NewHeight ==
  /\ UNCHANGED list
  /\ now' \in [Filters -> SUBSET Elections]
  /\ \A filter \in Filters \ ByHeight : now'[filter] = now[filter]

(* Nothing is promised to a request during which this happens.             *)
Change ==
  /\ list' = [r \in Requests |-> IF list[r] = None THEN None ELSE Disturbed]
  /\ now' \in [Filters -> SUBSET Elections]

Rekey ==
  /\ list' = [r \in Requests |->
       IF list[r].pc \in {"asked", "taken", "answered"} /\ list[r].kind[2] = "integrator"
         THEN Disturbed ELSE list[r]]
  /\ UNCHANGED now

ListingNext ==
  \/ \E r \in Requests : Ask(r) \/ Take(r) \/ Answer(r) \/ Fail(r)
  \/ Rekey \/ NewHeight \/ Change

ListingSpec == ListingInit /\ [][ListingNext]_listingVars
=============================================================================
