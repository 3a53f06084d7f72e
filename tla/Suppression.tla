----------------------------- MODULE Suppression -----------------------------
(***************************************************************************)
(* The memory of failed launches: Unavailable, the cache of (server type,  *)
(* location) pairs Hetzner could not place lately; the Creates that read   *)
(* it when they list their candidates and write it when an order fails for *)
(* capacity; and SyncUnavailable, which rebuilds the gauge                 *)
(* offering_unavailable from it on a ticker while Creates set the same     *)
(* gauge (providers/instancetype/unavailable.go, metrics_sync.go, and the  *)
(* loop of Create in providers/instance/instance.go).                      *)
(*                                                                         *)
(* Orders take time; the in-memory statements between two of them, and a   *)
(* rebuild of the gauge, take none, but interleave freely.                 *)
(***************************************************************************)
EXTENDS Integers, Sequences, FiniteSets

CONSTANTS
  Creator,      \* Creates running at once
  Order,        \* the pairs <<server type, location>> they accept, cheapest first
  Codes,        \* error codes of class capacity
  TTL,          \* how long one failure suppresses a pair
  Interval,     \* the gauge's SyncInterval
  Limit,        \* maxAttempts of one Create
  OrderTime,    \* how long one order and the clean-up after it may take
  RetryDelay,   \* how long core may wait before it retries a failed Create
  Stocks,       \* the sets of pairs Hetzner may never run out of
  MaxFaults     \* bound: orders that fail for another reason than capacity

Pair == {Order[i] : i \in 1 .. Len(Order)}

ASSUME ParametersAreSane ==
  /\ TTL \in Nat \ {0} /\ Interval \in Nat \ {0} /\ Limit \in Nat \ {0}
  /\ OrderTime \in Nat /\ RetryDelay \in Nat /\ MaxFaults \in Nat
  /\ Order \in Seq(Pair) /\ Stocks \subseteq SUBSET Pair /\ "none" \notin Codes

\* Instants are kept by their distance from now, so that the clock can run for ever.
VARIABLES
  stock,    \* the pairs Hetzner never runs out of
  items,    \* Unavailable.items
  gauge,    \* the series of offering_unavailable that stand at 1
  sync,     \* SyncUnavailable; left: what is left of the ticker's interval
  creates,  \* the Creates
  faults,
  failed,   \* history: the age of each pair's last capacity failure, TTL if older or none
  quota     \* history: the age of the last quota failure, likewise

vars == <<stock, items, gauge, sync, creates, faults, failed, quota>>

Series == Pair \X Codes

\* left: until minus now, negative once the entry has expired.
NoEntry == [left |-> 0, code |-> "none"]
Entry == {NoEntry} \cup [left : Int, code : Codes]

\* open: the candidates not yet tried, as places in Order.  at: the one that has just
\* failed.  got: how the last Create has ended; insufficient capacity is an error
\* like any other, and core tries again.  spent: how long the order, or core's wait
\* before the next Create, has taken.
CreateRec == [pc : {"idle", "order", "gauge"}, open : SUBSET DOMAIN Order, at : {0} \cup DOMAIN Order,
              tries : 0 .. Limit, code : {"none"} \cup Codes, got : {"error", "server"}, spent : Nat]
NoCreate(got) == [pc |-> "idle", open |-> {}, at |-> 0, tries |-> 0, code |-> "none", got |-> got, spent |-> 0]

TypeOK ==
  /\ stock \in Stocks /\ faults \in 0 .. MaxFaults
  /\ items \in [Pair -> Entry] /\ gauge \subseteq Series
  /\ failed \in [Pair -> 0 .. TTL] /\ quota \in 0 .. TTL
  /\ sync \in [pc : {"wait", "snapshot", "set"}, todo : SUBSET Series, left : 0 .. Interval]
  /\ creates \in [Creator -> CreateRec]

-----------------------------------------------------------------------------
\* Unavailable.Has: there is an entry and now is before its end.
Has(o) == items[o] # NoEntry /\ items[o].left > 0

Init ==
  /\ stock \in Stocks /\ items = [o \in Pair |-> NoEntry] /\ gauge = {} /\ faults = 0
  /\ sync = [pc |-> "wait", todo |-> {}, left |-> Interval]
  /\ creates = [p \in Creator |-> NoCreate("error")]
  /\ failed = [o \in Pair |-> TTL] /\ quota = TTL

\* What Hetzner may answer to an order (external): a server, a capacity code unless
\* the pair is stocked, or a failure of another class.
CapacityCodes(o) == IF o \in stock THEN {} ELSE Codes

-----------------------------------------------------------------------------
\* Variant: suppressed offerings are candidates like any other.
BeginAll(p) ==
  /\ creates[p].pc = "idle"
  /\ creates' = [creates EXCEPT ![p] = [NoCreate("error") EXCEPT !.pc = "order", !.open = DOMAIN Order, !.tries = 1]]
  /\ UNCHANGED <<stock, items, gauge, sync, faults, failed, quota>>

\* Create lists its candidates: instanceTypes sets each offering's Available from
\* Has, orderedCandidates drops those that are not.  None left is answered as
\* insufficient capacity before anything is ordered.
Begin(p) ==
  /\ creates[p].pc = "idle"
  /\ LET open == {i \in DOMAIN Order : ~Has(Order[i])}
     IN creates' = [creates EXCEPT ![p] = IF open = {} THEN NoCreate("error")
                                          ELSE [NoCreate("error") EXCEPT !.pc = "order", !.open = open, !.tries = 1]]
  /\ UNCHANGED <<stock, items, gauge, sync, faults, failed, quota>>

\* Unavailable.Mark.
Mark(o, code) == [items EXCEPT ![o] = [left |-> TTL, code |-> code]]

\* One order of Create's loop, for the cheapest candidate not yet tried.  A capacity
\* code marks the pair; any other failure (quota, transient, config, fatal) ends the
\* Create and marks nothing.
Place(p) ==
  /\ creates[p].pc = "order"
  /\ \E i \in creates[p].open :
        /\ \A j \in creates[p].open : i <= j
        /\ \/ /\ creates' = [creates EXCEPT ![p] = NoCreate("server")]
              /\ UNCHANGED <<items, faults, failed, quota>>
           \/ \E code \in CapacityCodes(Order[i]) :
                /\ items' = Mark(Order[i], code)
                /\ failed' = [failed EXCEPT ![Order[i]] = 0]
                /\ creates' = [creates EXCEPT ![p] = [creates[p] EXCEPT !.pc = "gauge", !.open = @ \ {i}, !.at = i,
                                                                       !.code = code, !.spent = 0]]
                /\ UNCHANGED <<faults, quota>>
           \/ /\ faults < MaxFaults /\ faults' = faults + 1
              /\ creates' = [creates EXCEPT ![p] = NoCreate("error")]
              /\ quota' \in {0, quota}
              /\ UNCHANGED <<items, failed>>
  /\ UNCHANGED <<stock, gauge, sync>>

\* The rest of the capacity case: the gauge, then the next candidate, as long as
\* there is one and attempts are left; otherwise insufficient capacity.
FallThrough(p) ==
  /\ creates[p].pc = "gauge"
  /\ LET c == creates[p]
     IN /\ gauge' = gauge \cup {<<Order[c.at], c.code>>}
        /\ creates' = [creates EXCEPT ![p] = IF c.tries < Limit /\ c.open # {} THEN [c EXCEPT !.pc = "order", !.tries = @ + 1]
                                             ELSE NoCreate("error")]
  /\ UNCHANGED <<stock, items, sync, faults, failed, quota>>

-----------------------------------------------------------------------------
\* SyncUnavailable's tick: Reset first.
SyncReset ==
  /\ sync.pc = "wait" /\ sync.left = 0
  /\ gauge' = {}
  /\ sync' = [sync EXCEPT !.pc = "snapshot"]
  /\ UNCHANGED <<stock, items, creates, faults, failed, quota>>

\* Variant: an entry in its last instant is reaped.
ExpiredEarly(e) == e.left <= 1

\* Snapshot's own test: now is not before the end.
Expired(e) == e.left <= 0

\* What Snapshot leaves in the map.
Reaped == [o \in Pair |-> IF items[o] # NoEntry /\ Expired(items[o]) THEN NoEntry ELSE items[o]]

\* Unavailable.Snapshot, under the lock.
Snapshot ==
  /\ sync.pc = "snapshot"
  /\ items' = Reaped
  /\ sync' = [sync EXCEPT !.pc = "set", !.todo = {<<o, Reaped[o].code>> : o \in {x \in Pair : Reaped[x] # NoEntry}}]
  /\ UNCHANGED <<stock, gauge, creates, faults, failed, quota>>

\* Variant: the gauge is reset when the rebuild stores it, not before the snapshot.
SyncSetOver ==
  /\ sync.pc = "set"
  /\ gauge' = sync.todo
  /\ sync' = [pc |-> "wait", todo |-> {}, left |-> Interval]
  /\ UNCHANGED <<stock, items, creates, faults, failed, quota>>

\* The rebuild sets every pair of the snapshot.
SyncSet ==
  /\ sync.pc = "set"
  /\ gauge' = gauge \cup sync.todo
  /\ sync' = [pc |-> "wait", todo |-> {}, left |-> Interval]
  /\ UNCHANGED <<stock, items, creates, faults, failed, quota>>

\* An order, and core's wait after an error, may last another instant.
MayLast(c) ==
  /\ c.pc # "gauge"
  /\ c.pc = "order" => c.spent < OrderTime
  /\ c.pc = "idle" /\ c.got = "error" => c.spent < RetryDelay

Older(age) == IF age < TTL THEN age + 1 ELSE TTL

\* Time passes only between in-memory steps, and the ticker is on time.
Tick ==
  /\ sync.pc = "wait" /\ sync.left > 0
  /\ \A p \in Creator : MayLast(creates[p])
  /\ sync' = [sync EXCEPT !.left = @ - 1]
  /\ items' = [o \in Pair |-> IF items[o] = NoEntry THEN NoEntry ELSE [items[o] EXCEPT !.left = @ - 1]]
  /\ creates' = [p \in Creator |-> IF creates[p].pc = "idle" /\ creates[p].got = "server" THEN creates[p]
                                    ELSE [creates[p] EXCEPT !.spent = @ + 1]]
  /\ failed' = [o \in Pair |-> Older(failed[o])] /\ quota' = Older(quota)
  /\ UNCHANGED <<stock, gauge, faults>>

Create(p) == Begin(p) \/ Place(p) \/ FallThrough(p)
Sync == SyncReset \/ Snapshot \/ SyncSet
Next == Sync \/ Tick \/ \E p \in Creator : Create(p)

Spec == Init /\ [][Next]_vars

\* Core retries a NodeClaim until it is launched, and a started Create runs to its end.
FairSpec == Spec /\ WF_vars(Sync) /\ \A p \in Creator : WF_vars(Create(p))

-----------------------------------------------------------------------------
Recent(o) == failed[o] < TTL

\* The failures wider than one pair: the account at a limit, and maintenance in
\* the pair's location.
WiderFailure(o) == quota < TTL \/ \E x \in Pair : x[2] = o[2] /\ Recent(x) /\ items[x].code = "maintenance"

\* A pair that failed for capacity is suppressed until the failure is a TTL old,
\* however often it fails again and however the reaping that goes with the gauge
\* falls in between; and only such a failure, or one that the comments on ClassQuota
\* and on maintenance widen to other pairs, suppresses anything: a rate limit, a
\* transient error or a bad request never does, and an old failure no longer does
\* (Mark and Has, called from Creates; Snapshot, called from the ticker).  Whether a
\* quota failure or maintenance should suppress more than the one pair is left open:
\* the comments say so, and the code marks the one pair or none.
SuppressionIsExact ==
  \A o \in Pair : /\ Recent(o) => Has(o)
                  /\ Has(o) => Recent(o) \/ WiderFailure(o)

Quiet == sync.pc = "wait" /\ \A p \in Creator : creates[p].pc # "gauge"

\* The gauge tells what is suppressed.  Between rebuilds it shows every suppressed
\* pair under the code that suppressed it, whichever way Creates' own writes
\* interleaved with the Reset, the snapshot and the Sets of the rebuilds; and "a
\* pair that expires is seen as available again within one interval": a series
\* whose pair is suppressed no longer, or now for another code, stands for at most
\* one SyncInterval, and so does an expired entry of the map.
GaugeFollowsSuppression ==
  /\ Quiet => \A o \in Pair : Has(o) => <<o, items[o].code>> \in gauge
  /\ \A o \in Pair : items[o] # NoEntry => items[o].left + Interval >= 0
  /\ \A s \in gauge :
       LET e == items[s[1]]
       IN e # NoEntry /\ Interval + (IF e.code = s[2] THEN e.left ELSE e.left - TTL) >= 0

\* One Create can try every pair, or what it learns of the first pair outlasts the
\* orders and the waits until the last.
MemoryOutlastsTheWalk ==
  Len(Order) <= Limit \/ (Len(Order) - 1) * (OrderTime + RetryDelay) <= TTL

\* A Create keeps being retried until it gets its server while some pair it accepts
\* is in stock, however many cheaper pairs are not and however few of them one
\* Create may try: what it learned in one attempt is remembered for the next.  This
\* takes a memory that outlasts the walk; the clock runs on, and a slower walk
\* would find the first pair open again before it reached the last.
WalksToStock ==
  \A p \in Creator :
    (MemoryOutlastsTheWalk /\ creates[p].pc = "order") ~> (creates[p].got = "server" \/ stock = {})
=============================================================================
