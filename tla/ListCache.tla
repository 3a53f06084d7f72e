------------------------------ MODULE ListCache ------------------------------
(***************************************************************************)
(* The server list cache of internal/providers/instance/list.go.           *)
(*                                                                         *)
(* Callers run Provider.List and Provider.Get.  Both go through            *)
(* listCache.list: a freshness check under the read lock, then a shared    *)
(* singleflight listing.  Mutators run the tail of Provider.Create and     *)
(* Provider.Delete: the server is made or removed at Hetzner, and then the *)
(* cache is invalidated.  Everything that another goroutine can observe    *)
(* between two of these steps is a step of its own.                        *)
(*                                                                         *)
(* A listing is abstracted to the version of the project it shows and the  *)
(* moment Hetzner computed it.                                             *)
(***************************************************************************)
EXTENDS Integers, Sequences

CONSTANTS
  Caller,      \* goroutines inside Provider.List or Provider.Get
  Mutator,     \* goroutines inside Provider.Create or Provider.Delete
  Server,      \* server ids
  TTL,         \* DefaultListTTL, in ticks
  Timeout,     \* listTimeout, in ticks
  MaxTime,     \* bound on the clock
  MaxVersion   \* bound on the number of changes to the project, plus one

ASSUME CacheAssumption ==
  /\ TTL \in Nat \ {0} /\ Timeout \in Nat \ {0}
  /\ MaxTime \in Nat /\ MaxVersion \in Nat
  /\ "List" \notin Server

VARIABLES
  now,         \* the clock
  history,     \* history[v]: the servers this cluster owns at version v
  cached,      \* listCache.cached: a listing, or NoListing for nil
  fetchedAt,   \* listCache.fetchedAt
  flight,      \* the only key of listCache.group
  call,        \* call[c]: the caller's stack frame
  pending,     \* pending[m]: the version m made and has not announced, or 0
  settled      \* the newest version announced with no older listing in transit

vars == <<now, history, cached, fetchedAt, flight, call, pending, settled>>

-----------------------------------------------------------------------------
(* Data                                                                    *)

Listing == [ver : Nat, readAt : Nat]
NoListing == [ver |-> 0, readAt |-> 0]

Phase == {"none", "started", "fetching", "fetched", "done"}
Flight == [phase : Phase, deadline : Nat, listing : Listing, failed : BOOLEAN]
NoFlight == [phase |-> "none", deadline |-> 0, listing |-> NoListing, failed |-> FALSE]

PC == {"idle", "miss", "waiting", "point", "done"}
Result == {"none", "listed", "found", "gone", "upstream", "canceled"}
Call == [pc : PC, op : Server \cup {"List"}, began : Nat, ver0 : Nat,
         news : Nat, listing : Listing, res : Result]
Idle == [pc |-> "idle", op |-> "List", began |-> 0, ver0 |-> 0,
         news |-> 0, listing |-> NoListing, res |-> "none"]

Version == Len(history)
Owned == history[Version]

TypeOK ==
  /\ now \in Nat
  /\ history \in Seq(SUBSET Server) /\ history # <<>>
  /\ cached \in Listing /\ fetchedAt \in Nat
  /\ flight \in Flight
  /\ call \in [Caller -> Call]
  /\ pending \in [Mutator -> Nat]
  /\ settled \in Nat

-----------------------------------------------------------------------------
Init ==
  /\ now = 0
  /\ history \in {<<S>> : S \in SUBSET Server}
  /\ cached = NoListing /\ fetchedAt = 0
  /\ flight = NoFlight
  /\ call = [c \in Caller |-> Idle]
  /\ pending = [m \in Mutator |-> 0]
  /\ settled = 0

\* Variant: a listing exactly TTL old still counts as fresh.
FreshAtTTL == cached # NoListing /\ now - fetchedAt <= TTL

\* c.cached != nil && c.now().Sub(c.fetchedAt) < c.ttl
Fresh == cached # NoListing /\ now - fetchedAt < TTL

\* Variant: Get takes a miss in the listing as the answer.
DeliverMissAsGone(r, l) ==
  [r EXCEPT !.pc = "done", !.listing = l,
            !.res = IF r.op = "List" THEN "listed" ELSE IF r.op \in history[l.ver] THEN "found" ELSE "gone"]

\* What Provider.List and Provider.Get do with the listing list() hands them:
\* List returns it, Get returns a hit and goes on to a point read on a miss.
Deliver(r, l) ==
  IF r.op = "List" THEN [r EXCEPT !.pc = "done", !.res = "listed", !.listing = l]
  ELSE IF r.op \in history[l.ver] THEN [r EXCEPT !.pc = "done", !.res = "found", !.listing = l]
  ELSE [r EXCEPT !.pc = "point"]

Failed(err) == [Idle EXCEPT !.pc = "done", !.res = err]

\* list() up to the first RUnlock.
Begin(c, op) ==
  /\ call[c].pc = "idle"
  /\ LET r == [Idle EXCEPT !.op = op, !.began = now, !.ver0 = Version, !.news = settled]
     IN call' = [call EXCEPT ![c] = IF Fresh THEN Deliver(r, cached) ELSE [r EXCEPT !.pc = "miss"]]
  /\ UNCHANGED <<now, history, cached, fetchedAt, flight, pending, settled>>

\* group.DoChan: start the flight, or join the one that is running.
DoChan(c) ==
  /\ call[c].pc = "miss"
  /\ call' = [call EXCEPT ![c].pc = "waiting"]
  /\ flight' = IF flight.phase = "none" THEN [flight EXCEPT !.phase = "started"] ELSE flight
  /\ UNCHANGED <<now, history, cached, fetchedAt, pending, settled>>

\* Variant: no re-check.
FlightNoRecheck ==
  /\ flight.phase = "started"
  /\ flight' = [flight EXCEPT !.phase = "fetching", !.deadline = now + Timeout]
  /\ UNCHANGED <<now, history, cached, fetchedAt, call, pending, settled>>

\* The re-check inside the flight; if it misses, the upstream call begins
\* under a deadline of its own.
FlightRecheck ==
  /\ flight.phase = "started"
  /\ flight' = IF Fresh
               THEN [flight EXCEPT !.phase = "done", !.listing = cached]
               ELSE [flight EXCEPT !.phase = "fetching", !.deadline = now + Timeout]
  /\ UNCHANGED <<now, history, cached, fetchedAt, call, pending, settled>>

\* Hetzner computes the listing; the response is on its way back.
UpstreamList ==
  /\ flight.phase = "fetching"
  /\ flight' = [flight EXCEPT !.phase = "fetched", !.listing = [ver |-> Version, readAt |-> now]]
  /\ UNCHANGED <<now, history, cached, fetchedAt, call, pending, settled>>

\* servers.List fails: an API error, the deadline, or a recovered panic.
FlightFail ==
  /\ flight.phase \in {"fetching", "fetched"}
  /\ flight' = [NoFlight EXCEPT !.phase = "done", !.failed = TRUE]
  /\ UNCHANGED <<now, history, cached, fetchedAt, call, pending, settled>>

\* servers.List succeeds: the listing is stored under the write lock.
FlightStore ==
  /\ flight.phase = "fetched"
  /\ cached' = flight.listing /\ fetchedAt' = now
  /\ flight' = [flight EXCEPT !.phase = "done", !.deadline = 0]
  /\ UNCHANGED <<now, history, call, pending, settled>>

\* singleflight forgets the key and sends the result to every waiter's channel.
FlightDone ==
  /\ flight.phase = "done"
  /\ flight' = NoFlight
  /\ call' = [c \in Caller |->
                IF call[c].pc # "waiting" THEN call[c]
                ELSE IF flight.failed THEN Failed("upstream")
                ELSE Deliver(call[c], flight.listing)]
  /\ UNCHANGED <<now, history, cached, fetchedAt, pending, settled>>

\* The caller's own context is cancelled and the select takes ctx.Done().
GiveUp(c) ==
  /\ call[c].pc = "waiting"
  /\ call' = [call EXCEPT ![c] = Failed("canceled")]
  /\ UNCHANGED <<now, history, cached, fetchedAt, flight, pending, settled>>

\* Get's servers.Get after a miss, on the caller's own context.
PointRead(c) ==
  /\ call[c].pc = "point"
  /\ \/ call' = [call EXCEPT ![c] = [@ EXCEPT !.pc = "done",
                                      !.res = IF call[c].op \in Owned THEN "found" ELSE "gone"]]
     \/ call' = [call EXCEPT ![c] = Failed("upstream")]
     \/ call' = [call EXCEPT ![c] = Failed("canceled")]
  /\ UNCHANGED <<now, history, cached, fetchedAt, flight, pending, settled>>

Return(c) ==
  /\ call[c].pc = "done"
  /\ call' = [call EXCEPT ![c] = Idle]
  /\ UNCHANGED <<now, history, cached, fetchedAt, flight, pending, settled>>

-----------------------------------------------------------------------------
(* The other side: servers come and go                                     *)

\* Provider.Create's server exists at Hetzner.
CreateServer(m, s) ==
  /\ pending[m] = 0 /\ Version < MaxVersion /\ s \notin Owned
  /\ history' = Append(history, Owned \cup {s})
  /\ pending' = [pending EXCEPT ![m] = Version + 1]
  /\ UNCHANGED <<now, cached, fetchedAt, flight, call, settled>>

\* Provider.Delete's servers.Delete succeeded.
DeleteServer(m, s) ==
  /\ pending[m] = 0 /\ Version < MaxVersion /\ s \in Owned
  /\ history' = Append(history, Owned \ {s})
  /\ pending' = [pending EXCEPT ![m] = Version + 1]
  /\ UNCHANGED <<now, cached, fetchedAt, flight, call, settled>>

\* A change the provider does not announce: a create whose response is lost,
\* the clean-up of a failed create, an operator at the console.
ProjectChanges(s) ==
  /\ Version < MaxVersion
  /\ history' = Append(history, IF s \in Owned THEN Owned \ {s} ELSE Owned \cup {s})
  /\ UNCHANGED <<now, cached, fetchedAt, flight, call, pending, settled>>

\* A listing computed before version v was made is on its way to the cache or
\* to the callers of its flight.
InTransitBefore(v) ==
  flight.phase \in {"fetched", "done"} /\ ~flight.failed /\ flight.listing.ver < v

Announce(v) == settled' = IF v <= settled \/ InTransitBefore(v) THEN settled ELSE v

\* Variant: the cache is left to the flight that is under way.
InvalidateUnlessListing(m) ==
  /\ pending[m] # 0
  /\ IF flight.phase = "none" THEN cached' = NoListing /\ fetchedAt' = 0 ELSE UNCHANGED <<cached, fetchedAt>>
  /\ Announce(pending[m])
  /\ pending' = [pending EXCEPT ![m] = 0]
  /\ UNCHANGED <<now, history, flight, call>>

\* invalidate(), the last thing Create and Delete do before they return.
Invalidate(m) ==
  /\ pending[m] # 0
  /\ cached' = NoListing /\ fetchedAt' = 0
  /\ Announce(pending[m])
  /\ pending' = [pending EXCEPT ![m] = 0]
  /\ UNCHANGED <<now, history, flight, call>>

\* The clock.  The flight's local steps take no time, and its upstream call
\* never outlives the deadline of its context.
Tick ==
  /\ now < MaxTime
  /\ \/ flight.phase = "none"
     \/ flight.phase \in {"fetching", "fetched"} /\ now < flight.deadline
  /\ now' = now + 1
  /\ UNCHANGED <<history, cached, fetchedAt, flight, call, pending, settled>>

FlightStep == FlightRecheck \/ UpstreamList \/ FlightFail \/ FlightStore \/ FlightDone
CallStep(c) == DoChan(c) \/ PointRead(c) \/ Return(c)

Next ==
  \/ \E c \in Caller : CallStep(c) \/ GiveUp(c)
  \/ \E c \in Caller, op \in Server \cup {"List"} : Begin(c, op)
  \/ FlightStep
  \/ \E m \in Mutator : Invalidate(m) \/ \E s \in Server : CreateServer(m, s) \/ DeleteServer(m, s)
  \/ \E s \in Server : ProjectChanges(s)
  \/ Tick

Spec == Init /\ [][Next]_vars

-----------------------------------------------------------------------------
(* Properties                                                              *)

HasListing(c) == call[c].pc = "done" /\ call[c].res \in {"listed", "found"} /\ call[c].listing # NoListing

\* The listing a call is answered from was computed by Hetzner less than
\* TTL + listTimeout before the call began, whoever fetched it and however the
\* caller came by it: a hit, a joined flight, or the re-check inside one.
\* fetchedAt is taken when the response is stored, not when Hetzner computed it,
\* so the TTL alone is not the bound.
StalenessBounded ==
  \A c \in Caller : HasListing(c) => call[c].listing.readAt + TTL + Timeout > call[c].began

\* No upstream listing is outstanding while the cache is fresh: the re-check
\* inside the flight keeps a caller that missed before the winner stored from
\* refetching right after it, so a burst of misses costs one request.
NoCallWhileFresh == flight.phase \in {"fetching", "fetched"} => ~Fresh

\* Get answers "gone" only for a server that really was not this cluster's at
\* some moment of the call: a miss in a listing, however stale, is never an
\* answer.  Core drops a Node's finalizer, undrained, on "gone".
GoneIsTrue ==
  \A c \in Caller : call[c].pc = "done" /\ call[c].res = "gone" =>
    \E v \in call[c].ver0 .. Version : call[c].op \notin history[v]

\* A call that begins after Create or Delete announced its change is answered
\* with that change, by a hit, by the flight it starts and by the flight it
\* joins, unless a listing computed before the change was in transit when it was
\* announced.  invalidate cannot recall such a listing: it is stored after the
\* announcement and served for a TTL, although the comment on invalidate says
\* that the very next List reflects the change.
AnnouncedIsListed ==
  \A c \in Caller : HasListing(c) => call[c].listing.ver >= call[c].news
=============================================================================
