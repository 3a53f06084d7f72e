----------------------------- MODULE CatalogWake -----------------------------
(***************************************************************************)
(* How a NodeClass that waits for the server type catalog is woken: the    *)
(* refresh loop of providers/catalog, its one-place signal, the pump that  *)
(* forwards it to the class controller's watch, the filter that lists the  *)
(* waiting classes from the informer, and the passes whose Validation      *)
(* reads the catalog and parks the class (controllers/nodeclass).          *)
(*                                                                         *)
(* Of a class only the condition ValidationSucceeded is kept.  The passes' *)
(* other work is the module NodeClass.                                     *)
(***************************************************************************)
EXTENDS Naturals

CONSTANTS
  Class,
  MaxRefresh,  \* bound: successful refreshes
  MaxFaults    \* bound: failed calls and restarts

ASSUME RefreshesAreNatural == MaxRefresh \in Nat /\ MaxFaults \in Nat

VARIABLES
  snapshot,  \* the catalog served: its generation and what it holds
  stale,
  loop,      \* the refresh loop
  signal,    \* the channel refreshed, of capacity one, holds a value
  pump,      \* pumpRefreshSignal holds a value for the watch
  event,     \* the watch holds an event for enqueueCatalogWaiters
  started,   \* the manager has started the controller and its sources
  stored,    \* ValidationSucceeded of each class in the API server
  seen,      \* the informer's copy
  pass,      \* the controller's pass over each class
  queue,     \* the work queue
  backstop,  \* keys to be added by a RequeueAfter
  retry,     \* keys to be added by the rate limiter or after a conflict
  faults,
  missed     \* history: a listing has failed since the process started

refreshVars == <<snapshot, stale, loop, signal, pump, event, started, stored, seen, pass, queue, backstop, retry, faults, missed>>
catalogVars == <<snapshot, stale, loop>>
wakeVars == <<signal, pump, event, started, missed>>
classVars == <<stored, seen, pass, queue, backstop, retry>>

\* absent: never reconciled.  notFetched, empty: Unknown, for CatalogNotFetched and
\* CatalogEmpty.  blocked: a dependency does not resolve.
Condition == {"absent", "notFetched", "empty", "blocked", "valid"}
Holds == {"nothing", "noLocation", "locations"}

TypeOK ==
  /\ snapshot \in [gen : 0 .. MaxRefresh, holds : Holds]
  /\ snapshot.gen = 0 <=> snapshot.holds = "nothing"
  /\ loop \in {"start", "wait", "signal"}
  /\ {stale, signal, pump, event, started, missed} \subseteq BOOLEAN
  /\ stored \in [Class -> Condition] /\ seen \in [Class -> Condition]
  /\ pass \in [Class -> [pc : {"idle", "resolve", "patch"}, base : Condition, verdict : Condition]]
  /\ queue \subseteq Class /\ backstop \subseteq Class /\ retry \subseteq Class
  /\ faults \in 0 .. MaxFaults

-----------------------------------------------------------------------------
Idle == [pc |-> "idle", base |-> "absent", verdict |-> "absent"]
NoSnapshot == [gen |-> 0, holds |-> "nothing"]

WakeInit ==
  /\ snapshot = NoSnapshot /\ stale = FALSE /\ loop = "start"
  /\ signal = FALSE /\ pump = FALSE /\ event = FALSE /\ started = FALSE
  /\ stored = [c \in Class |-> "absent"] /\ seen = stored
  /\ pass = [c \in Class |-> Idle] /\ queue = Class /\ backstop = {} /\ retry = {}
  /\ faults = 0 /\ missed = FALSE

Fault == faults < MaxFaults /\ faults' = faults + 1

\* The process starts anew: everything in memory is gone, and the informer's first
\* list queues every class.
StartOver ==
  /\ snapshot' = NoSnapshot /\ stale' = FALSE /\ loop' = "start"
  /\ signal' = FALSE /\ pump' = FALSE /\ event' = FALSE /\ started' = FALSE
  /\ seen' = stored /\ pass' = [c \in Class |-> Idle] /\ queue' = Class /\ backstop' = {} /\ retry' = {}
  /\ missed' = FALSE /\ UNCHANGED stored

Restart == Fault /\ StartOver

-----------------------------------------------------------------------------
\* Refresh up to its store of the snapshot, which a failed fetch of the server types
\* leaves as it was.  Of the first refresh a rejected credential ends the process.
Refresh ==
  /\ loop \in {"start", "wait"}
  /\ \/ /\ snapshot.gen < MaxRefresh
        /\ \E h \in Holds \ {"nothing"} : snapshot' = [gen |-> snapshot.gen + 1, holds |-> h]
        /\ stale' = FALSE /\ loop' = "signal"
        /\ UNCHANGED <<wakeVars, classVars, faults>>
     \/ Fault /\ stale' = TRUE /\ loop' = "wait" /\ UNCHANGED <<snapshot, wakeVars, classVars>>
     \/ loop = "start" /\ Fault /\ StartOver

\* The non-blocking send: a value that is already there stands for this refresh too.
Send ==
  /\ loop = "signal"
  /\ signal' = TRUE /\ loop' = "wait"
  /\ UNCHANGED <<snapshot, stale, pump, event, started, missed, classVars, faults>>

\* pumpRefreshSignal takes a value, and hands it over once the watch reads.
PumpTake ==
  /\ signal /\ ~pump
  /\ signal' = FALSE /\ pump' = TRUE
  /\ UNCHANGED <<catalogVars, event, started, missed, classVars, faults>>

PumpGive ==
  /\ pump /\ started
  /\ pump' = FALSE /\ event' = TRUE
  /\ UNCHANGED <<catalogVars, signal, started, missed, classVars, faults>>

ManagerStarts ==
  /\ ~started /\ started' = TRUE
  /\ UNCHANGED <<catalogVars, signal, pump, event, missed, classVars, faults>>

\* Variant: the filter knows one of the two reasons only.
waitingOnCatalogUnfetched(cond) == cond \in {"absent", "notFetched"}

waitingOnCatalog(cond) == cond \in {"absent", "notFetched", "empty"}

\* enqueueCatalogWaiters, on the informer's classes; a failed list wakes nobody.
enqueueCatalogWaiters ==
  /\ event /\ event' = FALSE
  /\ \/ /\ queue' = queue \cup {c \in Class : waitingOnCatalog(seen[c])}
        /\ UNCHANGED <<missed, faults>>
     \/ Fault /\ missed' = TRUE /\ UNCHANGED queue
  /\ UNCHANGED <<catalogVars, signal, pump, started, stored, seen, pass, backstop, retry>>

-----------------------------------------------------------------------------
\* A pass works on the informer's copy; while it runs its key may be queued again.
Begin(c) ==
  /\ started /\ c \in queue /\ pass[c].pc = "idle"
  /\ queue' = queue \ {c}
  /\ pass' = [pass EXCEPT ![c] = [Idle EXCEPT !.pc = "resolve", !.base = seen[c]]]
  /\ UNCHANGED <<catalogVars, wakeVars, stored, seen, backstop, retry, faults>>

\* What Validation makes of the catalog.
CatalogVerdict ==
  CASE snapshot.holds = "nothing" -> "notFetched" [] snapshot.holds = "noLocation" -> "empty" [] OTHER -> "valid"

\* Validation reads the catalog, if the other conditions allow.
Validate(c) ==
  /\ pass[c].pc = "resolve"
  /\ \/ pass' = [pass EXCEPT ![c].pc = "patch", ![c].verdict = CatalogVerdict] /\ UNCHANGED faults
     \/ Fault /\ pass' = [pass EXCEPT ![c].pc = "patch", ![c].verdict = "blocked"]
  /\ UNCHANGED <<catalogVars, wakeVars, stored, seen, queue, backstop, retry>>

\* Every verdict of Validation asks for a requeue.
Requeued(c) == backstop \cup {c}

\* The status patch under its optimistic lock, sent only if the pass changed the
\* object.  A conflict or a failure is retried on its own delay, and then so is
\* the pass.
Patch(c) ==
  /\ pass[c].pc = "patch"
  /\ pass' = [pass EXCEPT ![c] = Idle]
  /\ \/ /\ pass[c].verdict = pass[c].base \/ stored[c] = pass[c].base
        /\ stored' = IF pass[c].verdict = pass[c].base THEN stored ELSE [stored EXCEPT ![c] = pass[c].verdict]
        /\ backstop' = Requeued(c)
        /\ UNCHANGED <<retry, faults>>
     \/ /\ pass[c].verdict # pass[c].base /\ stored[c] # pass[c].base
        /\ retry' = retry \cup {c}
        /\ UNCHANGED <<stored, backstop, faults>>
     \/ /\ pass[c].verdict # pass[c].base
        /\ Fault /\ retry' = retry \cup {c}
        /\ UNCHANGED <<stored, backstop>>
  /\ UNCHANGED <<catalogVars, wakeVars, seen, queue>>

\* The informer learns of a change of the class, its own patches included, and
\* every such event queues it.
InformerSyncs(c) ==
  /\ seen[c] # stored[c]
  /\ seen' = [seen EXCEPT ![c] = stored[c]]
  /\ queue' = queue \cup {c}
  /\ UNCHANGED <<catalogVars, wakeVars, stored, pass, backstop, retry, faults>>

\* Variant: the delay of a class parked on the catalog starts again, since the watch
\* is to wake it.
RequeueUnlessParked(c) ==
  /\ c \in backstop \cup retry
  /\ IF stored[c] \in {"notFetched", "empty"} THEN UNCHANGED <<backstop, retry, queue>>
     ELSE backstop' = backstop \ {c} /\ retry' = retry \ {c} /\ queue' = queue \cup {c}
  /\ UNCHANGED <<catalogVars, wakeVars, stored, seen, pass, faults>>

\* A delay runs out.
Requeue(c) ==
  /\ c \in backstop \cup retry
  /\ backstop' = backstop \ {c} /\ retry' = retry \ {c}
  /\ queue' = queue \cup {c}
  /\ UNCHANGED <<catalogVars, wakeVars, stored, seen, pass, faults>>

Wake == Send \/ PumpTake \/ PumpGive \/ ManagerStarts \/ enqueueCatalogWaiters
Reconcile(c) == Begin(c) \/ Validate(c) \/ Patch(c)

WakeNext == Refresh \/ Wake \/ Restart \/ \E c \in Class : Reconcile(c) \/ InformerSyncs(c) \/ Requeue(c)

WakeSpec == WakeInit /\ [][WakeNext]_refreshVars

\* Goroutines and the informer keep running, and delays run out.  Nothing is assumed
\* of the refresh loop but that it sends what it stored.
FairWake ==
  /\ WakeSpec /\ WF_refreshVars(Wake)
  /\ \A c \in Class :
       WF_refreshVars(Reconcile(c)) /\ WF_refreshVars(InformerSyncs(c)) /\ WF_refreshVars(Requeue(c))

-----------------------------------------------------------------------------
Parked(c) == stored[c] \in {"notFetched", "empty"}

OnItsWay == loop = "signal" \/ signal \/ pump \/ event

\* "Promptness comes from the Refreshed() watch": once the catalog has locations, a
\* class that is parked on it, or was never reconciled, need not wait for the
\* backstop.  A wake-up, an event of its own, a retry or a pass that has yet to read
\* the catalog or to store a new verdict is on its way, whichever way the passes, the
\* informer and the refreshes interleave; a failed listing is the one exception.
ParkedIsWoken ==
  snapshot.holds = "locations" /\ ~missed =>
    \A c \in Class : Parked(c) \/ stored[c] = "absent" =>
      \/ OnItsWay
      \/ c \in queue \cup retry
      \/ seen[c] # stored[c]
      \/ pass[c].pc = "resolve"
      \/ pass[c].pc = "patch" /\ pass[c].verdict # pass[c].base

\* A parked class is validated once the catalog has locations, even if the listing
\* that should have woken it failed: the backstop is enough.
Unparks ==
  \A c \in Class :
    (Parked(c) /\ snapshot.holds = "locations") ~> (~Parked(c) \/ snapshot.holds # "locations")
=============================================================================
