-------------------------------- MODULE Drift --------------------------------
(***************************************************************************)
(* The spec hash of an HCloudNodeClass and what drift makes of it: the     *)
(* hash controller that stamps the class and back-fills its NodeClaims     *)
(* (controllers/nodeclass/hash), Create, which stamps the NodeClaims it    *)
(* launches (toNodeClaim), and IsDrifted, across edits of the spec and     *)
(* upgrades of the controller that change the hash generator.              *)
(*                                                                         *)
(* A hash is the pair of the generator's version and the spec's revision:  *)
(* two generators never agree, one generator tells revisions apart.  Only  *)
(* edits of hashed fields are counted as revisions.                        *)
(***************************************************************************)
EXTENDS Naturals

CONSTANTS
  Claim,
  MaxSpec,     \* bound: revisions of the spec
  MaxVersion,  \* bound: generators, that is releases that change HashVersion
  MaxFaults    \* bound: failed calls and restarts

ASSUME BoundsAreSane == MaxSpec \in Nat \ {0} /\ MaxVersion \in Nat \ {0} /\ MaxFaults \in Nat

VARIABLES
  class,   \* the class in the API server: its revision and its two annotations
  build,   \* HashVersion of the controller that is running
  claims,  \* the NodeClaims: phase, annotations and the Drifted condition
  seen,    \* the informers' copies of both
  work,    \* the hash controller's pass
  faults

vars == <<class, build, claims, seen, work, faults>>

Revision == 1 .. MaxSpec
Version == 1 .. MaxVersion

NoHash == <<0, 0>>
Hash(v, s) == <<v, s>>
Hashes == {NoHash} \cup {Hash(v, s) : v \in Version, s \in Revision}

\* ver 0: the annotation is absent.
Class == [spec : Revision, hash : Hashes, ver : 0 .. MaxVersion, deleting : BOOLEAN]
NodeClaim ==
  [phase : {"absent", "pending", "launching", "running", "gone"},
   hash : Hashes, ver : 0 .. MaxVersion, drifted : BOOLEAN,
   read : 0 .. MaxSpec,          \* the revision the Create in flight has read
   condemned : {"no", "yes"}]    \* see StartAs

Work ==
  [pc : {"idle", "backfill", "stamp"}, queued : BOOLEAN, class : Class, claims : [Claim -> NodeClaim],
   todo : SUBSET Claim, errs : BOOLEAN]

TypeOK ==
  /\ class \in Class /\ build \in Version
  /\ claims \in [Claim -> NodeClaim]
  /\ seen \in [class : Class, claims : [Claim -> NodeClaim]]
  /\ work \in Work
  /\ faults \in 0 .. MaxFaults

-----------------------------------------------------------------------------
NewClass == [spec |-> 1, hash |-> NoHash, ver |-> 0, deleting |-> FALSE]
NewClaim == [phase |-> "absent", hash |-> NoHash, ver |-> 0, drifted |-> FALSE,
             read |-> 0, condemned |-> "no"]
\* q: the work queue holds the class's key.
NoWork(q) == [pc |-> "idle", queued |-> q, class |-> NewClass, claims |-> [c \in Claim |-> NewClaim], todo |-> {}, errs |-> FALSE]

Init ==
  /\ class = NewClass /\ build = 1
  /\ claims = [c \in Claim |-> NewClaim]
  /\ seen = [class |-> class, claims |-> claims]
  /\ work = NoWork(TRUE)
  /\ faults = 0

Exists(nc) == nc.phase \notin {"absent", "gone"}

Fault == faults < MaxFaults /\ faults' = faults + 1

-----------------------------------------------------------------------------
(* The hash controller.  Its key is queued by every change of the class the   *)
(* informer sees, by a failed pass, and when the controller starts.           *)

\* The NodeClaims the back-fill visits: those listed that another generator, or
\* none, has stamped.
Outdated == {c \in Claim : Exists(seen.claims[c]) /\ seen.claims[c].ver # build}

\* Reconcile: nothing for a terminating class; a class whose version is not the
\* build's is back-filled first, from the informer's list of its NodeClaims, and
\* a failed list is retried.
Reconcile ==
  /\ work.pc = "idle" /\ work.queued
  /\ LET pass(pc, todo) == [NoWork(FALSE) EXCEPT !.pc = pc, !.class = seen.class, !.claims = seen.claims, !.todo = todo]
     IN \/ seen.class.deleting /\ work' = NoWork(FALSE) /\ UNCHANGED faults
        \/ ~seen.class.deleting /\ seen.class.ver = build /\ work' = pass("stamp", {}) /\ UNCHANGED faults
        \/ ~seen.class.deleting /\ seen.class.ver # build /\ work' = pass("backfill", Outdated) /\ UNCHANGED faults
        \/ ~seen.class.deleting /\ seen.class.ver # build /\ Fault /\ UNCHANGED work
  /\ UNCHANGED <<class, build, claims, seen>>

\* Variant: the back-fill re-stamps a Drifted NodeClaim as well.
BackfilledEvenDrifted(nc, listed) ==
  [nc EXCEPT !.ver = build, !.hash = Hash(build, work.class.spec)]

\* The annotations the back-fill sends: the version always, the hash unless the
\* NodeClaim it listed is Drifted.
Backfilled(nc, listed) ==
  IF listed.drifted THEN [nc EXCEPT !.ver = build]
  ELSE [nc EXCEPT !.ver = build, !.hash = Hash(build, work.class.spec)]

\* One NodeClaim of the loop; a failed patch is remembered and the loop goes on,
\* a NodeClaim that is gone is no failure.
BackfillOne ==
  /\ work.pc = "backfill"
  /\ \E c \in work.todo :
       \/ /\ claims' = IF Exists(claims[c]) THEN [claims EXCEPT ![c] = Backfilled(@, work.claims[c])] ELSE claims
          /\ work' = [work EXCEPT !.todo = @ \ {c}] /\ UNCHANGED faults
       \/ Fault /\ work' = [work EXCEPT !.todo = @ \ {c}, !.errs = TRUE] /\ UNCHANGED claims
  /\ UNCHANGED <<class, build, seen>>

\* Variant: the errors of the back-fill are only logged.
BackfillEndForgiving ==
  /\ work.pc = "backfill" /\ work.todo = {}
  /\ work' = [work EXCEPT !.pc = "stamp"]
  /\ UNCHANGED <<class, build, claims, seen, faults>>

\* The class is stamped only after a back-fill without errors; one with errors is
\* retried.
BackfillEnd ==
  /\ work.pc = "backfill" /\ work.todo = {}
  /\ work' = IF work.errs THEN NoWork(TRUE) ELSE [work EXCEPT !.pc = "stamp"]
  /\ UNCHANGED <<class, build, claims, seen, faults>>

\* Variant: a failed patch of the class is not returned, and so not retried.
StampForgets ==
  /\ work.pc = "stamp"
  /\ LET hash == Hash(build, work.class.spec)
     IN \/ class' = [class EXCEPT !.hash = hash, !.ver = build] /\ UNCHANGED faults
        \/ (work.class.hash # hash \/ work.class.ver # build) /\ Fault /\ UNCHANGED class
  /\ work' = NoWork(work.queued)
  /\ UNCHANGED <<build, claims, seen>>

\* The class's own annotations, as a merge patch against the copy that was read:
\* only what differs from the copy is sent, and nothing guards against a class
\* that has changed since.
Stamp ==
  /\ work.pc = "stamp"
  /\ LET hash == Hash(build, work.class.spec)
     IN \/ /\ class' = [class EXCEPT !.hash = IF work.class.hash = hash THEN @ ELSE hash,
                                     !.ver = IF work.class.ver = build THEN @ ELSE build]
           /\ work' = NoWork(work.queued)
           /\ UNCHANGED faults
        \/ /\ work.class.hash # hash \/ work.class.ver # build
           /\ Fault /\ work' = NoWork(TRUE) /\ UNCHANGED class
  /\ UNCHANGED <<build, claims, seen>>

-----------------------------------------------------------------------------
(* Create. *)

\* The Create of a NodeClaim reads the class through the informer, and orders the
\* server or adopts the one an earlier attempt has left.
CreateBegin ==
  /\ \E c \in Claim :
       /\ claims[c].phase = "pending" /\ ~seen.class.deleting
       /\ claims' = [claims EXCEPT ![c].phase = "launching", ![c].read = seen.class.spec]
  /\ UNCHANGED <<class, build, seen, work, faults>>

\* toNodeClaim: the NodeClaim carries the hash of the class this Create has read.
toNodeClaim(nc) ==
  [nc EXCEPT !.phase = "running", !.hash = Hash(build, nc.read), !.ver = build, !.read = 0]

\* Create returns and core stores what it returned; or it fails after the order,
\* and core calls it again.
CreateEnd ==
  /\ \E c \in Claim :
       /\ claims[c].phase = "launching"
       /\ \/ claims' = [claims EXCEPT ![c] = toNodeClaim(@)] /\ UNCHANGED faults
          \/ claims' = [claims EXCEPT ![c].phase = "pending", ![c].read = 0] /\ Fault
  /\ UNCHANGED <<class, build, seen, work>>

-----------------------------------------------------------------------------
(* Drift. *)

\* Variant: hashes of different generators are compared.
nodeClassHashDriftAnyVersion(cl, nc) == cl.hash # NoHash /\ nc.hash # NoHash /\ cl.hash # nc.hash

\* nodeClassHashDrift: both versions are the build's, both hashes are there, and
\* they differ.
nodeClassHashDrift(cl, nc) ==
  /\ cl.ver = build /\ nc.ver = build
  /\ cl.hash # NoHash /\ nc.hash # NoHash
  /\ cl.hash # nc.hash

\* IsDrifted up to the hash: nothing for a NodeClaim that has not launched, nor
\* for a class that terminates.  Whether the class is Ready is any value here,
\* and what the age and the server itself say is another question.
IsDrifted(cl, nc) == nc.phase = "running" /\ ~cl.deleting /\ nodeClassHashDrift(cl, nc)

\* Core's evaluation: the Drifted condition follows the answer, under a lock on
\* the NodeClaim's version.
Evaluate ==
  /\ \E c \in Claim, ready \in BOOLEAN :
       /\ claims[c].phase = "running" /\ seen.claims[c] = claims[c]
       /\ claims' = [claims EXCEPT ![c].drifted = ready /\ IsDrifted(seen.class, seen.claims[c]),
                                   ![c].condemned = "no"]
  /\ UNCHANGED <<class, build, seen, work, faults>>

-----------------------------------------------------------------------------
(* The surroundings. *)

Appear == \E c \in Claim : /\ claims[c].phase = "absent" /\ claims' = [claims EXCEPT ![c].phase = "pending"]
                           /\ UNCHANGED <<class, build, seen, work, faults>>

Vanish == \E c \in Claim : /\ claims[c].phase \in {"pending", "running"}
                           /\ claims' = [claims EXCEPT ![c] = [NewClaim EXCEPT !.phase = "gone"]]
                           /\ UNCHANGED <<class, build, seen, work, faults>>

Edit ==
  /\ class.spec < MaxSpec
  /\ class' = [class EXCEPT !.spec = @ + 1]
  /\ UNCHANGED <<build, claims, seen, work, faults>>

Delete ==
  /\ ~class.deleting
  /\ class' = [class EXCEPT !.deleting = TRUE]
  /\ UNCHANGED <<build, claims, seen, work, faults>>

SyncClass ==
  /\ seen.class # class
  /\ seen' = [seen EXCEPT !.class = class] /\ work' = [work EXCEPT !.queued = TRUE]
  /\ UNCHANGED <<class, build, claims, faults>>

SyncClaims ==
  /\ seen.claims # claims
  /\ seen' = [seen EXCEPT !.claims = claims]
  /\ UNCHANGED <<class, build, claims, work, faults>>

\* A NodeClaim that the class's stamp tells from its spec, and any later one would.
Outdone(nc) == IsDrifted(class, nc) /\ nc.hash # Hash(build, class.spec)

\* A process of version v starts: fresh informers, a fresh queue, and every
\* Create in flight cut short.  The NodeClaims it finds rightly Drifted are condemned,
\* until core evaluates them once more.
StartAs(v) ==
  /\ build' = v
  /\ claims' = [c \in Claim |->
                  LET nc == claims[c]
                  IN [nc EXCEPT !.phase = IF @ = "launching" THEN "pending" ELSE @, !.read = 0,
                                !.condemned = IF nc.drifted /\ Outdone(nc) THEN "yes" ELSE @]]
  /\ seen' = [class |-> class, claims |-> claims']
  /\ work' = NoWork(TRUE)
  /\ UNCHANGED class

Upgrade == build < MaxVersion /\ StartAs(build + 1) /\ UNCHANGED faults
Restart == Fault /\ StartAs(build)

Next ==
  \/ Reconcile \/ BackfillOne \/ BackfillEnd \/ Stamp
  \/ CreateBegin \/ CreateEnd \/ Evaluate
  \/ Appear \/ Vanish \/ Edit \/ Delete \/ SyncClass \/ SyncClaims \/ Upgrade \/ Restart

Spec == Init /\ [][Next]_vars

\* Work queues are served and informers deliver.
Fairness ==
  /\ WF_vars(Reconcile) /\ WF_vars(BackfillOne) /\ WF_vars(BackfillEnd) /\ WF_vars(Stamp)
  /\ WF_vars(SyncClass)
FairSpec == Spec /\ Fairness

-----------------------------------------------------------------------------
(* Properties. *)

\* Once the class carries the running build's version, so does every NodeClaim
\* that has launched: the back-fill has reached all of them, whatever failed or
\* was launched meanwhile, so none is beyond nodeClassHashDrift's judgement.
BackfillIsComplete ==
  class.ver = build => \A c \in Claim : claims[c].phase = "running" => claims[c].ver = build

\* "That order is what stops a controller upgrade from replacing the fleet":
\* while the spec has not been edited, no NodeClaim is ever found drifted by its
\* hash, whichever build compares and whatever the informers show it.
UpgradeNeverDrifts ==
  class.spec = 1 => \A c \in Claim : ~IsDrifted(seen.class, seen.claims[c])

Comparable(c) == claims[c].phase = "running" /\ claims[c].ver = build /\ class.ver = build /\ ~class.deleting

\* "Re-stamping would un-drift it": a NodeClaim that was rightly Drifted when the
\* build started, and has not been evaluated since, is still drifted once the
\* back-fill has made both sides comparable, whatever is edited meanwhile.
CondemnedStaysDrifted ==
  \A c \in Claim : claims[c].condemned = "yes" /\ Comparable(c) => IsDrifted(class, claims[c])

\* The stamp follows the spec: unless the class terminates, it ends up carrying
\* the running build's hash of its last revision.
StampFollows == <>[](class.deleting \/ (class.ver = build /\ class.hash = Hash(build, class.spec)))

=============================================================================
