------------------------------ MODULE NodeClass ------------------------------
(***************************************************************************)
(* One HCloudNodeClass, the controller that resolves it and gates on it    *)
(* (controllers/nodeclass), and the NodeClaims launched from it.           *)
(*                                                                         *)
(* The API server holds the object; both the controller and Create read an *)
(* informer's copy of it that lags.  A pass takes that copy, adds the      *)
(* finalizer, runs the sub-reconcilers on the copy in memory and writes    *)
(* the status back under an optimistic lock, each a step of its own, so an *)
(* edit, a deletion or another writer may come between any two of them.    *)
(* What a sub-reconciler answers in detail is in module Resolvers; here an *)
(* answer is good, a configuration failure or a transport failure.  The    *)
(* spec is known by its generation, and a resolved reference by the        *)
(* generation whose selector it was resolved from (0: nothing published).  *)
(***************************************************************************)
EXTENDS Naturals, Sequences

CONSTANTS
  Kinds,      \* the references, in the order their sub-reconcilers run
  Claim,      \* NodeClaims that name this class
  MaxGen,     \* bound: generations of the spec
  MaxFaults   \* bound: failed calls, bad catalogs and writes by others

ASSUME ParametersAreSane ==
  /\ Kinds \in Seq(STRING) /\ Kinds # <<>>
  /\ \A i \in DOMAIN Kinds : Kinds[i] \notin {"ValidationSucceeded", "Ready"}
  /\ MaxGen \in Nat \ {0} /\ MaxFaults \in Nat

Kind == {Kinds[i] : i \in DOMAIN Kinds}
Condition == Kind \cup {"ValidationSucceeded", "Ready"}

VARIABLES
  obj,      \* the object in the API server
  seen,     \* the informer's copy, which the controller and Create read
  pass,     \* the controller's pass over the object
  catalog,  \* what catalog.Get() offers validation
  claims,   \* the NodeClaims: phase, and what Create built each one from
  listed,   \* the NodeClaims the informer's index knows of
  faults

vars == <<obj, seen, pass, catalog, claims, listed, faults>>

Generation == 0 .. MaxGen
Cond == [st : {"none", "Unknown", "True", "False"}, gen : Generation]

Object ==
  [exists : BOOLEAN, rv : Nat, gen : Generation, fin : BOOLEAN, deleting : BOOLEAN,
   cond : [Condition -> Cond], res : [Kind -> Generation], loc : Generation]

\* A pass: its copy, the copy as stored, the next sub-reconciler, and what kinds
\* of failure it has met.
Pass ==
  [pc : {"idle", "finalizer", "resolve", "patch", "list", "release"},
   copy : Object, stored : Object, at : 1 .. Len(Kinds) + 1,
   blame : SUBSET {"config", "transient", "catalog"}]

Phases == {"absent", "pending", "launching", "launched", "gone"}

TypeOK ==
  /\ obj \in Object /\ seen \in Object /\ pass \in Pass
  /\ catalog \in {"none", "empty", "good"}
  /\ claims \in [Claim -> [phase : Phases, spec : Generation, refs : [Kind -> Generation]]]
  /\ listed \in SUBSET Claim
  /\ faults \in 0 .. MaxFaults

-----------------------------------------------------------------------------
NewObject ==
  [exists |-> TRUE, rv |-> 1, gen |-> 1, fin |-> FALSE, deleting |-> FALSE,
   cond |-> [n \in Condition |-> [st |-> "none", gen |-> 0]],
   res |-> [k \in Kind |-> 0], loc |-> 0]

Idle == [pc |-> "idle", copy |-> NewObject, stored |-> NewObject, at |-> 1, blame |-> {}]

Init ==
  /\ obj = NewObject /\ seen = NewObject /\ pass = Idle
  /\ catalog = "none"
  /\ claims = [c \in Claim |-> [phase |-> "absent", spec |-> 0, refs |-> [k \in Kind |-> 0]]]
  /\ listed = {}
  /\ faults = 0

-----------------------------------------------------------------------------
(* Conditions, as operatorpkg keeps them. *)

\* findUnhealthyDependents and recomputeRootCondition: a dependent that is not
\* True, or is about another generation, is unhealthy; one False makes the root
\* False.
RollUp(o) ==
  LET dependent == Condition \ {"Ready"}
      st == IF \E n \in dependent : o.cond[n].st = "False" THEN "False"
            ELSE IF \A n \in dependent : o.cond[n] = [st |-> "True", gen |-> o.gen] THEN "True"
            ELSE "Unknown"
  IN [o EXCEPT !.cond["Ready"] = [st |-> st, gen |-> o.gen]]

\* ConditionSet.Set stamps the object's generation and recomputes the root.
Set(o, n, st) == RollUp([o EXCEPT !.cond[n] = [st |-> st, gen |-> o.gen]])

\* StatusConditions() is a constructor: absent conditions become Unknown.
StatusConditions(o) ==
  [o EXCEPT !.cond = [n \in Condition |-> IF @[n].st = "none" THEN [st |-> "Unknown", gen |-> o.gen] ELSE @[n]]]

-----------------------------------------------------------------------------
(* The sub-reconcilers, on the copy in memory. *)

\* Variant: an outage is written down on a condition that has resolved.
noteUnreachableAlways(o, k) == Set(o, k, "Unknown")

\* noteUnreachable: only a condition that is Unknown is touched.
noteUnreachable(o, k) == IF o.cond[k].st = "Unknown" THEN Set(o, k, "Unknown") ELSE o

\* What a sub-reconciler leaves behind for each kind of answer: the reference
\* and True; no reference and False; or everything as it was.
Resolved(o, k, answer) ==
  CASE answer = "good"      -> Set([o EXCEPT !.res[k] = o.gen], k, "True")
    [] answer = "config"    -> Set([o EXCEPT !.res[k] = 0], k, "False")
    [] answer = "transient" -> noteUnreachable(o, k)

\* Variant: a True condition counts whatever generation it is about.
PendingByStatus(o) == \E k \in Kind : o.cond[k].st = "Unknown"

\* A required condition that is Unknown, or resolved an earlier spec.
Pending(o) == \E k \in Kind : o.cond[k].st = "Unknown" \/ o.cond[k].gen # o.gen

\* No snapshot, or one with no location in it, is not a fact about the class.
CatalogVerdict(o, cat) == Set([o EXCEPT !.loc = 0], "ValidationSucceeded", "Unknown")

\* Validation.Reconcile.  flaw: what it finds wrong, an image of an unsupported
\* architecture, or no location in scope; the image is judged before the catalog.
Validated(o, cat, flaw) ==
  IF \E k \in Kind : o.cond[k].st = "False" THEN Set([o EXCEPT !.loc = 0], "ValidationSucceeded", "False")
  ELSE IF Pending(o) THEN Set([o EXCEPT !.loc = 0], "ValidationSucceeded", "Unknown")
  ELSE IF flaw = "image" THEN Set([o EXCEPT !.loc = 0], "ValidationSucceeded", "False")
  ELSE IF cat # "good" THEN CatalogVerdict(o, cat)
  ELSE IF flaw = "locations" THEN Set([o EXCEPT !.loc = 0], "ValidationSucceeded", "False")
  ELSE Set([o EXCEPT !.loc = o.gen], "ValidationSucceeded", "True")

-----------------------------------------------------------------------------
(* The pass. *)

Fault == faults < MaxFaults /\ faults' = faults + 1

\* The copy a pass works on once the finalizer is in place, and its snapshot.
Resolving(o) == [Idle EXCEPT !.pc = "resolve", !.copy = StatusConditions(o), !.stored = o]

\* Variant: a pass only for a generation without a verdict.
BeginOnGeneration ==
  /\ pass.pc = "idle" /\ seen.exists
  /\ IF seen.deleting THEN seen.fin ELSE seen.cond["Ready"].gen # seen.gen
  /\ pass' = IF seen.deleting THEN [Idle EXCEPT !.pc = "list", !.copy = seen, !.stored = seen]
             ELSE IF ~seen.fin THEN [Idle EXCEPT !.pc = "finalizer", !.copy = seen]
             ELSE Resolving(seen)
  /\ UNCHANGED <<obj, seen, catalog, claims, listed, faults>>

\* Variant: a terminating class is not looked at.
BeginLive ==
  /\ pass.pc = "idle" /\ seen.exists /\ ~seen.deleting
  /\ pass' = IF ~seen.fin THEN [Idle EXCEPT !.pc = "finalizer", !.copy = seen] ELSE Resolving(seen)
  /\ UNCHANGED <<obj, seen, catalog, claims, listed, faults>>

\* Reconcile up to its first call.
Begin ==
  /\ pass.pc = "idle" /\ seen.exists
  /\ seen.deleting => seen.fin
  /\ pass' = IF seen.deleting THEN [Idle EXCEPT !.pc = "list", !.copy = seen, !.stored = seen]
             ELSE IF ~seen.fin THEN [Idle EXCEPT !.pc = "finalizer", !.copy = seen]
             ELSE Resolving(seen)
  /\ UNCHANGED <<obj, seen, catalog, claims, listed, faults>>

\* Variant: a patch that does not send the resourceVersion it was based on.
UnlockedAgainst(o) == obj.exists

\* MergeFromWithOptimisticLock: the patch of o lands only on the version o was
\* read at.
LockedAgainst(o) == obj.exists /\ obj.rv = o.rv

\* The finalizer's patch; a NotFound is ignored and the pass goes on.
AddFinalizer ==
  /\ pass.pc = "finalizer"
  /\ \/ /\ LockedAgainst(pass.copy)
        /\ obj' = [obj EXCEPT !.fin = TRUE, !.rv = @ + 1]
        /\ pass' = Resolving(obj') /\ UNCHANGED faults
     \/ /\ ~obj.exists /\ pass' = Resolving([pass.copy EXCEPT !.fin = TRUE])
        /\ UNCHANGED <<obj, faults>>
     \/ /\ obj.exists /\ ~LockedAgainst(pass.copy)
        /\ pass' = Idle /\ UNCHANGED <<obj, faults>>
     \/ Fault /\ pass' = Idle /\ UNCHANGED obj
  /\ UNCHANGED <<seen, catalog, claims, listed>>

\* One sub-reconciler; the pass goes on after a failure.
Resolve ==
  /\ pass.pc = "resolve" /\ pass.at <= Len(Kinds)
  /\ \E answer \in {"good", "config", "transient"} :
       /\ IF answer = "good" THEN UNCHANGED faults ELSE Fault
       /\ pass' = [pass EXCEPT !.copy = Resolved(@, Kinds[pass.at], answer), !.at = @ + 1,
                               !.blame = @ \cup ({answer} \ {"good"})]
  /\ UNCHANGED <<obj, seen, catalog, claims, listed>>

\* The last sub-reconciler.
Validate ==
  /\ pass.pc = "resolve" /\ pass.at > Len(Kinds)
  /\ \E flaw \in {"none", "image", "locations"} :
       /\ IF flaw = "none" THEN UNCHANGED faults ELSE Fault
       /\ pass' = [pass EXCEPT !.pc = "patch", !.copy = Validated(@, catalog, flaw),
                               !.blame = @ \cup (IF flaw = "none" THEN {} ELSE {"config"})
                                           \cup (IF catalog = "good" THEN {} ELSE {"catalog"})]
  /\ UNCHANGED <<obj, seen, catalog, claims, listed>>

\* The status patch, sent when something changed, and the end of the pass: a
\* conflict, a missing object or an error leaves the object as it is.
PatchStatus ==
  /\ pass.pc = "patch"
  /\ \/ /\ pass.copy # pass.stored /\ LockedAgainst(pass.stored)
        /\ obj' = [obj EXCEPT !.rv = @ + 1, !.cond = pass.copy.cond, !.res = pass.copy.res, !.loc = pass.copy.loc]
        /\ UNCHANGED faults
     \/ /\ pass.copy = pass.stored \/ ~LockedAgainst(pass.stored)
        /\ UNCHANGED <<obj, faults>>
     \/ pass.copy # pass.stored /\ Fault /\ UNCHANGED obj
  /\ pass' = Idle
  /\ UNCHANGED <<seen, catalog, claims, listed>>

\* Variant: a class with NodeClaims is only announced, not held.
FinalizeListAnnounce ==
  /\ pass.pc = "list"
  /\ \/ pass' = [pass EXCEPT !.pc = "release"] /\ UNCHANGED faults
     \/ Fault /\ pass' = Idle
  /\ UNCHANGED <<obj, seen, catalog, claims, listed>>

\* Termination.Finalize: list the class's NodeClaims from the index.
FinalizeList ==
  /\ pass.pc = "list"
  /\ \/ pass' = (IF listed = {} THEN [pass EXCEPT !.pc = "release"] ELSE Idle) /\ UNCHANGED faults
     \/ Fault /\ pass' = Idle
  /\ UNCHANGED <<obj, seen, catalog, claims, listed>>

\* Remove the finalizer, with which the API server drops the object.
Release ==
  /\ pass.pc = "release"
  /\ \/ LockedAgainst(pass.stored) /\ obj' = [obj EXCEPT !.exists = FALSE, !.rv = @ + 1] /\ UNCHANGED faults
     \/ ~LockedAgainst(pass.stored) /\ UNCHANGED <<obj, faults>>
     \/ Fault /\ UNCHANGED obj
  /\ pass' = Idle
  /\ UNCHANGED <<seen, catalog, claims, listed>>

-----------------------------------------------------------------------------
(* Create, the NodeClaims, and everyone else. *)

\* Variant: a class one of whose references is resolved is taken for Ready.
resolveNodeClassAnyReference(o) ==
  o.exists /\ ~o.deleting /\ \E k \in Kind : o.cond[k].st = "True"


\* resolveNodeClass: a class that is there, not terminating, and Ready.
resolveNodeClass(o) == o.exists /\ ~o.deleting /\ o.cond["Ready"].st = "True"

SetPhase(c, phase) == claims' = [claims EXCEPT ![c].phase = phase]

\* Create reads the class once; the spec it hashes and the references it orders
\* with are that copy's.
CreateBegin(c) ==
  /\ claims[c].phase = "pending" /\ c \in listed /\ resolveNodeClass(seen)
  /\ claims' = [claims EXCEPT ![c] = [phase |-> "launching", spec |-> seen.gen, refs |-> seen.res]]
  /\ UNCHANGED <<obj, seen, pass, catalog, listed, faults>>

\* Create returns a server, or an error.
CreateEnd(c) ==
  /\ claims[c].phase = "launching"
  /\ \E phase \in {"launched", "pending"} : SetPhase(c, phase)
  /\ UNCHANGED <<obj, seen, pass, catalog, listed, faults>>

\* A NodeClaim appears, and goes once its server has.
ClaimAppears(c) ==
  /\ claims[c].phase = "absent" /\ SetPhase(c, "pending")
  /\ UNCHANGED <<obj, seen, pass, catalog, listed, faults>>

ClaimGoes(c) ==
  /\ claims[c].phase \in {"pending", "launched"} /\ SetPhase(c, "gone")
  /\ UNCHANGED <<obj, seen, pass, catalog, listed, faults>>

Present == {c \in Claim : claims[c].phase \notin {"absent", "gone"}}

\* The informers catch up.
SyncClass ==
  /\ seen # obj /\ seen' = obj
  /\ UNCHANGED <<obj, pass, catalog, claims, listed, faults>>

SyncClaims ==
  /\ listed # Present /\ listed' = Present
  /\ UNCHANGED <<obj, seen, pass, catalog, claims, faults>>

\* The operator edits the spec, or deletes the class.
Edit ==
  /\ obj.exists /\ ~obj.deleting /\ obj.gen < MaxGen
  /\ obj' = [obj EXCEPT !.gen = @ + 1, !.rv = @ + 1]
  /\ UNCHANGED <<seen, pass, catalog, claims, listed, faults>>

Delete ==
  /\ obj.exists /\ ~obj.deleting
  /\ obj' = [obj EXCEPT !.exists = obj.fin, !.deleting = TRUE, !.rv = @ + 1]
  /\ UNCHANGED <<seen, pass, catalog, claims, listed, faults>>

\* The hash controller, or anyone, writes metadata.
Touch ==
  /\ obj.exists /\ Fault
  /\ obj' = [obj EXCEPT !.rv = @ + 1]
  /\ UNCHANGED <<seen, pass, catalog, claims, listed>>

\* A catalog refresh lands; a snapshot may come back with no location in it.
CatalogLands ==
  /\ \/ catalog # "good" /\ catalog' = "good" /\ UNCHANGED faults
     \/ catalog # "empty" /\ catalog' = "empty" /\ Fault
  /\ UNCHANGED <<obj, seen, pass, claims, listed>>

\* The process restarts: passes and creates die, caches are built anew.
Restart ==
  /\ Fault
  /\ pass' = Idle /\ seen' = obj /\ listed' = Present /\ catalog' = "none"
  /\ claims' = [c \in Claim |-> IF claims[c].phase = "launching" THEN [claims[c] EXCEPT !.phase = "pending"] ELSE claims[c]]
  /\ UNCHANGED obj

Step == Begin \/ AddFinalizer \/ Resolve \/ Validate \/ PatchStatus \/ FinalizeList \/ Release

Next ==
  \/ Step
  \/ \E c \in Claim : CreateBegin(c) \/ CreateEnd(c) \/ ClaimAppears(c) \/ ClaimGoes(c)
  \/ SyncClass \/ SyncClaims
  \/ Edit \/ Delete \/ Touch \/ CatalogLands \/ Restart

Spec == Init /\ [][Next]_vars

\* The manager keeps running passes, which always requeue, the informers catch
\* up, and a refresh loop keeps trying for a catalog.
Fairness ==
  /\ WF_vars(Step) /\ WF_vars(SyncClass) /\ WF_vars(SyncClaims)
  /\ WF_vars(CatalogLands /\ catalog' = "good")

FairSpec == Spec /\ Fairness

-----------------------------------------------------------------------------
(* What must hold. *)

About(o, n) == o.cond[n].st = "True" /\ o.cond[n].gen = o.gen

\* A class that is Ready, or validated, for its current generation publishes
\* references and locations resolved from that very spec: conclusions drawn
\* from an earlier spec are never stamped with the new generation, whatever
\* edits and outages came in between (Validation.Reconcile's generation test).
VouchesForThisSpec ==
  \A n \in {"ValidationSucceeded", "Ready"} :
    About(obj, n) => obj.loc = obj.gen /\ \A k \in Kind : obj.res[k] = obj.gen /\ About(obj, k)

\* A NodeClaim with a server, or with a create under way, keeps its class: the
\* finalizer is not released between Create's read of the class and the
\* NodeClaim's end, although both sides work from caches that lag
\* (Termination.Finalize against resolveNodeClass).
LaunchedKeepsItsClass ==
  \A c \in Claim : claims[c].phase \in {"launching", "launched"} => obj.exists /\ obj.fin

\* For an unchanged spec, only a configuration failure takes Ready to False, and
\* only that or a useless catalog takes it away from True: no outage, conflict
\* or restart does (noteUnreachable, and the catalog's Unknown in validation).
OutageSparesReady ==
  [][obj'.gen = obj.gen =>
       /\ obj.cond["Ready"].st # "False" /\ obj'.cond["Ready"].st = "False" => "config" \in pass.blame
       /\ About(obj, "Ready") /\ obj'.cond["Ready"].st # "True" => pass.blame \cap {"config", "catalog"} # {}]_vars

\* All that Create orders with was resolved from one spec, the one the class was
\* Ready for: the readiness gate of resolveNodeClass lets no mixture through,
\* though it does not ask whether the spec has been edited since.
BuiltFromOneSpec ==
  \A c \in Claim : claims[c].phase = "launched" =>
    \E g \in 1 .. claims[c].spec : \A k \in Kind : claims[c].refs[k] = g

Contract ==
  INSTANCE ClassContract
    WITH generation <- obj.gen, verdict <- obj.cond["Ready"], refs <- {obj.res[k] : k \in Kind}

\* The controller keeps the status's contract: every status write that lands is
\* a verdict on the generation the object has at that moment, which is what the
\* optimistic lock is for.
KeepsContract == Contract!Spec

\* Once edits and failures stop, the class ends Ready for its last spec, or
\* gone: conflicts, stale reads and missed refreshes only delay a pass.
Settles == <>[](About(obj, "Ready") \/ obj.deleting)

\* A deleted class is released once no NodeClaim is left.
ReleaseFollows == obj.deleting ~> (~obj.exists \/ Present # {})

=============================================================================
