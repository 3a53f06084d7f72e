-------------------------------- MODULE Fleet --------------------------------
(***************************************************************************)
(* The life of the servers behind NodeClaims.                              *)
(*                                                                         *)
(*   - Provider.Create and serverClient.Create: the walk over candidates,  *)
(*     the POST, the wait for the placement, the clean-up, the adoption of *)
(*     a server whose create response was lost;                            *)
(*   - CloudProvider.Delete and Provider.Delete, which core calls until    *)
(*     they report not found;                                              *)
(*   - the orphan sweep of internal/controllers/instancegc.                *)
(*                                                                         *)
(* Around them: Hetzner, core's NodeClaim life cycle, the informer the     *)
(* process reads NodeClaims from, an operator at the console, and crashes. *)
(* Every call to Hetzner is a step of its own, so that everything else can *)
(* happen between two of them.                                             *)
(*                                                                         *)
(* Times are kept as ages that stop growing once no comparison can tell    *)
(* them apart, so the clock itself is unbounded.                           *)
(***************************************************************************)
EXTENDS Integers, FiniteSets

CONSTANTS
  Claim,       \* NodeClaim names; a name is never used twice
  NoClaim,     \* the absence of a karpenter.sh/nodeclaim label
  Candidates,  \* number of (type, location) pairs, cheapest first
  MaxAttempts, \* DefaultMaxCreateAttempts
  Servers,     \* bound: how many server ids Hetzner hands out
  Undated,     \* ids Hetzner lists without a creation time
  MinAge,      \* minAge of the sweep, in ticks
  MaxLag,      \* how long the informer may miss a NodeClaim that exists
  SweepMax,    \* how long a sweep may take once it knows the NodeClaims
  MaxFaults    \* bound: failing calls, lost responses, crashes, hands at the console

ServerId == 1 .. Servers
Candidate == 1 .. Candidates

ASSUME FleetAssumption ==
  /\ NoClaim \notin Claim
  /\ Candidates \in Nat \ {0} /\ MaxAttempts \in Nat \ {0} /\ Servers \in Nat /\ MaxFaults \in Nat
  /\ Undated \subseteq ServerId
  /\ MinAge \in Nat /\ MaxLag \in Nat /\ SweepMax \in Nat
  /\ MaxLag + SweepMax < MinAge

VARIABLES
  claims,      \* the NodeClaims of the cluster
  unseen,      \* NodeClaims the process's informer has not delivered yet
  project,     \* the servers of the Hetzner project
  work,        \* work[c]: core's one reconcile of c, inside Create or Delete
  unavailable, \* UnavailableOfferings
  gc,          \* the orphan sweep
  faults       \* how many faults have happened

vars == <<claims, unseen, project, work, unavailable, gc, faults>>

-----------------------------------------------------------------------------
(* Data                                                                    *)

\* pid: status.providerID, 0 for none.  kind: the pair whose capacity was
\* published, 0 for none.
ClaimRec == [phase : {"absent", "live", "deleting", "gone"}, age : 0 .. MaxLag + 1,
             pid : {0} \cup ServerId, kind : {0} \cup Candidate]
Absent == [phase |-> "absent", age |-> 0, pid |-> 0, kind |-> 0]
Exists(c) == claims[c].phase \in {"live", "deleting"}
Seen == {c \in Claim : Exists(c) /\ c \notin unseen}

\* owner is "ours" while the server carries this cluster's managed-by label;
\* "late" is "not ours" with a deletion already past its ownership check.
\* doomed: the create action will fail.
ServerRec == [state : {"none", "up", "deleted", "removed"}, name : Claim \cup {NoClaim}, label : Claim \cup {NoClaim},
              owner : {"ours", "other", "late"}, kind : {0} \cup Candidate, age : 0 .. MinAge, doomed : BOOLEAN]
NoServer == [state |-> "none", name |-> NoClaim, label |-> NoClaim, owner |-> "other",
             kind |-> 0, age |-> 0, doomed |-> FALSE]
Up(s) == s # 0 /\ project[s].state = "up"

\* A server leaves the project: deleted by this program, or removed by others.
Drop(s, how) == [project EXCEPT ![s] = IF Up(s) THEN [NoServer EXCEPT !.state = how] ELSE @]

\* labels.go IsManagedBy, on a live read
IsManagedBy(s) == project[s].owner = "ours"
Listed == {s \in ServerId : Up(s) /\ IsManagedBy(s)}

WorkPC == {"idle", "post", "wait", "cleanup", "reread", "adopt", "created", "delete"}
Work == [pc : WorkPC, todo : SUBSET Candidate, sid : {0} \cup ServerId,
         kind : {0} \cup Candidate, err : {"none", "capacity", "quota", "transient"}]
Rest == [pc |-> "idle", todo |-> {}, sid |-> 0, kind |-> 0, err |-> "none"]

GC == [pc : {"idle", "claims", "sweep", "delete"}, servers : SUBSET ServerId, cur : {0} \cup ServerId,
       live : SUBSET Claim, age : 0 .. SweepMax]
NoSweep == [pc |-> "idle", servers |-> {}, cur |-> 0, live |-> {}, age |-> 0]

TypeOK ==
  /\ claims \in [Claim -> ClaimRec] /\ unseen \subseteq Claim
  /\ project \in [ServerId -> ServerRec]
  /\ work \in [Claim -> Work]
  /\ unavailable \subseteq Candidate
  /\ gc \in GC /\ faults \in 0 .. MaxFaults

\* errors.go: what an error of Hetzner's says about the request.
Class == {"capacity", "quota", "config", "fatal", "transient"}

Fault == faults < MaxFaults /\ faults' = faults + 1

-----------------------------------------------------------------------------
(* At the start the project may hold a server somebody else made, under a  *)
(* name a NodeClaim will ask for: without labels, or with this cluster's   *)
(* managed-by label and no NodeClaim label.                                *)
Strangers ==
  [state : {"up"}, name : Claim, label : {NoClaim}, owner : {"ours", "other"},
   kind : {0}, age : {MinAge}, doomed : {FALSE}]

Init ==
  /\ claims = [c \in Claim |-> Absent]
  /\ unseen = {}
  /\ \E f \in Strangers \cup {NoServer} : project = [s \in ServerId |-> IF s = 1 THEN f ELSE NoServer]
  /\ work = [c \in Claim |-> Rest]
  /\ unavailable = {}
  /\ gc = NoSweep /\ faults = 0

-----------------------------------------------------------------------------
(* Core's side of a NodeClaim                                              *)

NewClaim(c) ==
  /\ claims[c].phase = "absent"
  /\ claims' = [claims EXCEPT ![c].phase = "live"]
  /\ unseen' = unseen \cup {c}
  /\ UNCHANGED <<project, work, unavailable, gc, faults>>

\* The informer catches up.  (That it may also hear late of a deletion only
\* makes the sweep spare more.)
Observe(c) ==
  /\ c \in unseen
  /\ unseen' = unseen \ {c}
  /\ UNCHANGED <<claims, project, work, unavailable, gc, faults>>

\* Disruption, expiration, core's own garbage collector, a user.
DeleteClaim(c) ==
  /\ claims[c].phase = "live"
  /\ claims' = [claims EXCEPT ![c].phase = "deleting"]
  /\ UNCHANGED <<unseen, project, work, unavailable, gc, faults>>

\* What core does with an InsufficientCapacityError: it deletes the NodeClaim.
GiveBack(c) == [claims EXCEPT ![c].phase = IF @ = "live" THEN "deleting" ELSE @]

\* What core does with a NodeClaimNotFoundError of Delete: it lets go of it.
Release(c) == [claims EXCEPT ![c] = [Absent EXCEPT !.phase = "gone", !.pid = claims[c].pid]]

-----------------------------------------------------------------------------
(* Provider.Create                                                         *)

\* orderedCandidates, cut at maxAttempts: the cheapest pairs not suppressed.
orderedCandidates ==
  LET free == Candidate \ unavailable
  IN {k \in free : Cardinality({j \in free : j < k}) < MaxAttempts}

Begin(c) ==
  /\ claims[c].phase = "live" /\ claims[c].pid = 0 /\ c \notin unseen /\ work[c].pc = "idle"
  /\ IF orderedCandidates = {}
     THEN claims' = GiveBack(c) /\ UNCHANGED work
     ELSE work' = [work EXCEPT ![c] = [Rest EXCEPT !.pc = "post", !.todo = orderedCandidates]] /\ UNCHANGED claims
  /\ UNCHANGED <<unseen, project, unavailable, gc, faults>>

\* candidates[i]: the cheapest pair not tried yet.
Attempt(c, k) == k \in work[c].todo /\ \A j \in work[c].todo : k <= j

NameTaken(c) == \E s \in ServerId : Up(s) /\ project[s].name = c

\* Hetzner hands out ids in order and never again.
NextId(s) == project[s].state = "none" /\ \A t \in ServerId : project[t].state = "none" => s <= t

\* servers.Create returned an error for pair k: the switch over its class.
CreateFailed(c, k, class) ==
  LET rest == work[c].todo \ {k} IN
  /\ unavailable' = IF class = "capacity" THEN unavailable \cup {k} ELSE unavailable
  /\ work' = [work EXCEPT ![c] = IF class = "capacity" /\ rest # {} THEN [Rest EXCEPT !.pc = "post", !.todo = rest] ELSE Rest]
  /\ claims' = IF class = "quota" \/ (class = "capacity" /\ rest = {}) THEN GiveBack(c) ELSE claims

\* Hetzner accepts the POST and makes server s.  The response arrives, is lost,
\* or is lost to hcloud-go, which sends the POST again.
PostAccepted(c, k, s) ==
  /\ work[c].pc = "post" /\ Attempt(c, k) /\ ~NameTaken(c) /\ NextId(s)
  /\ \E doomed \in BOOLEAN :
       project' = [project EXCEPT ![s] = [state |-> "up", name |-> c, label |-> c, owner |-> "ours",
                                          kind |-> k, age |-> 0, doomed |-> doomed]]
  /\ \/ work' = [work EXCEPT ![c] = [@ EXCEPT !.pc = "wait", !.sid = s]] /\ UNCHANGED faults
     \/ work' = [work EXCEPT ![c] = Rest] /\ Fault
     \/ UNCHANGED work /\ Fault
  /\ UNCHANGED <<claims, unseen, unavailable, gc>>

\* Hetzner answers uniqueness_error.
PostTaken(c) ==
  /\ work[c].pc = "post" /\ NameTaken(c)
  /\ work' = [work EXCEPT ![c].pc = "adopt"]
  /\ UNCHANGED <<claims, unseen, project, unavailable, gc, faults>>

\* Hetzner refuses the POST, or it never arrives.
PostRefused(c, k, class) ==
  /\ work[c].pc = "post" /\ Attempt(c, k)
  /\ CreateFailed(c, k, class)
  /\ IF class \in {"config", "fatal", "transient"} THEN Fault ELSE UNCHANGED faults
  /\ UNCHANGED <<unseen, project, gc>>

\* Action.WaitFor ends: with the placement's outcome, or early.  A failed action
\* has a code of any class; config and fatal end the create as transient does.
Wait(c) ==
  /\ work[c].pc = "wait"
  /\ LET s == work[c].sid IN
     \/ ~project[s].doomed /\ work' = [work EXCEPT ![c].pc = "reread"] /\ UNCHANGED faults
     \/ \E class \in {"capacity", "quota", "transient"} :
          /\ (project[s].doomed /\ UNCHANGED faults) \/ (class = "transient" /\ Fault)
          /\ work' = [work EXCEPT ![c] = [@ EXCEPT !.pc = "cleanup", !.err = class]]
  /\ UNCHANGED <<claims, unseen, project, unavailable, gc>>

\* deleteQuietly, then the error goes to the switch in Provider.Create.
Cleanup(c, k) ==
  /\ work[c].pc = "cleanup" /\ Attempt(c, k)
  /\ \/ project' = Drop(work[c].sid, "deleted") /\ UNCHANGED faults
     \/ UNCHANGED project /\ Fault
  /\ CreateFailed(c, k, work[c].err)
  /\ UNCHANGED <<unseen, gc>>

\* The re-read after the wait.  A server that vanished is an error without a
\* code, which Classify takes for transient.
Reread(c, k) ==
  /\ work[c].pc = "reread" /\ Attempt(c, k)
  /\ LET s == work[c].sid IN
     \/ Up(s) /\ work' = [work EXCEPT ![c] = [Rest EXCEPT !.pc = "created", !.sid = s, !.kind = k]] /\ UNCHANGED faults
     \/ ~Up(s) /\ work' = [work EXCEPT ![c] = Rest] /\ UNCHANGED faults
     \/ work' = [work EXCEPT ![c] = Rest] /\ Fault
  /\ UNCHANGED <<claims, unseen, project, unavailable, gc>>

\* Variant: adoption by name and managed-by alone.
AdoptByName(c) ==
  /\ work[c].pc = "adopt"
  /\ \E s \in ServerId :
       /\ Up(s) /\ project[s].name = c /\ IsManagedBy(s)
       /\ work' = [work EXCEPT ![c] = [Rest EXCEPT !.pc = "created", !.sid = s, !.kind = project[s].kind]]
  /\ UNCHANGED <<claims, unseen, project, unavailable, gc, faults>>

\* adopt: GetByName, then ownership by both labels.  The published type is the
\* one the server has, or none if the catalog no longer lists it.
Adopt(c) ==
  /\ work[c].pc = "adopt"
  /\ LET ours == {s \in ServerId : Up(s) /\ project[s].name = c /\ IsManagedBy(s) /\ project[s].label = c} IN
     \/ \E s \in ours : \E k \in {0, project[s].kind} :
          work' = [work EXCEPT ![c] = [Rest EXCEPT !.pc = "created", !.sid = s, !.kind = k]] /\ UNCHANGED faults
     \/ ours = {} /\ work' = [work EXCEPT ![c] = Rest] /\ UNCHANGED faults
     \/ work' = [work EXCEPT ![c] = Rest] /\ Fault
  /\ UNCHANGED <<claims, unseen, project, unavailable, gc>>

\* Core records what Create returned.
Record(c) ==
  /\ work[c].pc = "created"
  /\ claims' = [claims EXCEPT ![c] = [@ EXCEPT !.pid = work[c].sid, !.kind = work[c].kind]]
  /\ work' = [work EXCEPT ![c] = Rest]
  /\ UNCHANGED <<unseen, project, unavailable, gc, faults>>

\* UnavailableOfferings' TTL runs out.
Expire(k) ==
  /\ k \in unavailable
  /\ unavailable' = unavailable \ {k}
  /\ UNCHANGED <<claims, unseen, project, work, gc, faults>>

-----------------------------------------------------------------------------
(* Core finalizes a deleted NodeClaim: CloudProvider.Delete until not found *)

\* Variants: no ownership check; a server that is already gone is an error.
FinalizeUnchecked(c) ==
  /\ claims[c].phase = "deleting" /\ c \notin unseen /\ work[c].pc = "idle"
  /\ LET s == claims[c].pid IN
     \/ ~Up(s) /\ claims' = Release(c) /\ UNCHANGED work
     \/ Up(s) /\ work' = [work EXCEPT ![c].pc = "delete"] /\ UNCHANGED claims
  /\ UNCHANGED <<unseen, project, unavailable, gc, faults>>
FinalizeGoneIsError(c) ==
  /\ claims[c].phase = "deleting" /\ c \notin unseen /\ work[c].pc = "idle"
  /\ LET s == claims[c].pid IN
     \/ s = 0 /\ claims' = Release(c) /\ UNCHANGED work
     \/ Up(s) /\ IsManagedBy(s) /\ work' = [work EXCEPT ![c].pc = "delete"] /\ UNCHANGED claims
  /\ UNCHANGED <<unseen, project, unavailable, gc, faults>>

\* No providerID, or the live read in front of the DELETE.  A server that is
\* not ours is an error, and so is a failed read: core tries again.
Finalize(c) ==
  /\ claims[c].phase = "deleting" /\ c \notin unseen /\ work[c].pc = "idle"
  /\ LET s == claims[c].pid IN
     \/ ~Up(s) /\ claims' = Release(c) /\ UNCHANGED work
     \/ Up(s) /\ IsManagedBy(s) /\ work' = [work EXCEPT ![c].pc = "delete"] /\ UNCHANGED claims
  /\ UNCHANGED <<unseen, project, unavailable, gc, faults>>

\* Variant: a failed DELETE passes for not found.
FinalDeleteErrorIsGone(c) ==
  /\ work[c].pc = "delete"
  /\ work' = [work EXCEPT ![c] = Rest]
  /\ \/ project' = Drop(claims[c].pid, "deleted") /\ UNCHANGED <<claims, faults>>
     \/ UNCHANGED project /\ claims' = Release(c) /\ Fault
  /\ UNCHANGED <<unseen, unavailable, gc>>

\* servers.Delete: done; done but the answer is lost; failed; or not found.
FinalDelete(c) ==
  /\ work[c].pc = "delete"
  /\ work' = [work EXCEPT ![c] = Rest]
  /\ LET s == claims[c].pid IN
     \/ Up(s) /\ project' = Drop(s, "deleted") /\ UNCHANGED <<claims, faults>>
     \/ Up(s) /\ project' = Drop(s, "deleted") /\ UNCHANGED claims /\ Fault
     \/ UNCHANGED <<project, claims>> /\ Fault
     \/ ~Up(s) /\ claims' = Release(c) /\ UNCHANGED <<project, faults>>
  /\ UNCHANGED <<unseen, unavailable, gc>>

-----------------------------------------------------------------------------
(* The orphan sweep                                                        *)

\* Provider.List.  A listing served from the cache is one taken earlier, so its
\* age is the time that passes before the sweep's next step.
GcList ==
  /\ gc.pc = "idle" /\ Listed # {}
  /\ gc' = [NoSweep EXCEPT !.pc = "claims", !.servers = Listed]
  /\ UNCHANGED <<claims, unseen, project, work, unavailable, faults>>

\* Variants: NodeClaims count once they have a providerID; a sweep acts
\* only while NodeClaims outnumber servers.
GcClaimsByProviderID ==
  /\ gc.pc = "claims"
  /\ gc' = (IF Seen = {} THEN NoSweep ELSE [gc EXCEPT !.pc = "sweep", !.live = {c \in Seen : claims[c].pid # 0}])
  /\ UNCHANGED <<claims, unseen, project, work, unavailable, faults>>
GcClaimsTimid ==
  /\ gc.pc = "claims"
  /\ gc' = (IF Cardinality(Seen) <= Cardinality(gc.servers) THEN NoSweep ELSE [gc EXCEPT !.pc = "sweep", !.live = Seen])
  /\ UNCHANGED <<claims, unseen, project, work, unavailable, faults>>

\* kubeClient.List of the NodeClaims; none at all ends the sweep, and so does
\* an error.
GcClaims ==
  /\ gc.pc = "claims"
  /\ \/ gc' = (IF Seen = {} THEN NoSweep ELSE [gc EXCEPT !.pc = "sweep", !.live = Seen]) /\ UNCHANGED faults
     \/ gc' = NoSweep /\ Fault
  /\ UNCHANGED <<claims, unseen, project, work, unavailable>>

\* Past one server of the listing.
GcRest(s) == IF gc.servers = {s} THEN NoSweep
             ELSE [gc EXCEPT !.pc = "sweep", !.servers = @ \ {s}, !.cur = 0]

\* The sweep's reasons to leave a listed server alone.
GcSkips(s) ==
  \/ project[s].label = NoClaim \/ project[s].label \in gc.live
  \/ s \in Undated
  \/ project[s].age < MinAge

\* One server: skip it, or Provider.Delete's live read: gone, not ours, failed
\* (all of which go on to the next server), or on to the DELETE.
GcNext(s) ==
  /\ gc.pc = "sweep" /\ s \in gc.servers
  /\ \/ (GcSkips(s) \/ ~Up(s) \/ ~IsManagedBy(s)) /\ gc' = GcRest(s) /\ UNCHANGED faults
     \/ ~GcSkips(s) /\ Up(s) /\ IsManagedBy(s) /\ gc' = [gc EXCEPT !.pc = "delete", !.cur = s] /\ UNCHANGED faults
     \/ ~GcSkips(s) /\ gc' = GcRest(s) /\ Fault
  /\ UNCHANGED <<claims, unseen, project, work, unavailable>>

GcDelete ==
  /\ gc.pc = "delete"
  /\ \/ project' = Drop(gc.cur, "deleted") /\ UNCHANGED faults
     \/ project' = Drop(gc.cur, "deleted") /\ Fault
     \/ UNCHANGED project /\ Fault
  /\ gc' = GcRest(gc.cur)
  /\ UNCHANGED <<claims, unseen, work, unavailable>>

-----------------------------------------------------------------------------
(* Everything else                                                         *)

\* Some call is past its ownership check, or is a create that owns the server.
Committed(s) ==
  \/ gc.pc = "delete" /\ gc.cur = s
  \/ \E c \in Claim : \/ work[c].pc = "delete" /\ claims[c].pid = s
                      \/ work[c].pc \in {"wait", "cleanup"} /\ work[c].sid = s

\* An operator takes the managed-by label off a server.
Disown(s) ==
  /\ Up(s) /\ IsManagedBy(s)
  /\ project' = [project EXCEPT ![s].owner = IF Committed(s) THEN "late" ELSE "other"]
  /\ Fault
  /\ UNCHANGED <<claims, unseen, work, unavailable, gc>>

\* An operator, or Hetzner, removes a server.
Vanish(s) ==
  /\ Up(s)
  /\ project' = Drop(s, "removed")
  /\ Fault
  /\ UNCHANGED <<claims, unseen, work, unavailable, gc>>

\* The process dies and another takes over.  Its informer may not have caught
\* up with the youngest NodeClaims.
Crash ==
  /\ Fault
  /\ unseen' \in SUBSET {c \in Claim : Exists(c) /\ claims[c].age <= MaxLag}
  /\ work' = [c \in Claim |-> Rest]
  /\ unavailable' = {} /\ gc' = NoSweep
  /\ UNCHANGED <<claims, project>>

\* Time passes: never past the informer's lag, nor past the end of a sweep.
Tick ==
  /\ \A c \in unseen : claims[c].age < MaxLag
  /\ gc.pc \in {"sweep", "delete"} => gc.age < SweepMax
  /\ claims' = [c \in Claim |-> IF Exists(c) /\ claims[c].age <= MaxLag THEN [claims[c] EXCEPT !.age = @ + 1] ELSE claims[c]]
  /\ project' = [s \in ServerId |-> IF Up(s) /\ project[s].age < MinAge THEN [project[s] EXCEPT !.age = @ + 1] ELSE project[s]]
  /\ gc' = IF gc.pc \in {"sweep", "delete"} THEN [gc EXCEPT !.age = @ + 1] ELSE gc
  /\ UNCHANGED <<unseen, work, unavailable, faults>>

-----------------------------------------------------------------------------
CreateStep(c) ==
  \/ \E k \in Candidate :
       \/ \E s \in ServerId : PostAccepted(c, k, s)
       \/ \E class \in Class : PostRefused(c, k, class)
       \/ Cleanup(c, k) \/ Reread(c, k)
  \/ PostTaken(c) \/ Wait(c) \/ Adopt(c) \/ Record(c)
FinalStep(c) == Finalize(c) \/ FinalDelete(c)
GcStep == GcList \/ GcClaims \/ (\E s \in ServerId : GcNext(s)) \/ GcDelete

Next ==
  \/ \E c \in Claim : NewClaim(c) \/ Observe(c) \/ DeleteClaim(c) \/ Begin(c) \/ CreateStep(c) \/ FinalStep(c)
  \/ \E k \in Candidate : Expire(k)
  \/ \E s \in ServerId : Disown(s) \/ Vanish(s)
  \/ GcStep \/ Crash \/ Tick

\* Core requeues a reconcile that has not finished, the sweep's singleton source
\* requeues it every interval, and the informer delivers.  Time passes, however
\* often a sweep begins.  Nothing obliges anyone to make or delete a NodeClaim,
\* to touch a server by hand, or to fail.
Fairness ==
  /\ \A c \in Claim : WF_vars(CreateStep(c)) /\ WF_vars(FinalStep(c)) /\ WF_vars(Observe(c))
  /\ WF_vars(GcStep) /\ SF_vars(Tick)

Spec == Init /\ [][Next]_vars /\ Fairness

-----------------------------------------------------------------------------
(* Properties                                                              *)

\* The sweep is about to delete a server only when the NodeClaim it was made for
\* is gone for good: not one still being created that has recorded no
\* providerID, not one the new process's informer has not heard of yet, not one
\* that is still being drained.
GCSparesLiveClaims == gc.pc = "delete" /\ Up(gc.cur) => ~Exists(project[gc.cur].label)

\* No step of this program deletes a server that did not carry this cluster's
\* label when the deletion read it, whether it never did or an operator took it
\* off: Provider.Delete checks a live read, adopt checks both labels.
NotOursUntouched ==
  [][\A s \in ServerId : Up(s) /\ project[s].owner = "other" => project'[s].state # "deleted"]_vars

\* The providerID a NodeClaim records is that of a server made for it, also when
\* Create adopted a server it found under the NodeClaim's name.
ProviderIDIsOwn ==
  \A c \in Claim : Up(claims[c].pid) => project[claims[c].pid].label = c

\* The capacity published for a NodeClaim is that of the server it got, or none,
\* never that of the candidate the retry happened to be trying.
CapacityIsReal ==
  \A c \in Claim : Up(claims[c].pid) => claims[c].kind \in {0, project[claims[c].pid].kind}

\* Core lets go of a NodeClaim that recorded a server only once that server is
\* gone: lost answers and failed deletes never pass for not found.
NothingLeftBehind ==
  \A c \in Claim : claims[c].phase = "gone" => ~Up(claims[c].pid)

\* A server that a lost response, a failed clean-up or a crash left without a
\* NodeClaim is deleted in the end, as long as any NodeClaim is left to tell a
\* leak from a lost list.
Orphan(s) ==
  /\ Up(s) /\ IsManagedBy(s) /\ s \notin Undated
  /\ project[s].label # NoClaim /\ ~Exists(project[s].label)
OrphansReaped == \A s \in ServerId : Orphan(s) ~> (~Orphan(s) \/ Seen = {})

\* A NodeClaim being deleted goes away in the end, whatever its create was doing
\* when the deletion came, unless its server is no longer ours to delete.
DeletionFinishes ==
  \A c \in Claim : claims[c].phase = "deleting" ~>
    \/ claims[c].phase = "gone"
    \/ Up(claims[c].pid) /\ ~IsManagedBy(claims[c].pid)
=============================================================================
