----------------------------- MODULE DriftProofs -----------------------------
(***************************************************************************)
(* Proofs about Drift for any NodeClaims, revisions, generators and        *)
(* faults: the state keeps its types, the back-fill reaches every launched *)
(* NodeClaim before the class is stamped, and an upgrade alone drifts      *)
(* nothing.                                                                *)
(***************************************************************************)
EXTENDS Drift, TLAPS

\* The bounds in the form the proofs use.
LEMMA Bounds == /\ MaxSpec \in Nat /\ MaxVersion \in Nat /\ MaxFaults \in Nat
                /\ 1 \in Revision /\ 1 \in Version /\ 0 \in 0 .. MaxVersion /\ 0 \in 0 .. MaxSpec
                /\ Version \subseteq 0 .. MaxVersion /\ Revision \subseteq 0 .. MaxSpec
                /\ NoHash \in Hashes
                /\ \A v \in Version, s \in Revision : Hash(v, s) \in Hashes
BY BoundsAreSane DEF Revision, Version, Hashes

\* Fresh objects are within the types.
LEMMA Fresh ==
  /\ NewClass \in Class /\ NewClaim \in NodeClaim
  /\ \A q \in BOOLEAN : NoWork(q) \in Work
  /\ [NewClaim EXCEPT !.phase = "gone"] \in NodeClaim
<1>1. NewClass \in Class
  BY Bounds DEF NewClass, Class
<1>2. NewClaim \in NodeClaim
  BY Bounds DEF NewClaim, NodeClaim
<1>3. [NewClaim EXCEPT !.phase = "gone"] \in NodeClaim
  BY <1>2 DEF NodeClaim
<1>4. \A q \in BOOLEAN : NoWork(q) \in Work
  BY <1>1, <1>2 DEF NoWork, Work
<1> QED BY <1>1, <1>2, <1>3, <1>4

\* Each write to a NodeClaim keeps its type: the back-fill's, of the version alone,
LEMMA WriteVersion ==
  \A nc \in NodeClaim, b \in 0 .. MaxVersion : [nc EXCEPT !.ver = b] \in NodeClaim
BY ZenonT(60) DEF NodeClaim

\* ... of the version and of the hash as well,
LEMMA WriteStamp ==
  \A nc \in NodeClaim, b \in 0 .. MaxVersion, h \in Hashes : [nc EXCEPT !.ver = b, !.hash = h] \in NodeClaim
BY ZenonT(60) DEF NodeClaim

\* ... the write of a Create that begins,
LEMMA WriteBegin ==
  \A nc \in NodeClaim, r \in 0 .. MaxSpec : [nc EXCEPT !.phase = "launching", !.read = r] \in NodeClaim
BY ZenonT(60) DEF NodeClaim

\* ... one that succeeds,
LEMMA WriteLaunch ==
  \A nc \in NodeClaim, b \in 0 .. MaxVersion, h \in Hashes, r \in 0 .. MaxSpec :
    [nc EXCEPT !.phase = "running", !.hash = h, !.ver = b, !.read = r] \in NodeClaim
BY ZenonT(60) DEF NodeClaim

\* ... one that fails,
LEMMA WriteRetry ==
  \A nc \in NodeClaim, r \in 0 .. MaxSpec : [nc EXCEPT !.phase = "pending", !.read = r] \in NodeClaim
BY ZenonT(60) DEF NodeClaim

\* ... core's evaluation,
LEMMA WriteCondition ==
  \A nc \in NodeClaim, d \in BOOLEAN, k \in {"no", "yes"} :
    [nc EXCEPT !.drifted = d, !.condemned = k] \in NodeClaim
BY ZenonT(60) DEF NodeClaim

\* ... its new NodeClaim,
LEMMA WritePending ==
  \A nc \in NodeClaim : [nc EXCEPT !.phase = "pending"] \in NodeClaim
BY ZenonT(60) DEF NodeClaim

\* ... and a start's.
LEMMA WriteStart ==
  \A nc \in NodeClaim, ph \in {"absent", "pending", "launching", "running", "gone"}, r \in 0 .. MaxSpec,
     k \in {"no", "yes"} :
    [nc EXCEPT !.phase = ph, !.read = r, !.condemned = k] \in NodeClaim
BY ZenonT(60) DEF NodeClaim

\* Replacing one NodeClaim by another keeps the type of all of them.
LEMMA OneClaim ==
  ASSUME NEW cs \in [Claim -> NodeClaim], NEW c \in Claim, NEW nc \in NodeClaim
  PROVE  [cs EXCEPT ![c] = nc] \in [Claim -> NodeClaim]
OBVIOUS

-----------------------------------------------------------------------------
(* The inductive invariant.                                                  *)

\* A launched NodeClaim that the running build has not stamped.
Stale(c) == claims[c].phase = "running" /\ claims[c].ver # build

\* Why the back-fill is complete.  Such a NodeClaim was launched by an earlier
\* build, so the informers, which are no older than the process, list it the same
\* way; a pass that starts from them has it still to do, or has failed on it, and
\* is never in its last step; and no copy of the class is ahead of the class.
FillInv ==
  /\ class.ver <= build
  /\ seen.class.ver = build => class.ver = build
  /\ \A c \in Claim : Stale(c) =>
       /\ seen.claims[c].phase = "running" /\ seen.claims[c].ver # build
       /\ class.ver # build
       /\ work.pc # "stamp"
       /\ work.pc = "backfill" => work.errs \/ c \in work.todo

\* The annotations agree with each other and with the first revision, or are
\* both absent.
Uniform(o) == o.hash = Hash(o.ver, 1) \/ (o.ver = 0 /\ o.hash = NoHash)

Untouched(nc) == ~nc.drifted /\ Uniform(nc) /\ (nc.phase = "launching" => nc.read = 1)

\* Why an upgrade is quiet.  Until the first edit every copy of every object is at
\* the first revision with annotations of one generator, nothing is Drifted, so
\* the back-fill never takes the branch that leaves a hash behind, and a stamp
\* that sends one annotation only finds the other already there.
QuietInv ==
  class.spec = 1 =>
    /\ seen.class.spec = 1 /\ Uniform(class) /\ Uniform(seen.class)
    /\ \A c \in Claim : Untouched(claims[c]) /\ Untouched(seen.claims[c])
    /\ work.pc # "idle" =>
         /\ work.class.spec = 1 /\ Uniform(work.class)
         /\ work.class.ver = build => class.ver = build
         /\ \A c \in Claim : ~work.claims[c].drifted

\* A Create in flight has read a revision, so the hash it stamps is one of a spec.
ReadInv == \A c \in Claim : claims[c].phase = "launching" => claims[c].read \in Revision

\* Where hashes come from: a copy's revision is no later than what it was copied
\* from, the class's two annotations are of one generator, and the hash of a
\* NodeClaim is of a generator and a revision that have been.
HashInv ==
  /\ seen.class.spec <= class.spec
  /\ class.hash[1] = class.ver /\ seen.class.hash[1] = seen.class.ver
  /\ work.pc # "idle" =>
       /\ work.class.spec <= class.spec /\ work.class.hash[1] = work.class.ver
       /\ work.class.ver = build => class.ver = build
  /\ \A c \in Claim :
       /\ claims[c].hash[1] <= build /\ claims[c].hash[2] <= class.spec
       /\ claims[c].phase = "launching" => claims[c].read <= class.spec
       /\ claims[c].phase = "running" => claims[c].hash[1] # 0
       /\ claims[c].drifted => claims[c].phase = "running"

\* Why the condemned stay drifted.  Every copy made since the process started shows
\* the NodeClaim Drifted, so the back-fill leaves its hash alone; and every copy of
\* the class shows a later revision than that hash is of, so no stamp can meet it.
CondemnedInv ==
  \A c \in Claim : claims[c].condemned = "yes" =>
    /\ claims[c].drifted /\ seen.claims[c].drifted
    /\ claims[c].hash[1] = build => claims[c].hash[2] < seen.class.spec
    /\ class.ver = build => class.hash # claims[c].hash
    /\ work.pc # "idle" =>
         /\ work.claims[c].drifted
         /\ claims[c].hash[1] = build => claims[c].hash[2] < work.class.spec

Inv == TypeOK /\ ReadInv /\ FillInv /\ QuietInv /\ HashInv /\ CondemnedInv

\* The invariant holds when the first build starts.
LEMMA InitInv == Init => Inv
<1> SUFFICES ASSUME Init PROVE Inv
  OBVIOUS
<1>1. TypeOK
  <2>1. class \in Class /\ claims \in [Claim -> NodeClaim] /\ work \in Work
    BY Fresh, Zenon DEF Init
  <2>2. build \in Version /\ faults \in 0 .. MaxFaults
    BY Bounds DEF Init
  <2> QED BY <2>1, <2>2, Zenon DEF Init, TypeOK
<1>4. ReadInv
  BY DEF Init, ReadInv, NewClaim
<1>2. FillInv
  <2>1. class.ver = 0 /\ seen.class.ver = 0 /\ build = 1 /\ \A c \in Claim : claims[c].phase = "absent"
    BY DEF Init, NewClass, NewClaim
  <2> QED BY <2>1 DEF FillInv, Stale
<1>3. QuietInv
  BY DEF Init, QuietInv, Uniform, Untouched, NewClass, NewClaim, NoWork
<1>5. HashInv
  <2>1. /\ class.spec = 1 /\ class.hash = <<0, 0>> /\ class.ver = 0 /\ seen.class = class /\ build = 1 /\ work.pc = "idle"
        /\ \A c \in Claim : claims[c].hash = <<0, 0>> /\ claims[c].phase = "absent" /\ ~claims[c].drifted
    BY DEF Init, NewClass, NewClaim, NoWork, NoHash
  <2> QED BY <2>1 DEF HashInv
<1>6. CondemnedInv
  BY DEF Init, NewClaim, CondemnedInv
<1> QED BY <1>1, <1>2, <1>3, <1>4, <1>5, <1>6 DEF Inv

-----------------------------------------------------------------------------
(* Types.                                                                    *)

\* Each write to the class keeps its type: an edit,
LEMMA WriteSpec == \A cl \in Class, s \in Revision : [cl EXCEPT !.spec = s] \in Class
BY ZenonT(60) DEF Class

\* ... a deletion,
LEMMA WriteDeletion == \A cl \in Class : [cl EXCEPT !.deleting = TRUE] \in Class
BY ZenonT(60) DEF Class

\* ... and a stamp.
LEMMA WriteClassStamp ==
  \A cl \in Class, h \in Hashes, v \in 0 .. MaxVersion : [cl EXCEPT !.hash = h, !.ver = v] \in Class
BY ZenonT(60) DEF Class

\* So does each write to the pass.
LEMMA WriteWork ==
  /\ \A w \in Work, t \in SUBSET Claim : [w EXCEPT !.todo = t] \in Work
  /\ \A w \in Work, t \in SUBSET Claim : [w EXCEPT !.todo = t, !.errs = TRUE] \in Work
  /\ \A w \in Work : [w EXCEPT !.pc = "stamp"] \in Work
  /\ \A w \in Work : [w EXCEPT !.queued = TRUE] \in Work
BY ZenonT(60) DEF Work

\* A pass that starts from the informers' copies is well typed.
LEMMA PassTyped ==
  ASSUME NEW cl \in Class, NEW cs \in [Claim -> NodeClaim], NEW t \in SUBSET Claim,
         NEW pc \in {"backfill", "stamp"}
  PROVE  [NoWork(FALSE) EXCEPT !.pc = pc, !.class = cl, !.claims = cs, !.todo = t] \in Work
BY Fresh, ZenonT(60) DEF Work

\* The parts of a typed state that the steps read.
LEMMA Parts ==
  ASSUME TypeOK
  PROVE  /\ class.spec \in Revision /\ class.hash \in Hashes /\ class.ver \in 0 .. MaxVersion
         /\ class.deleting \in BOOLEAN
         /\ seen.class \in Class /\ seen.claims \in [Claim -> NodeClaim]
         /\ seen.class.spec \in Revision /\ seen.class.ver \in 0 .. MaxVersion
         /\ work.class \in Class /\ work.claims \in [Claim -> NodeClaim] /\ work.todo \in SUBSET Claim
         /\ work.class.spec \in Revision /\ work.queued \in BOOLEAN
         /\ \A c \in Claim : claims[c] \in NodeClaim
BY DEF TypeOK, Class, Work

\* Every step keeps the types.
LEMMA TypeStep == TypeOK /\ ReadInv /\ [Next]_vars => TypeOK'
<1> SUFFICES ASSUME TypeOK, ReadInv, [Next]_vars PROVE TypeOK'
  OBVIOUS
<1>f. ASSUME Fault PROVE faults' \in 0 .. MaxFaults
  BY Bounds, <1>f DEF Fault, TypeOK
<1>b. build \in 0 .. MaxVersion /\ build \in Version /\ faults \in 0 .. MaxFaults
  BY Bounds DEF TypeOK
<1>1. CASE Reconcile
  <2>1. Outdated \in SUBSET Claim
    BY DEF Outdated
  <2>2. work' \in Work
    <3>1. [NoWork(FALSE) EXCEPT !.pc = "stamp", !.class = seen.class, !.claims = seen.claims, !.todo = {}] \in Work
      BY Parts, PassTyped, Zenon
    <3>2. [NoWork(FALSE) EXCEPT !.pc = "backfill", !.class = seen.class, !.claims = seen.claims, !.todo = Outdated] \in Work
      BY Parts, <2>1, PassTyped, Zenon
    <3> QED BY <1>1, <3>1, <3>2, Fresh, Zenon DEF Reconcile, TypeOK
  <2>3. faults' \in 0 .. MaxFaults
    BY <1>1, <1>f, <1>b, Zenon DEF Reconcile
  <2> QED BY <1>1, <2>2, <2>3 DEF Reconcile, TypeOK
<1>2. CASE BackfillOne
  <2>1. PICK c \in work.todo :
          \/ /\ claims' = IF Exists(claims[c]) THEN [claims EXCEPT ![c] = Backfilled(@, work.claims[c])] ELSE claims
             /\ work' = [work EXCEPT !.todo = @ \ {c}] /\ UNCHANGED faults
          \/ Fault /\ work' = [work EXCEPT !.todo = @ \ {c}, !.errs = TRUE] /\ UNCHANGED claims
    BY <1>2, Zenon DEF BackfillOne
  <2>2. work' \in Work
    <3>1. work.todo \ {c} \in SUBSET Claim
      BY Parts
    <3>2. work \in Work
      BY DEF TypeOK
    <3> QED BY <2>1, <3>1, <3>2, WriteWork, Zenon
  <2>3. Backfilled(claims[c], work.claims[c]) \in NodeClaim
    <3>1. Hash(build, work.class.spec) \in Hashes /\ claims[c] \in NodeClaim
      BY Bounds, Parts, <1>b, Zenon
    <3> QED BY <3>1, <1>b, WriteVersion, WriteStamp, Zenon DEF Backfilled
  <2>4. claims' \in [Claim -> NodeClaim]
    BY <2>1, <2>3, OneClaim DEF TypeOK
  <2>5. faults' \in 0 .. MaxFaults
    BY <2>1, <1>f, <1>b
  <2> QED BY <1>2, <2>2, <2>4, <2>5 DEF BackfillOne, TypeOK
<1>3. CASE BackfillEnd
  <2>1. work' \in Work
    BY <1>3, WriteWork, Fresh, Zenon DEF BackfillEnd, TypeOK
  <2> QED BY <1>3, <2>1, Zenon DEF BackfillEnd, TypeOK
<1>4. CASE Stamp
  <2>1. work' \in Work
    BY Parts, <1>4, Fresh, Zenon DEF Stamp
  <2>2. class' \in Class
    <3> DEFINE hash == Hash(build, work.class.spec)
    <3>1. hash \in Hashes
      BY Bounds, Parts, <1>b, Zenon
    <3>2. class' = class \/ \E h \in Hashes, v \in 0 .. MaxVersion : class' = [class EXCEPT !.hash = h, !.ver = v]
      BY Parts, <1>4, <3>1, <1>b, Zenon DEF Stamp
    <3>3. CASE class' = class
      BY <3>3 DEF TypeOK
    <3>4. ASSUME NEW h \in Hashes, NEW v \in 0 .. MaxVersion, class' = [class EXCEPT !.hash = h, !.ver = v]
          PROVE  class' \in Class
      <4>1. class \in Class
        BY DEF TypeOK
      <4> QED BY ONLY <3>4, <4>1, WriteClassStamp, Zenon
    <3> QED BY <3>2, <3>3, <3>4, Zenon
  <2>3. faults' \in 0 .. MaxFaults
    BY <1>4, <1>f, <1>b, Zenon DEF Stamp
  <2> QED BY <1>4, <2>1, <2>2, <2>3 DEF Stamp, TypeOK
<1>5. CASE CreateBegin
  <2>1. PICK c \in Claim :
          claims' = [claims EXCEPT ![c].phase = "launching", ![c].read = seen.class.spec]
    BY <1>5, Zenon DEF CreateBegin
  <2>2. claims' \in [Claim -> NodeClaim]
    <3> DEFINE nc == [claims[c] EXCEPT !.phase = "launching", !.read = seen.class.spec]
    <3>1. nc \in NodeClaim
      BY Bounds, Parts, WriteBegin, Zenon
    <3>2. claims' = [claims EXCEPT ![c] = nc]
      BY <2>1, Zenon DEF TypeOK, NodeClaim
    <3> QED BY <3>1, <3>2, OneClaim DEF TypeOK
  <2> QED BY <1>5, <2>2 DEF CreateBegin, TypeOK
<1>6. CASE CreateEnd
  <2>1. PICK c \in Claim :
          /\ claims[c].phase = "launching"
          /\ \/ claims' = [claims EXCEPT ![c] = toNodeClaim(@)] /\ UNCHANGED faults
             \/ claims' = [claims EXCEPT ![c].phase = "pending", ![c].read = 0] /\ Fault
    BY <1>6 DEF CreateEnd
  <2>2. claims' \in [Claim -> NodeClaim]
    <3>1. CASE claims' = [claims EXCEPT ![c] = toNodeClaim(@)]
      <4>0. claims[c] \in NodeClaim /\ Hash(build, claims[c].read) \in Hashes /\ 0 \in 0 .. MaxSpec
        BY Bounds, Parts, <2>1, <1>b DEF ReadInv
      <4>1. toNodeClaim(claims[c]) \in NodeClaim
        BY ONLY <4>0, <1>b, WriteLaunch, Zenon DEF toNodeClaim
      <4> QED BY <3>1, <4>1, OneClaim DEF TypeOK
    <3>2. CASE claims' = [claims EXCEPT ![c].phase = "pending", ![c].read = 0]
      <4>1. claims' = [claims EXCEPT ![c] = [claims[c] EXCEPT !.phase = "pending", !.read = 0]]
        BY <3>2, Zenon DEF TypeOK, NodeClaim
      <4>2. [claims[c] EXCEPT !.phase = "pending", !.read = 0] \in NodeClaim
        BY Bounds, Parts, WriteRetry, Zenon
      <4> QED BY <4>1, <4>2, OneClaim DEF TypeOK
    <3> QED BY <2>1, <3>1, <3>2
  <2>3. faults' \in 0 .. MaxFaults
    BY <2>1, <1>f, <1>b
  <2> QED BY <1>6, <2>2, <2>3 DEF CreateEnd, TypeOK
<1>7. CASE Evaluate
  <2>1. PICK c \in Claim, ready \in BOOLEAN :
          claims' = [claims EXCEPT ![c].drifted = ready /\ IsDrifted(seen.class, seen.claims[c]),
                                   ![c].condemned = "no"]
    BY <1>7, Zenon DEF Evaluate
  <2>2. (ready /\ IsDrifted(seen.class, seen.claims[c])) \in BOOLEAN
    BY Zenon
  <2>3. claims' \in [Claim -> NodeClaim]
    <3> DEFINE d == ready /\ IsDrifted(seen.class, seen.claims[c])
    <3>1. claims[c] \in NodeClaim
      BY Parts DEF NodeClaim
    <3>2. [claims[c] EXCEPT !.drifted = d, !.condemned = "no"] \in NodeClaim
      BY <2>2, <3>1, WriteCondition, Zenon
    <3>3. claims' = [claims EXCEPT ![c] = [claims[c] EXCEPT !.drifted = d, !.condemned = "no"]]
      BY <2>1, Zenon DEF TypeOK, NodeClaim
    <3> QED BY <3>2, <3>3, OneClaim DEF TypeOK
  <2> QED BY <1>7, <2>3 DEF Evaluate, TypeOK
<1>8. CASE Appear
  <2>1. PICK c \in Claim : claims' = [claims EXCEPT ![c].phase = "pending"]
    BY <1>8, Zenon DEF Appear
  <2>2. claims' = [claims EXCEPT ![c] = [claims[c] EXCEPT !.phase = "pending"]]
    BY <2>1 DEF TypeOK, NodeClaim
  <2>3. claims' \in [Claim -> NodeClaim]
    BY <2>2, WritePending, OneClaim DEF TypeOK
  <2> QED BY <1>8, <2>3 DEF Appear, TypeOK
<1>9. CASE Vanish
  BY <1>9, Fresh DEF Vanish, TypeOK
<1>10. CASE Edit
  <2>1. class.spec + 1 \in Revision
    BY Bounds, Parts, <1>10 DEF Edit, Revision
  <2>2. class' \in Class
    BY <1>10, <2>1, WriteSpec DEF Edit, TypeOK
  <2> QED BY <1>10, <2>2 DEF Edit, TypeOK
<1>11. CASE Delete
  BY <1>11, WriteDeletion DEF Delete, TypeOK
<1>12. CASE SyncClass
  BY <1>12, WriteWork, Zenon DEF SyncClass, TypeOK
<1>13. CASE SyncClaims
  BY <1>13 DEF SyncClaims, TypeOK
<1>14. ASSUME NEW v \in Version, StartAs(v), faults' \in 0 .. MaxFaults PROVE TypeOK'
  <2>1. claims' \in [Claim -> NodeClaim]
    <3>1. ASSUME NEW c \in Claim PROVE claims'[c] \in NodeClaim
      <4> DEFINE ph == IF claims[c].phase = "launching" THEN "pending" ELSE claims[c].phase
                 k == IF claims[c].drifted /\ Outdone(claims[c]) THEN "yes" ELSE claims[c].condemned
      <4>1. claims'[c] = [claims[c] EXCEPT !.phase = ph, !.read = 0, !.condemned = k]
        BY <1>14, Zenon DEF StartAs
      <4>2. ph \in {"absent", "pending", "launching", "running", "gone"} /\ k \in {"no", "yes"}
        BY Parts DEF NodeClaim
      <4>3. claims[c] \in NodeClaim /\ 0 \in 0 .. MaxSpec
        BY Bounds, Parts
      <4> HIDE DEF ph, k
      <4>4. [claims[c] EXCEPT !.phase = ph, !.read = 0, !.condemned = k] \in NodeClaim
        BY ONLY <4>2, <4>3, WriteStart, Zenon
      <4> QED BY <4>1, <4>4
    <3> QED BY <3>1, <1>14, Zenon DEF StartAs
  <2>2. work' \in Work
    BY <1>14, Fresh, Zenon DEF StartAs
  <2> QED BY <1>14, <2>1, <2>2, Zenon DEF StartAs, TypeOK
<1>15. CASE Upgrade
  <2>1. build + 1 \in Version
    BY Bounds, <1>15, <1>b DEF Upgrade, Version
  <2> QED BY <1>15, <2>1, <1>14, <1>b DEF Upgrade
<1>16. CASE Restart
  BY <1>16, <1>14, <1>b, <1>f DEF Restart
<1>17. CASE UNCHANGED vars
  BY <1>17 DEF TypeOK, vars
<1> QED BY <1>1, <1>2, <1>3, <1>4, <1>5, <1>6, <1>7, <1>8, <1>9, <1>10, <1>11, <1>12, <1>13, <1>15, <1>16, <1>17
        DEF Next

-----------------------------------------------------------------------------
(* What a step does to one NodeClaim.                                        *)

SameStamp(c) == claims'[c].hash = claims[c].hash /\ claims'[c].ver = claims[c].ver

SameJudgement(c) == claims'[c].drifted = claims[c].drifted /\ claims'[c].condemned = claims[c].condemned

Refilled(c) ==
  /\ claims'[c].phase = claims[c].phase /\ claims'[c].read = claims[c].read
  /\ SameJudgement(c) /\ claims'[c].ver = build
  /\ work.pc = "backfill"
  /\ \/ work.claims[c].drifted /\ claims'[c].hash = claims[c].hash
     \/ ~work.claims[c].drifted /\ claims'[c].hash = Hash(build, work.class.spec)

Launching(c) ==
  /\ claims[c].phase = "pending" /\ claims'[c].phase = "launching" /\ claims'[c].read = seen.class.spec
  /\ SameStamp(c) /\ SameJudgement(c)

Launched(c) ==
  /\ claims[c].phase = "launching" /\ claims'[c].phase = "running"
  /\ claims'[c].ver = build /\ claims'[c].hash = Hash(build, claims[c].read)
  /\ SameJudgement(c)

Waiting(c) ==
  /\ claims[c].phase \in {"absent", "launching"} /\ claims'[c].phase = "pending"
  /\ SameStamp(c) /\ SameJudgement(c)

Evaluated(c) ==
  /\ claims[c].phase = "running" /\ claims'[c].phase = "running" /\ SameStamp(c)
  /\ claims'[c].drifted => IsDrifted(seen.class, seen.claims[c])
  /\ claims'[c].condemned = "no"

Gone(c) ==
  /\ claims'[c].phase = "gone" /\ ~claims'[c].drifted /\ claims'[c].condemned = "no"
  /\ claims'[c].ver = 0 /\ claims'[c].hash = NoHash

Moved(c) ==
  \/ claims'[c] = claims[c] \/ Refilled(c) \/ Launching(c) \/ Launched(c) \/ Waiting(c) \/ Evaluated(c) \/ Gone(c)

\* A step of one build takes each NodeClaim along one of these moves.
LEMMA Moves ==
  ASSUME TypeOK, Next, ~Upgrade, ~Restart
  PROVE  \A c \in Claim : Moved(c)
<1>1. CASE UNCHANGED claims
  BY <1>1 DEF Moved
<1>2. CASE BackfillOne
  <2>1. PICK c \in work.todo :
          claims' = claims \/ claims' = [claims EXCEPT ![c] = Backfilled(@, work.claims[c])]
    BY <1>2 DEF BackfillOne
  <2>2. c \in Claim /\ work.pc = "backfill"
    BY <1>2, Parts DEF BackfillOne
  <2>3. ASSUME claims' = [claims EXCEPT ![c] = Backfilled(@, work.claims[c])]
        PROVE  Refilled(c) /\ \A d \in Claim \ {c} : claims'[d] = claims[d]
    <3>1. claims'[c] = Backfilled(claims[c], work.claims[c])
      BY <2>2, <2>3 DEF TypeOK
    <3>2. Refilled(c)
      <4>1. CASE work.claims[c].drifted
        BY <3>1, <2>2, <4>1 DEF TypeOK, NodeClaim, Backfilled, Refilled, SameJudgement
      <4>2. CASE ~work.claims[c].drifted
        BY <3>1, <2>2, <4>2 DEF TypeOK, NodeClaim, Backfilled, Refilled, SameJudgement
      <4> QED BY <4>1, <4>2
    <3> QED BY <3>2, <2>3 DEF TypeOK
  <2> QED BY <2>1, <2>3 DEF Moved
<1>3. CASE CreateBegin
  <2>1. PICK c \in Claim :
          /\ claims[c].phase = "pending"
          /\ claims' = [claims EXCEPT ![c].phase = "launching", ![c].read = seen.class.spec]
    BY <1>3, Zenon DEF CreateBegin
  <2>2. \A d \in Claim \ {c} : claims'[d] = claims[d]
    BY <2>1 DEF TypeOK
  <2>3. Launching(c)
    BY <2>1 DEF TypeOK, NodeClaim, Launching, SameStamp, SameJudgement
  <2> QED BY <2>2, <2>3 DEF Moved
<1>4. CASE CreateEnd
  <2>1. PICK c \in Claim :
          /\ claims[c].phase = "launching"
          /\ \/ claims' = [claims EXCEPT ![c] = toNodeClaim(@)]
             \/ claims' = [claims EXCEPT ![c].phase = "pending", ![c].read = 0]
    BY <1>4 DEF CreateEnd
  <2>2. \A d \in Claim \ {c} : claims'[d] = claims[d]
    BY <2>1 DEF TypeOK
  <2>3. ASSUME claims' = [claims EXCEPT ![c] = toNodeClaim(@)] PROVE Launched(c)
    BY <2>1, <2>3 DEF TypeOK, NodeClaim, Launched, toNodeClaim, SameJudgement
  <2>4. ASSUME claims' = [claims EXCEPT ![c].phase = "pending", ![c].read = 0] PROVE Waiting(c)
    BY <2>1, <2>4 DEF TypeOK, NodeClaim, Waiting, SameStamp, SameJudgement
  <2> QED BY <2>1, <2>2, <2>3, <2>4 DEF Moved
<1>5. CASE Evaluate
  <2>1. PICK c \in Claim, ready \in BOOLEAN :
          /\ claims[c].phase = "running"
          /\ claims' = [claims EXCEPT ![c].drifted = ready /\ IsDrifted(seen.class, seen.claims[c]),
                                      ![c].condemned = "no"]
    BY <1>5, Zenon DEF Evaluate
  <2>2. \A d \in Claim \ {c} : claims'[d] = claims[d]
    BY <2>1 DEF TypeOK
  <2>3. claims'[c].phase = "running" /\ SameStamp(c) /\ claims'[c].condemned = "no"
    BY <2>1 DEF TypeOK, NodeClaim, SameStamp
  <2>4. claims'[c].drifted = (ready /\ IsDrifted(seen.class, seen.claims[c]))
    BY <2>1, Zenon DEF TypeOK, NodeClaim
  <2> QED BY <2>1, <2>2, <2>3, <2>4, Zenon DEF Moved, Evaluated
<1>6. CASE Appear
  <2>1. PICK c \in Claim : claims[c].phase = "absent" /\ claims' = [claims EXCEPT ![c].phase = "pending"]
    BY <1>6, Zenon DEF Appear
  <2>2. \A d \in Claim \ {c} : claims'[d] = claims[d]
    BY <2>1 DEF TypeOK
  <2>3. Waiting(c)
    BY <2>1 DEF TypeOK, NodeClaim, Waiting, SameStamp, SameJudgement
  <2> QED BY <2>2, <2>3 DEF Moved
<1>7. CASE Vanish
  <2>1. PICK c \in Claim : claims' = [claims EXCEPT ![c] = [NewClaim EXCEPT !.phase = "gone"]]
    BY <1>7, Zenon DEF Vanish
  <2>2. \A d \in Claim \ {c} : claims'[d] = claims[d]
    BY <2>1 DEF TypeOK
  <2>3. Gone(c)
    BY <2>1 DEF TypeOK, NewClaim, Gone
  <2> QED BY <2>2, <2>3 DEF Moved
<1> QED
  <2>1. UNCHANGED claims \/ BackfillOne \/ CreateBegin \/ CreateEnd \/ Evaluate \/ Appear \/ Vanish
    BY Zenon DEF Next, Reconcile, BackfillEnd, Stamp, Edit, Delete, SyncClass, SyncClaims
  <2> QED BY <2>1, <1>1, <1>2, <1>3, <1>4, <1>5, <1>6, <1>7

\* A start keeps the annotations and the Drifted condition, and cuts the Creates
\* in flight short.
LEMMA Starts ==
  ASSUME TypeOK, NEW v, StartAs(v), NEW c \in Claim
  PROVE  /\ claims'[c].phase = (IF claims[c].phase = "launching" THEN "pending" ELSE claims[c].phase)
         /\ SameStamp(c) /\ claims'[c].drifted = claims[c].drifted
         /\ claims'[c].condemned = "yes" => claims[c].condemned = "yes" \/ (claims[c].drifted /\ Outdone(claims[c]))
<1> DEFINE k == IF claims[c].drifted /\ Outdone(claims[c]) THEN "yes" ELSE claims[c].condemned
           ph == IF claims[c].phase = "launching" THEN "pending" ELSE claims[c].phase
<1>1. claims'[c] = [claims[c] EXCEPT !.phase = ph, !.read = 0, !.condemned = k]
  BY Zenon DEF StartAs
<1> HIDE DEF k, ph
<1>2. /\ claims'[c].phase = ph /\ SameStamp(c) /\ claims'[c].drifted = claims[c].drifted
      /\ claims'[c].condemned = k
  BY <1>1 DEF TypeOK, NodeClaim, SameStamp
<1>3. k = "yes" => claims[c].condemned = "yes" \/ (claims[c].drifted /\ Outdone(claims[c]))
  BY Zenon DEF k
<1> QED BY <1>2, <1>3 DEF ph

-----------------------------------------------------------------------------
(* The steps keep the rest of the invariant.                                 *)

\* A Create in flight goes on having read a revision.
LEMMA ReadStep == TypeOK /\ ReadInv /\ [Next]_vars => ReadInv'
<1> SUFFICES ASSUME TypeOK, ReadInv, [Next]_vars, NEW c \in Claim, claims'[c].phase = "launching"
             PROVE  claims'[c].read \in Revision
  BY DEF ReadInv, Revision
<1>1. CASE Next /\ ~Upgrade /\ ~Restart
  <2>1. Moved(c)
    BY <1>1, Moves
  <2> QED BY <2>1, Parts DEF Moved, Refilled, Launching, Launched, Waiting, Evaluated, Gone, ReadInv
<1>2. CASE Upgrade \/ Restart
  <2>1. PICK v : StartAs(v)
    BY <1>2 DEF Upgrade, Restart
  <2>2. claims'[c].phase # "launching"
    <3>1. claims'[c].phase = IF claims[c].phase = "launching" THEN "pending" ELSE claims[c].phase
      BY <2>1, Zenon DEF StartAs, TypeOK, NodeClaim
    <3> QED BY <3>1
  <2> QED BY <2>2
<1>3. CASE UNCHANGED vars
  BY <1>3 DEF vars, ReadInv
<1> QED BY <1>1, <1>2, <1>3

\* How a step of one build changes the class's version, the informers' copies and
\* the pass.
LEMMA Passes ==
  ASSUME TypeOK, Next, ~Upgrade, ~Restart
  PROVE  /\ build' = build
         /\ class'.ver = class.ver \/ (class'.ver = build /\ work.pc = "stamp")
         /\ seen'.class = seen.class \/ (seen'.class = class /\ class' = class)
         /\ seen'.claims = seen.claims \/ (seen'.claims = claims /\ claims' = claims)
<1>1. build' = build
  BY Zenon DEF Next, Reconcile, BackfillOne, BackfillEnd, Stamp, CreateBegin, CreateEnd, Evaluate,
         Appear, Vanish, Edit, Delete, SyncClass, SyncClaims
<1>2. class'.ver = class.ver \/ (class'.ver = build /\ work.pc = "stamp")
  <2>1. CASE Stamp
    BY <2>1, Zenon DEF Stamp, TypeOK, Class
  <2>2. CASE Edit \/ Delete
    BY <2>2 DEF Edit, Delete, TypeOK, Class
  <2>3. class' = class \/ Stamp \/ Edit \/ Delete
    BY Zenon DEF Next, Reconcile, BackfillOne, BackfillEnd, CreateBegin, CreateEnd, Evaluate,
           Appear, Vanish, SyncClass, SyncClaims
  <2> QED BY <2>1, <2>2, <2>3
<1>3. /\ seen'.class = seen.class \/ (seen'.class = class /\ class' = class)
      /\ seen'.claims = seen.claims \/ (seen'.claims = claims /\ claims' = claims)
  <2>1. CASE seen' = seen
    BY <2>1
  <2>2. CASE SyncClass
    BY <2>2 DEF SyncClass, TypeOK
  <2>3. CASE SyncClaims
    BY <2>3 DEF SyncClaims, TypeOK
  <2>4. seen' = seen \/ SyncClass \/ SyncClaims
    BY Zenon DEF Next, Reconcile, BackfillOne, BackfillEnd, Stamp, CreateBegin, CreateEnd, Evaluate,
           Appear, Vanish, Edit, Delete
  <2> QED BY <2>1, <2>2, <2>3, <2>4
<1> QED BY <1>1, <1>2, <1>3

\* A pass works on the informers' copies it started from.
LEMMA Copies ==
  ASSUME TypeOK, Next, ~Upgrade, ~Restart, work'.pc # "idle"
  PROVE  \/ work'.class = seen.class /\ work'.claims = seen.claims
         \/ work'.class = work.class /\ work'.claims = work.claims /\ work.pc # "idle"
<1>1. CASE Reconcile
  <2>1. CASE work' = NoWork(FALSE)
    BY <2>1 DEF NoWork
  <2>2. CASE work' = work
    BY <2>2
  <2>3. ASSUME NEW pc, NEW todo,
               work' = [NoWork(FALSE) EXCEPT !.pc = pc, !.class = seen.class, !.claims = seen.claims, !.todo = todo]
        PROVE  work'.class = seen.class /\ work'.claims = seen.claims
    BY <2>3 DEF NoWork
  <2> QED BY <1>1, <2>1, <2>2, <2>3, Zenon DEF Reconcile
<1>2. CASE BackfillOne
  BY <1>2, Zenon DEF BackfillOne, TypeOK, Work
<1>3. CASE BackfillEnd
  BY <1>3 DEF BackfillEnd, NoWork, TypeOK, Work
<1>4. CASE Stamp
  BY <1>4 DEF Stamp, NoWork
<1>5. CASE work' = work \/ work' = [work EXCEPT !.queued = TRUE]
  BY <1>5 DEF TypeOK, Work
<1> QED BY <1>1, <1>2, <1>3, <1>4, <1>5, Zenon
        DEF Next, CreateBegin, CreateEnd, Evaluate, Appear, Vanish, Edit, Delete, SyncClass, SyncClaims

\* A NodeClaim the build has yet to stamp was so before the step.
LEMMA StaleBefore ==
  ASSUME TypeOK, Next, ~Upgrade, ~Restart, NEW c \in Claim, Stale(c)'
  PROVE  Stale(c)
<1>1. Moved(c) /\ build' = build
  BY Moves, Passes
<1> QED BY <1>1 DEF Moved, Refilled, Launching, Launched, Waiting, Evaluated, Gone, SameStamp, Stale

\* The back-fill stays complete.
LEMMA FillStep == TypeOK /\ FillInv /\ [Next]_vars => FillInv'
<1> SUFFICES ASSUME TypeOK, FillInv, [Next]_vars PROVE FillInv'
  OBVIOUS
<1>1. CASE Next /\ ~Upgrade /\ ~Restart
  <2>0. /\ build' = build
        /\ class'.ver = class.ver \/ (class'.ver = build /\ work.pc = "stamp")
        /\ seen'.class = seen.class \/ (seen'.class = class /\ class' = class)
        /\ seen'.claims = seen.claims \/ (seen'.claims = claims /\ claims' = claims)
    BY <1>1, Passes
  <2>1. (class.ver <= build)'
    BY <2>0 DEF FillInv, TypeOK, Version
  <2>2. (seen.class.ver = build => class.ver = build)'
    BY <2>0 DEF FillInv
  <2>3. ASSUME NEW c \in Claim, Stale(c)'
        PROVE  (/\ seen.claims[c].phase = "running" /\ seen.claims[c].ver # build
                /\ class.ver # build
                /\ work.pc # "stamp"
                /\ work.pc = "backfill" => work.errs \/ c \in work.todo)'
    <3>1. Stale(c)
      BY <1>1, <2>3, StaleBefore
    <3>2. /\ seen.claims[c].phase = "running" /\ seen.claims[c].ver # build
          /\ class.ver # build /\ seen.class.ver # build
          /\ work.pc # "stamp"
          /\ work.pc = "backfill" => work.errs \/ c \in work.todo
      BY <3>1 DEF FillInv
    <3>3. seen'.claims[c].phase = "running" /\ seen'.claims[c].ver # build'
      BY <2>0, <2>3, <3>2 DEF Stale
    <3>4. class'.ver # build'
      BY <2>0, <3>2
    <3>5. work'.pc # "stamp" /\ (work'.pc = "backfill" => work'.errs \/ c \in work'.todo)
      <4>1. CASE Reconcile
        <5>1. c \in Outdated
          BY <3>2 DEF Outdated, Exists
        <5>2. CASE work' = NoWork(FALSE)
          BY <5>2 DEF NoWork
        <5>3. CASE work' = work
          BY <5>3, <3>2
        <5>4. CASE work' = [NoWork(FALSE) EXCEPT !.pc = "backfill", !.class = seen.class, !.claims = seen.claims, !.todo = Outdated]
          BY <5>4, <5>1 DEF NoWork
        <5> QED BY <4>1, <3>2, <5>2, <5>3, <5>4, Zenon DEF Reconcile
      <4>2. CASE BackfillOne
        <5>1. PICK d \in work.todo :
                \/ /\ claims' = IF Exists(claims[d]) THEN [claims EXCEPT ![d] = Backfilled(@, work.claims[d])] ELSE claims
                   /\ work' = [work EXCEPT !.todo = @ \ {d}]
                \/ work' = [work EXCEPT !.todo = @ \ {d}, !.errs = TRUE]
          BY <4>2, Zenon DEF BackfillOne
        <5>2. CASE work' = [work EXCEPT !.todo = @ \ {d}, !.errs = TRUE]
          BY <5>2, <3>2 DEF TypeOK, Work
        <5>3. CASE /\ claims' = IF Exists(claims[d]) THEN [claims EXCEPT ![d] = Backfilled(@, work.claims[d])] ELSE claims
                   /\ work' = [work EXCEPT !.todo = @ \ {d}]
          <6>1. c # d
            <7> SUFFICES ASSUME c = d PROVE FALSE
              OBVIOUS
            <7>1. claims'[c] = Backfilled(claims[c], work.claims[c])
              BY <5>3, <3>1 DEF Exists, Stale, TypeOK
            <7>2. claims'[c].ver = build
              BY <7>1 DEF Backfilled, TypeOK, NodeClaim
            <7> QED BY <7>2, <2>0, <2>3 DEF Stale
          <6>2. /\ work'.pc = work.pc /\ work'.errs = work.errs /\ work'.todo = work.todo \ {d}
            BY <5>3 DEF TypeOK, Work
          <6> QED BY <6>1, <6>2, <3>2
        <5> QED BY <5>1, <5>2, <5>3
      <4>3. CASE BackfillEnd
        <5>1. work.errs
          BY <4>3, <3>2 DEF BackfillEnd
        <5> QED BY <4>3, <5>1 DEF BackfillEnd, NoWork
      <4>4. CASE work' = work \/ work' = [work EXCEPT !.queued = TRUE]
        BY <4>4, <3>2 DEF TypeOK, Work
      <4>5. ~Stamp
        BY <3>2, Zenon DEF Stamp
      <4> QED BY <1>1, <4>1, <4>2, <4>3, <4>4, <4>5, Zenon
              DEF Next, CreateBegin, CreateEnd, Evaluate, Appear, Vanish, Edit, Delete, SyncClass, SyncClaims
    <3> QED BY <3>3, <3>4, <3>5
  <2> QED BY <2>1, <2>2, <2>3 DEF FillInv
<1>2. CASE Upgrade \/ Restart
  <2>0. PICK v \in Version : StartAs(v) /\ (v = build \/ v = build + 1)
    <3>1. build \in Version
      BY DEF TypeOK
    <3>2. build < MaxVersion => build + 1 \in Version
      BY <3>1, Bounds DEF Version
    <3> QED BY <1>2, <3>1, <3>2 DEF Upgrade, Restart
  <2>a. class.ver <= v
    <3>1. class.ver \in Nat /\ build \in Nat /\ class.ver <= build
      BY Bounds, Parts DEF TypeOK, Version, FillInv
    <3> QED BY <2>0, <3>1
  <2>1. /\ build' = v /\ class' = class /\ seen'.class = class /\ seen'.claims = claims'
        /\ work'.pc = "idle" /\ class.ver <= v
    BY <2>0, <2>a, Zenon DEF StartAs, NoWork
  <2>2. ASSUME NEW c \in Claim, Stale(c)' PROVE class.ver # v
    <3>1. claims[c].phase = "running" /\ claims[c].ver # v
      BY <2>0, <2>1, <2>2, Starts DEF Stale, SameStamp
    <3>2. CASE v = build
      BY <3>1, <3>2 DEF FillInv, Stale
    <3>3. CASE v = build + 1
      BY <3>3 DEF FillInv, TypeOK, Version, Class
    <3> QED BY <2>0, <3>2, <3>3
  <2> QED BY <2>1, <2>2 DEF FillInv, Stale
<1>3. CASE UNCHANGED vars
  BY <1>3 DEF vars, FillInv, Stale
<1> QED BY <1>1, <1>2, <1>3

\* An upgrade stays quiet.
LEMMA QuietStep == TypeOK /\ FillInv /\ QuietInv /\ [Next]_vars => QuietInv'
<1> SUFFICES ASSUME TypeOK, FillInv, QuietInv, [Next]_vars, class'.spec = 1 PROVE QuietInv'
  BY DEF QuietInv
<1>0. class.spec = 1
  <2>1. CASE Edit
    BY <2>1, Parts DEF Edit, TypeOK, Class, Revision
  <2>2. CASE Stamp
    BY <2>2, Zenon DEF Stamp, TypeOK, Class
  <2>3. CASE Delete
    BY <2>3 DEF Delete, TypeOK, Class
  <2>4. CASE class' = class
    BY <2>4
  <2> QED BY <2>1, <2>2, <2>3, <2>4, Zenon DEF Next, vars, Reconcile, BackfillOne, BackfillEnd, CreateBegin, CreateEnd,
             Evaluate, Appear, Vanish, SyncClass, SyncClaims, Upgrade, Restart, StartAs
<1>a. /\ seen.class.spec = 1 /\ Uniform(class) /\ Uniform(seen.class)
      /\ \A c \in Claim : Untouched(claims[c]) /\ Untouched(seen.claims[c])
  BY <1>0 DEF QuietInv
<1>b. ASSUME work.pc # "idle"
      PROVE  /\ work.class.spec = 1 /\ Uniform(work.class)
             /\ work.class.ver = build => class.ver = build
             /\ \A c \in Claim : ~work.claims[c].drifted
  BY <1>0, <1>b DEF QuietInv
<1>c. build \in Version /\ build # 0
  BY DEF TypeOK, Version
\* Nothing is found drifted by its hash.
<1>d. \A c \in Claim : ~IsDrifted(seen.class, seen.claims[c])
  BY <1>a, <1>c DEF IsDrifted, nodeClassHashDrift, Untouched, Uniform
<1>1. CASE Next /\ ~Upgrade /\ ~Restart
  <2>0. /\ build' = build
        /\ seen'.class = seen.class \/ (seen'.class = class /\ class' = class)
        /\ seen'.claims = seen.claims \/ (seen'.claims = claims /\ claims' = claims)
    BY <1>1, Passes
  <2>1. ASSUME NEW c \in Claim PROVE Untouched(claims'[c])
    <3>1. Moved(c)
      BY <1>1, Moves
    <3>2. CASE Refilled(c)
      BY <3>2, <1>a, <1>b DEF Refilled, SameJudgement, Untouched, Uniform
    <3>3. CASE Launching(c)
      BY <3>3, <1>a DEF Launching, SameStamp, SameJudgement, Untouched, Uniform
    <3>4. CASE Launched(c)
      BY <3>4, <1>a DEF Launched, SameJudgement, Untouched, Uniform
    <3>5. CASE Waiting(c)
      BY <3>5, <1>a DEF Waiting, SameStamp, SameJudgement, Untouched, Uniform
    <3>6. CASE Evaluated(c)
      BY <3>6, <1>a, <1>d DEF Evaluated, SameStamp, Untouched, Uniform
    <3>7. CASE Gone(c)
      BY <3>7 DEF Gone, Untouched, Uniform
    <3> QED BY <3>1, <3>2, <3>3, <3>4, <3>5, <3>6, <3>7, <1>a DEF Moved
  <2>2. Uniform(class') /\ (class.ver = build => class'.ver = build)
    <3>1. CASE Stamp
      <4>1. work.class.spec = 1 /\ Uniform(work.class) /\ (work.class.ver = build => class.ver = build)
        BY <3>1, <1>b DEF Stamp
      <4>2. CASE class' = class
        BY <4>2, <1>a
      <4>3. CASE class' = [class EXCEPT !.hash = IF work.class.hash = Hash(build, 1) THEN @ ELSE Hash(build, 1),
                                        !.ver = IF work.class.ver = build THEN @ ELSE build]
        <5>1. class'.ver = build
          BY <4>1, <4>3 DEF TypeOK, Class
        <5>2. class'.hash = IF work.class.hash = Hash(build, 1) THEN class.hash ELSE Hash(build, 1)
          BY <4>3 DEF TypeOK, Class
        <5>3. work.class.hash = Hash(build, 1) => class.hash = Hash(build, 1)
          BY <4>1, <1>a, <1>c DEF Uniform, Hash, NoHash
        <5> QED BY <5>1, <5>2, <5>3 DEF Uniform
      <4> QED BY <3>1, <4>1, <4>2, <4>3, Zenon DEF Stamp
    <3>2. CASE Edit \/ Delete
      BY <3>2, <1>a DEF Edit, Delete, TypeOK, Class, Uniform
    <3>3. CASE class' = class
      BY <3>3, <1>a
    <3> QED BY <1>1, <3>1, <3>2, <3>3, Zenon DEF Next, Reconcile, BackfillOne, BackfillEnd, CreateBegin, CreateEnd,
               Evaluate, Appear, Vanish, SyncClass, SyncClaims
  <2>3. ASSUME work'.pc # "idle"
        PROVE  /\ work'.class.spec = 1 /\ Uniform(work'.class)
               /\ work'.class.ver = build' => class'.ver = build'
               /\ \A c \in Claim : ~work'.claims[c].drifted
    <3>1. CASE work'.class = seen.class /\ work'.claims = seen.claims
      BY <3>1, <1>a, <2>0, <2>2 DEF FillInv, Untouched
    <3>2. CASE work'.class = work.class /\ work'.claims = work.claims /\ work.pc # "idle"
      BY <3>2, <1>b, <2>0, <2>2
    <3>3. \/ work'.class = seen.class /\ work'.claims = seen.claims
          \/ work'.class = work.class /\ work'.claims = work.claims /\ work.pc # "idle"
      BY <1>1, <2>3, Copies
    <3> QED BY <3>1, <3>2, <3>3
  <2>4. seen'.class.spec = 1 /\ Uniform(seen'.class)
    BY <2>0, <1>0, <1>a
  <2>5. \A c \in Claim : Untouched(seen'.claims[c])
    BY <2>0, <1>a
  <2> QED BY <2>1, <2>2, <2>3, <2>4, <2>5 DEF QuietInv, Uniform, Untouched
<1>2. CASE Upgrade \/ Restart
  <2>0. PICK v : StartAs(v)
    BY <1>2 DEF Upgrade, Restart
  <2>1. class' = class /\ seen'.class = class /\ seen'.claims = claims' /\ work'.pc = "idle"
    BY <2>0, Zenon DEF StartAs, NoWork
  <2>2. ASSUME NEW c \in Claim PROVE Untouched(claims'[c])
    <3>1. /\ claims'[c].phase = (IF claims[c].phase = "launching" THEN "pending" ELSE claims[c].phase)
          /\ SameStamp(c) /\ claims'[c].drifted = claims[c].drifted
      BY <2>0, Starts
    <3> QED BY <3>1, <1>a DEF Untouched, Uniform, SameStamp
  <2> QED BY <2>1, <2>2, <1>0, <1>a DEF QuietInv, Uniform, Untouched
<1>3. CASE UNCHANGED vars
  BY <1>3 DEF vars, QuietInv, Uniform, Untouched
<1> QED BY <1>1, <1>2, <1>3

\* A hash is NoHash, or names its generator and its revision.
LEMMA HashParts ==
  /\ NoHash[1] = 0 /\ NoHash[2] = 0
  /\ \A v, s : Hash(v, s)[1] = v /\ Hash(v, s)[2] = s
  /\ \A h \in Hashes : h[1] \in 0 .. MaxVersion /\ h[2] \in 0 .. MaxSpec /\ h = Hash(h[1], h[2])
<1>1. NoHash[1] = 0 /\ NoHash[2] = 0 /\ NoHash = Hash(0, 0)
  BY DEF NoHash, Hash
<1>2. \A v, s : Hash(v, s)[1] = v /\ Hash(v, s)[2] = s
  BY DEF Hash
<1>3. ASSUME NEW h \in Hashes
      PROVE  h[1] \in 0 .. MaxVersion /\ h[2] \in 0 .. MaxSpec /\ h = Hash(h[1], h[2])
  <2>1. CASE h = NoHash
    BY <2>1, <1>1, Bounds
  <2>2. ASSUME NEW v \in Version, NEW s \in Revision, h = Hash(v, s)
        PROVE  h[1] \in 0 .. MaxVersion /\ h[2] \in 0 .. MaxSpec /\ h = Hash(h[1], h[2])
    BY <2>2, <1>2, Bounds
  <2> QED BY <2>1, <2>2 DEF Hashes
<1> QED BY <1>1, <1>2, <1>3

\* How a step of one build changes the class: an edit adds a revision, a stamp
\* leaves both annotations of the running build, and only what differs from the
\* pass's copy is written.
LEMMA ClassMoves ==
  ASSUME TypeOK, HashInv, Next, ~Upgrade, ~Restart
  PROVE  /\ class.spec <= class'.spec
         /\ class'.hash[1] = class'.ver
         /\ class.ver = build => class'.ver = build
         /\ \/ class'.hash = class.hash /\ class'.ver = class.ver
            \/ /\ work.pc = "stamp" /\ class'.hash = Hash(build, work.class.spec)
               /\ class'.ver = build
<1>0. class.spec \in Nat /\ build # 0
  BY Parts, Bounds DEF TypeOK, Revision, Version
<1>1. CASE Stamp
  <2> DEFINE hash == Hash(build, work.class.spec)
  <2>1. /\ work.pc = "stamp" /\ work.class.hash[1] = work.class.ver
        /\ work.class.ver = build => class.ver = build
        /\ class.hash[1] = class.ver /\ hash[1] = build
    BY <1>1, HashParts DEF Stamp, HashInv
  <2>2. CASE class' = class
    BY <2>1, <2>2, <1>0
  <2>3. CASE class' = [class EXCEPT !.hash = IF work.class.hash = hash THEN @ ELSE hash,
                                    !.ver = IF work.class.ver = build THEN @ ELSE build]
    <3>1. /\ class'.spec = class.spec
          /\ class'.hash = IF work.class.hash = hash THEN class.hash ELSE hash
          /\ class'.ver = IF work.class.ver = build THEN class.ver ELSE build
      BY <2>3 DEF TypeOK, Class
    <3>2. work.class.hash = hash => work.class.ver = build
      BY <2>1
    <3> HIDE DEF hash
    <3>3. class'.ver = build /\ class'.hash[1] = build
      BY <2>1, <3>1, <3>2
    <3> QED BY <2>1, <3>1, <3>2, <3>3, <1>0 DEF hash
  <2> QED BY <1>1, <2>2, <2>3, Zenon DEF Stamp
<1>2. CASE Edit
  BY <1>2, <1>0 DEF Edit, TypeOK, Class, HashInv
<1>3. CASE Delete
  BY <1>3, <1>0 DEF Delete, TypeOK, Class, HashInv
<1>4. CASE class' = class
  BY <1>4, <1>0 DEF HashInv
<1> QED BY <1>1, <1>2, <1>3, <1>4, Zenon DEF Next, Reconcile, BackfillOne, BackfillEnd, CreateBegin, CreateEnd,
           Evaluate, Appear, Vanish, SyncClass, SyncClaims

\* Hashes go on coming from revisions that have been.
LEMMA HashStep == TypeOK /\ ReadInv /\ FillInv /\ HashInv /\ [Next]_vars => HashInv'
<1> SUFFICES ASSUME TypeOK, ReadInv, FillInv, HashInv, [Next]_vars PROVE HashInv'
  OBVIOUS
<1>0. /\ class.spec \in Nat /\ seen.class.spec \in Nat /\ work.class.spec \in Nat /\ build \in Nat /\ build # 0
      /\ \A c \in Claim : claims[c].hash[1] \in Nat /\ claims[c].hash[2] \in Nat
  BY Parts, Bounds, HashParts DEF TypeOK, Revision, Version, NodeClaim
<1>1. CASE Next /\ ~Upgrade /\ ~Restart
  <2>0. /\ build' = build
        /\ seen'.class = seen.class \/ (seen'.class = class /\ class' = class)
    BY <1>1, Passes
  <2>1. /\ class.spec <= class'.spec /\ class'.hash[1] = class'.ver
        /\ class.ver = build => class'.ver = build
    BY <1>1, ClassMoves
  <2>t. class'.spec \in Nat
    BY TypeStep, Parts, Bounds DEF TypeOK, Class, Revision
  <2>2. seen'.class.spec <= class'.spec /\ seen'.class.hash[1] = seen'.class.ver
    BY <2>0, <2>1, <2>t, <1>0 DEF HashInv
  <2>3. ASSUME work'.pc # "idle"
        PROVE  /\ work'.class.spec <= class'.spec /\ work'.class.hash[1] = work'.class.ver
               /\ work'.class.ver = build' => class'.ver = build'
    <3>1. \/ work'.class = seen.class
          \/ work'.class = work.class /\ work.pc # "idle"
      BY <1>1, <2>3, Copies
    <3> QED BY <3>1, <2>0, <2>1, <2>t, <1>0 DEF HashInv, FillInv
  <2>4. ASSUME NEW c \in Claim
        PROVE  /\ claims'[c].hash[1] <= build' /\ claims'[c].hash[2] <= class'.spec
               /\ claims'[c].phase = "launching" => claims'[c].read <= class'.spec
               /\ claims'[c].phase = "running" => claims'[c].hash[1] # 0
               /\ claims'[c].drifted => claims'[c].phase = "running"
    <3>1. Moved(c)
      BY <1>1, Moves
    <3>2. /\ claims[c].hash[1] <= build /\ claims[c].hash[2] <= class.spec
          /\ claims[c].phase = "launching" => claims[c].read <= class.spec /\ claims[c].read \in Nat
          /\ claims[c].phase = "running" => claims[c].hash[1] # 0
          /\ claims[c].drifted => claims[c].phase = "running"
      BY Bounds DEF HashInv, ReadInv, Revision
    <3>3. CASE claims'[c] = claims[c]
      BY <3>3, <3>2, <2>0, <2>1, <2>t, <1>0
    <3>4. CASE Refilled(c)
      <4>1. work.class.spec <= class.spec
        BY <3>4 DEF Refilled, HashInv
      <4>2. claims'[c].hash = claims[c].hash \/ (claims'[c].hash[1] = build /\ claims'[c].hash[2] = work.class.spec)
        BY <3>4, HashParts DEF Refilled
      <4> QED BY <3>4, <4>1, <4>2, <3>2, <2>0, <2>1, <2>t, <1>0 DEF Refilled, SameJudgement
    <3>5. CASE Launching(c)
      BY <3>5, <3>2, <2>0, <2>1, <2>t, <1>0 DEF Launching, SameStamp, SameJudgement, HashInv
    <3>6. CASE Launched(c)
      <4>1. claims'[c].hash[1] = build /\ claims'[c].hash[2] = claims[c].read
        BY <3>6, HashParts DEF Launched
      <4> QED BY <3>6, <4>1, <3>2, <2>0, <2>1, <2>t, <1>0 DEF Launched, SameJudgement
    <3>7. CASE Waiting(c)
      BY <3>7, <3>2, <2>0, <2>1, <2>t, <1>0 DEF Waiting, SameStamp, SameJudgement
    <3>8. CASE Evaluated(c)
      BY <3>8, <3>2, <2>0, <2>1, <2>t, <1>0 DEF Evaluated, SameStamp
    <3>9. CASE Gone(c)
      BY <3>9, HashParts, <2>0, <2>1, <2>t, <1>0 DEF Gone
    <3> QED BY <3>1, <3>3, <3>4, <3>5, <3>6, <3>7, <3>8, <3>9 DEF Moved
  <2> QED BY <2>1, <2>2, <2>3, <2>4 DEF HashInv
<1>2. CASE Upgrade \/ Restart
  <2>0. PICK v \in Nat : StartAs(v) /\ build <= v
    BY <1>2, <1>0 DEF Upgrade, Restart
  <2>1. build' = v /\ class' = class /\ seen'.class = class /\ work'.pc = "idle"
    BY <2>0, Zenon DEF StartAs, NoWork
  <2>2. ASSUME NEW c \in Claim
        PROVE  /\ claims'[c].hash[1] <= build' /\ claims'[c].hash[2] <= class'.spec
               /\ claims'[c].phase = "launching" => claims'[c].read <= class'.spec
               /\ claims'[c].phase = "running" => claims'[c].hash[1] # 0
               /\ claims'[c].drifted => claims'[c].phase = "running"
    <3>1. /\ claims'[c].phase = (IF claims[c].phase = "launching" THEN "pending" ELSE claims[c].phase)
          /\ SameStamp(c) /\ claims'[c].drifted = claims[c].drifted
      BY <2>0, Starts
    <3> QED BY <3>1, <2>0, <2>1, <1>0 DEF SameStamp, HashInv
  <2> QED BY <2>1, <2>2, <1>0 DEF HashInv
<1>3. CASE UNCHANGED vars
  BY <1>3 DEF vars, HashInv
<1> QED BY <1>1, <1>2, <1>3

\* The condemned stay drifted.
LEMMA CondemnedStep == TypeOK /\ FillInv /\ HashInv /\ CondemnedInv /\ [Next]_vars => CondemnedInv'
<1> SUFFICES ASSUME TypeOK, FillInv, HashInv, CondemnedInv, [Next]_vars, NEW c \in Claim, claims'[c].condemned = "yes"
             PROVE  (/\ claims[c].drifted /\ seen.claims[c].drifted
                     /\ claims[c].hash[1] = build => claims[c].hash[2] < seen.class.spec
                     /\ class.ver = build => class.hash # claims[c].hash
                     /\ work.pc # "idle" =>
                          /\ work.claims[c].drifted
                          /\ claims[c].hash[1] = build => claims[c].hash[2] < work.class.spec)'
  BY DEF CondemnedInv
<1>0. /\ class.spec \in Nat /\ seen.class.spec \in Nat /\ work.class.spec \in Nat /\ build \in Nat
      /\ claims[c].hash[1] \in Nat /\ claims[c].hash[2] \in Nat /\ claims[c].hash[1] <= build
      /\ claims[c].hash[2] <= class.spec /\ class.ver \in Nat /\ class.ver <= build
      /\ claims[c].hash = Hash(claims[c].hash[1], claims[c].hash[2])
  BY Parts, Bounds, HashParts DEF TypeOK, Revision, Version, NodeClaim, HashInv, FillInv
<1>a. ASSUME claims[c].condemned = "yes"
      PROVE  /\ claims[c].drifted /\ seen.claims[c].drifted
             /\ claims[c].hash[1] = build => claims[c].hash[2] < seen.class.spec
             /\ class.ver = build => class.hash # claims[c].hash
             /\ work.pc # "idle" =>
                  /\ work.claims[c].drifted
                  /\ claims[c].hash[1] = build => claims[c].hash[2] < work.class.spec
  BY <1>a DEF CondemnedInv
<1>1. CASE Next /\ ~Upgrade /\ ~Restart
  <2>0. /\ build' = build
        /\ seen'.class = seen.class \/ (seen'.class = class /\ class' = class)
        /\ seen'.claims = seen.claims \/ (seen'.claims = claims /\ claims' = claims)
    BY <1>1, Passes
  <2>1. claims[c].condemned = "yes" /\ claims'[c].drifted = claims[c].drifted /\ claims'[c].hash = claims[c].hash
    <3>1. Moved(c)
      BY <1>1, Moves
    <3>2. ~Evaluated(c) /\ ~Gone(c)
      BY DEF Evaluated, Gone
    <3>3. claims[c].condemned = "yes" /\ claims'[c].drifted = claims[c].drifted
      BY <3>1, <3>2 DEF Moved, Refilled, Launching, Launched, Waiting, SameJudgement
    <3>4. claims[c].phase = "running"
      BY <3>3, <1>a DEF HashInv
    <3>5. Refilled(c) => claims'[c].hash = claims[c].hash
      BY <3>3, <1>a DEF Refilled
    <3> QED BY <3>1, <3>2, <3>3, <3>4, <3>5 DEF Moved, Launching, Launched, Waiting
  <2>2. seen'.claims[c].drifted
    BY <2>0, <2>1, <1>a
  <2>3. claims'[c].hash[1] = build' => claims'[c].hash[2] < seen'.class.spec
    <3>1. seen.class.spec <= class.spec
      BY DEF HashInv
    <3> QED BY <3>1, <2>0, <2>1, <1>a, <1>0
  <2>4. class'.ver = build' => class'.hash # claims'[c].hash
    <3>1. \/ class'.hash = class.hash /\ class'.ver = class.ver
          \/ work.pc = "stamp" /\ class'.hash = Hash(build, work.class.spec)
      BY <1>1, ClassMoves
    <3>2. work.pc = "stamp" => Hash(build, work.class.spec) # claims[c].hash
      BY <2>1, <1>a, <1>0, HashParts
    <3> QED BY <3>1, <3>2, <2>0, <2>1, <1>a
  <2>5. ASSUME work'.pc # "idle"
        PROVE  /\ work'.claims[c].drifted
               /\ claims'[c].hash[1] = build' => claims'[c].hash[2] < work'.class.spec
    <3>1. \/ work'.class = seen.class /\ work'.claims = seen.claims
          \/ work'.class = work.class /\ work'.claims = work.claims /\ work.pc # "idle"
      BY <1>1, <2>5, Copies
    <3> QED BY <3>1, <2>0, <2>1, <1>a
  <2> QED BY <2>1, <2>2, <2>3, <2>4, <2>5, <1>a
<1>2. CASE Upgrade \/ Restart
  <2>0. PICK v \in Nat : StartAs(v) /\ (v = build \/ v = build + 1)
    BY <1>2, <1>0 DEF Upgrade, Restart
  <2>1. build' = v /\ class' = class /\ seen'.class = class /\ seen'.claims = claims' /\ work'.pc = "idle"
    BY <2>0, Zenon DEF StartAs, NoWork
  <2>2. /\ SameStamp(c) /\ claims'[c].drifted = claims[c].drifted
        /\ claims[c].condemned = "yes" \/ (claims[c].drifted /\ Outdone(claims[c]))
    BY <2>0, Starts
  <2>3. claims'[c].drifted /\ seen'.claims[c].drifted
    BY <2>1, <2>2, <1>a
  <2>4. claims'[c].hash[1] = build' => claims'[c].hash[2] < seen'.class.spec
    <3>1. CASE v = build + 1
      BY <3>1, <2>1, <2>2, <1>0 DEF SameStamp
    <3>2. CASE v = build /\ claims[c].condemned = "yes"
      BY <3>2, <2>1, <2>2, <1>a, <1>0 DEF SameStamp, HashInv
    <3>3. CASE v = build /\ Outdone(claims[c])
      <4>1. claims[c].hash # Hash(build, class.spec)
        BY <3>3 DEF Outdone
      <4>2. claims[c].hash[1] = build => claims[c].hash[2] # class.spec
        BY <4>1, <1>0
      <4> QED BY <3>3, <4>2, <2>1, <2>2, <1>0 DEF SameStamp
    <3> QED BY <2>0, <2>2, <3>1, <3>2, <3>3
  <2>5. class'.ver = build' => class'.hash # claims'[c].hash
    <3>1. CASE v = build + 1
      BY <3>1, <2>1, <1>0
    <3>2. CASE v = build
      BY <3>2, <2>1, <2>2, <1>a DEF SameStamp, Outdone, IsDrifted, nodeClassHashDrift
    <3> QED BY <2>0, <3>1, <3>2
  <2> QED BY <2>1, <2>3, <2>4, <2>5
<1>3. CASE UNCHANGED vars
  BY <1>3, <1>a DEF vars
<1> QED BY <1>1, <1>2, <1>3

-----------------------------------------------------------------------------
(* The theorems.                                                             *)

\* The inductive invariant holds of every behaviour.
THEOREM Invariance == Spec => []Inv
<1>1. Inv /\ [Next]_vars => Inv'
  BY TypeStep, ReadStep, FillStep, QuietStep, HashStep, CondemnedStep DEF Inv
<1> QED BY InitInv, <1>1, PTL DEF Spec

\* The state keeps its types: in particular no NodeClaim and no class ever carries
\* the hash of a spec that was never read.
THEOREM TypeCorrect == Spec => []TypeOK
<1>1. Inv => TypeOK
  BY DEF Inv
<1> QED BY Invariance, <1>1, PTL

\* backfill before stamp: once the class carries the running build's version, so
\* does every NodeClaim that has launched.
THEOREM BackfillReachesAll == Spec => []BackfillIsComplete
<1>1. Inv => BackfillIsComplete
  BY DEF Inv, FillInv, Stale, BackfillIsComplete
<1> QED BY Invariance, <1>1, PTL

\* A controller upgrade alone replaces nothing: while the spec is unedited no
\* NodeClaim is found drifted by its hash, for any number of generators,
\* NodeClaims, failed patches and restarts.
THEOREM UpgradeIsQuiet == Spec => []UpgradeNeverDrifts
<1>1. Inv => UpgradeNeverDrifts
  BY Bounds, Zenon DEF Inv, TypeOK, Version, QuietInv, UpgradeNeverDrifts, IsDrifted, nodeClassHashDrift, Untouched, Uniform
<1> QED BY Invariance, <1>1, PTL

\* "Re-stamping would un-drift it": a NodeClaim rightly Drifted when the process
\* started is found drifted whenever its hash can be compared with the class's,
\* whatever is edited, back-filled and restarted meanwhile.
THEOREM CondemnedAreReplaced == Spec => []CondemnedStaysDrifted
<1>1. Inv => CondemnedStaysDrifted
  <2> SUFFICES ASSUME Inv, NEW c \in Claim, claims[c].condemned = "yes", Comparable(c)
               PROVE  IsDrifted(class, claims[c])
    BY DEF CondemnedStaysDrifted
  <2>1. class.hash # claims[c].hash /\ class.hash[1] = build /\ claims[c].hash[1] # 0 /\ build # 0
    BY DEF Inv, CondemnedInv, HashInv, Comparable, TypeOK, Version
  <2>2. class.hash # NoHash /\ claims[c].hash # NoHash
    BY <2>1, HashParts
  <2> QED BY <2>1, <2>2 DEF Comparable, IsDrifted, nodeClassHashDrift
<1> QED BY Invariance, <1>1, PTL
=============================================================================
