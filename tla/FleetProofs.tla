----------------------------- MODULE FleetProofs -----------------------------
(***************************************************************************)
(* Proofs about the instance provider: Fleet, for every number of          *)
(* NodeClaims, servers, candidates and faults, and every minAge longer     *)
(* than the informer's lag and a sweep together; and Reboot, for every     *)
(* page size and any number of operations, faults and actions of others.   *)
(***************************************************************************)
EXTENDS Fleet, Reboot, FiniteSetTheorems, TLAPS

\* One NodeClaim with its worker.  A worker that is busy belongs to a NodeClaim
\* that exists and that the informer has delivered; an id it holds, or has
\* recorded, was handed out and belongs to a server made for it; what it is
\* about to delete was ours when it looked.
ClaimOK(c) ==
  /\ claims[c].phase = "absent" => claims[c].age = 0
  /\ c \in unseen => Exists(c) /\ claims[c].age <= MaxLag
  /\ work[c].pc # "idle" => c \notin unseen /\ Exists(c)
  /\ work[c].sid # 0 => project[work[c].sid].state # "none"
  /\ claims[c].pid # 0 => project[claims[c].pid].state # "none"
  /\ Up(work[c].sid) => project[work[c].sid].label = c
  /\ Up(claims[c].pid) => project[claims[c].pid].label = c
  /\ Up(work[c].sid) /\ work[c].pc \in {"wait", "cleanup", "reread"} => Attempt(c, project[work[c].sid].kind)
  /\ Up(work[c].sid) /\ work[c].pc = "created" => work[c].kind \in {0, project[work[c].sid].kind}
  /\ Up(claims[c].pid) => claims[c].kind \in {0, project[claims[c].pid].kind}
  /\ Up(work[c].sid) /\ work[c].pc \in {"wait", "cleanup"} => project[work[c].sid].owner # "other"
  /\ Up(claims[c].pid) /\ work[c].pc = "delete" => project[claims[c].pid].owner # "other"
  /\ claims[c].phase = "gone" => ~Up(claims[c].pid)

\* A server is never older than the NodeClaim it was made for.
ServerOK(s) ==
  Up(s) /\ project[s].label \in Claim =>
    /\ claims[project[s].label].phase # "absent"
    /\ Exists(project[s].label) /\ claims[project[s].label].age <= MaxLag =>
         project[s].age <= claims[project[s].label].age

\* A listed server whose NodeClaim exists, unknown to the sweep, is young.
SweepOK ==
  /\ \A s \in gc.servers : project[s].state # "none"
  /\ gc.pc \in {"sweep", "delete"} =>
       \A s \in gc.servers :
         Up(s) /\ project[s].label \in Claim /\ Exists(project[s].label) /\ project[s].label \notin gc.live =>
           project[s].age <= MaxLag + gc.age
  /\ gc.pc = "delete" => gc.cur \in gc.servers /\ (Up(gc.cur) => project[gc.cur].owner # "other")
  /\ gc.pc = "delete" /\ Up(gc.cur) => project[gc.cur].label \in Claim /\ ~Exists(project[gc.cur].label)

IInv == TypeOK /\ (\A c \in Claim : ClaimOK(c)) /\ (\A s \in ServerId : ServerOK(s)) /\ SweepOK

-----------------------------------------------------------------------------
(* Steps that make no server and do not touch the sweep                    *)

\* Servers only leave the project.
Shrinks ==
  \A s \in ServerId :
    \/ project'[s] = project[s]
    \/ project[s].state # "none" /\ project'[s].state \in {"deleted", "removed"}

\* No NodeClaim comes back, and none grows younger or older.
Calm ==
  \A c \in Claim : claims[c].phase # "absent" =>
    /\ claims'[c].phase # "absent"
    /\ Exists(c)' => Exists(c) /\ claims'[c].age = claims[c].age

\* 0, the missing providerID, is no server's id.
LEMMA ServerIdFacts == 0 \notin ServerId
BY FleetAssumption DEF ServerId

\* A cluster without NodeClaims satisfies the invariant, whatever stranger the project holds.
LEMMA InitInv == Init => IInv
<1> SUFFICES ASSUME Init PROVE IInv
  OBVIOUS
<1> USE FleetAssumption
<1>1. Absent \in ClaimRec /\ Rest \in Work /\ NoSweep \in GC /\ NoServer \in ServerRec
  <2>1. 0 \in 0 .. MaxLag + 1 /\ 0 \in 0 .. MinAge /\ 0 \in 0 .. SweepMax
    OBVIOUS
  <2>2. Absent \in ClaimRec
    BY <2>1 DEF Absent, ClaimRec
  <2>3. Rest \in Work
    BY DEF Rest, Work, WorkPC
  <2>4. NoSweep \in GC
    BY <2>1 DEF NoSweep, GC
  <2>5. NoServer \in ServerRec
    BY <2>1 DEF NoServer, ServerRec
  <2> QED
    BY <2>2, <2>3, <2>4, <2>5
<1>2. \A f \in Strangers : f \in ServerRec /\ f.label = NoClaim
  <2>1. MinAge \in 0 .. MinAge
    OBVIOUS
  <2> QED
    BY ZenonT(60), <2>1 DEF Strangers, ServerRec
<1>3. PICK f \in Strangers \cup {NoServer} : project = [s \in ServerId |-> IF s = 1 THEN f ELSE NoServer]
  BY DEF Init
<1>4. \A s \in ServerId : project[s] \in ServerRec /\ project[s].label = NoClaim
  <2>1. f \in ServerRec /\ f.label = NoClaim /\ NoServer.label = NoClaim
    <3>1. NoServer.label = NoClaim
      BY DEF NoServer
    <3> QED
      BY <1>1, <1>2, <3>1
  <2> QED
    BY <1>1, <1>3, <2>1
<1>5. TypeOK
  BY <1>1, <1>3, <1>4 DEF Init, TypeOK
<1>6. ASSUME NEW c \in Claim PROVE ClaimOK(c)
  BY DEF Init, ClaimOK, Absent, Rest, Up, Exists
<1>7. ASSUME NEW s \in ServerId PROVE ServerOK(s)
  BY <1>4 DEF ServerOK
<1>8. SweepOK
  BY DEF Init, NoSweep, SweepOK
<1> QED
  BY <1>5, <1>6, <1>7, <1>8 DEF IInv

\* While servers only leave, no server outgrows its NodeClaim.
LEMMA ServerFrame ==
  ASSUME IInv, Shrinks, Calm
  PROVE  \A s \in ServerId : ServerOK(s)' /\ (Up(s)' => Up(s) /\ project'[s] = project[s])
<1>1. ASSUME NEW s \in ServerId, Up(s)' PROVE project'[s] = project[s] /\ Up(s)
  BY <1>1 DEF Shrinks, Up
<1>2. ASSUME NEW s \in ServerId PROVE ServerOK(s)'
  <2> SUFFICES ASSUME Up(s)', (project[s].label)' \in Claim
               PROVE  /\ claims'[project'[s].label].phase # "absent"
                      /\ Exists(project[s].label)' /\ claims'[project'[s].label].age <= MaxLag =>
                           project'[s].age <= claims'[project'[s].label].age
    BY DEF ServerOK
  <2>1. project'[s] = project[s] /\ Up(s) /\ ServerOK(s)
    BY <1>1 DEF IInv
  <2> QED
    BY <2>1 DEF ServerOK, Calm
<1> QED
  BY <1>1, <1>2

\* A step that makes no server and leaves the sweep alone keeps what the sweep knows true.
LEMMA FrameInv ==
  ASSUME IInv, TypeOK', Shrinks, Calm, UNCHANGED gc
  PROVE  (\A s \in ServerId : ServerOK(s)') /\ SweepOK'
<1>1. ASSUME NEW s \in ServerId, Up(s)' PROVE project'[s] = project[s] /\ Up(s)
  BY <1>1, ServerFrame
<1>2. \A s \in ServerId : ServerOK(s)'
  BY ServerFrame
<1>3. \A s \in ServerId : project[s].state # "none" => project'[s].state # "none"
  BY DEF Shrinks
<1>4. gc.servers \subseteq ServerId /\ gc.cur \in {0} \cup ServerId
  BY DEF IInv, TypeOK, GC
<1>5. ASSUME NEW s \in ServerId, Up(s)', (project[s].label)' \in Claim, Exists(project[s].label)'
      PROVE  Exists(project[s].label)
  <2>1. project'[s] = project[s] /\ Up(s) /\ ServerOK(s)
    BY <1>1, <1>5 DEF IInv
  <2> QED
    BY <1>5, <2>1 DEF ServerOK, Calm
<1>6. SweepOK'
  BY ZenonT(60), <1>1, <1>3, <1>4, <1>5, ServerIdFacts DEF IInv, SweepOK, Up
<1> QED
  BY <1>2, <1>6

\* A NodeClaim and worker that a step does not touch stay right while servers only leave.
LEMMA OtherClaim ==
  ASSUME IInv, Shrinks, NEW d \in Claim, claims'[d] = claims[d], work'[d] = work[d],
         d \in unseen' => d \in unseen
  PROVE  ClaimOK(d)'
<1>0. ClaimOK(d) /\ work[d].sid \in {0} \cup ServerId /\ claims[d].pid \in {0} \cup ServerId
  BY DEF IInv, TypeOK, Work, ClaimRec
<1>1. ASSUME NEW s \in {0} \cup ServerId
      PROVE  /\ Up(s)' => Up(s) /\ project'[s] = project[s]
             /\ s # 0 /\ project[s].state # "none" => project'[s].state # "none"
  BY ServerIdFacts DEF Shrinks, Up
<1> QED
  BY ZenonT(60), <1>0, <1>1 DEF ClaimOK, Exists, Attempt

\* A step of one NodeClaim's worker, or of core on that NodeClaim.
LEMMA WorkStep ==
  ASSUME IInv, NEW c \in Claim, TypeOK', Shrinks, Calm, UNCHANGED gc, unseen' \subseteq unseen \cup {c},
         \A d \in Claim \ {c} : claims'[d] = claims[d] /\ work'[d] = work[d], ClaimOK(c)'
  PROVE  IInv'
<1>1. \A d \in Claim : ClaimOK(d)'
  BY OtherClaim
<1> QED
  BY <1>1, FrameInv DEF IInv

\* Leaving the project alone is a case of servers only leaving.
LEMMA SameProject == UNCHANGED project => Shrinks
BY DEF Shrinks

\* Leaving the NodeClaims alone is a case of none coming back.
LEMMA SameClaims == UNCHANGED claims => Calm
BY DEF Calm, Exists

\* Core's answer to an InsufficientCapacityError changes a phase and nothing else.
LEMMA GiveBackFacts ==
  ASSUME TypeOK, NEW c \in Claim, claims' = claims \/ claims' = GiveBack(c)
  PROVE  /\ claims' \in [Claim -> ClaimRec] /\ Calm
         /\ \A d \in Claim \ {c} : claims'[d] = claims[d]
         /\ claims'[c].age = claims[c].age /\ claims'[c].pid = claims[c].pid /\ claims'[c].kind = claims[c].kind
         /\ Exists(c)' <=> Exists(c)
         /\ claims'[c].phase = "gone" <=> claims[c].phase = "gone"
         /\ claims'[c].phase = "absent" <=> claims[c].phase = "absent"
BY SMTT(60) DEF TypeOK, ClaimRec, GiveBack, Calm, Exists

\* An idle worker holds no server.
LEMMA RestType == Rest \in Work /\ Rest.pc = "idle" /\ Rest.sid = 0
BY DEF Rest, Work, WorkPC

\* The worker of c lets go of its server.
LEMMA LetGoOK ==
  ASSUME IInv, NEW c \in Claim, Shrinks, claims' = claims \/ claims' = GiveBack(c), UNCHANGED unseen,
         work'[c].sid = 0, work'[c].pc \in {"idle", "post"},
         work'[c].pc = "post" => c \notin unseen /\ Exists(c)
  PROVE  ClaimOK(c)'
<1>0. ClaimOK(c) /\ TypeOK /\ claims[c].pid \in {0} \cup ServerId
  BY DEF IInv, TypeOK, ClaimRec
<1>1. ASSUME NEW s \in {0} \cup ServerId
      PROVE  /\ Up(s)' => Up(s) /\ project'[s] = project[s]
             /\ s # 0 /\ project[s].state # "none" => project'[s].state # "none"
  BY ServerIdFacts DEF Shrinks, Up
<1>2. ~Up(work[c].sid)'
  BY DEF Up
<1> QED
  BY ZenonT(60), <1>0, <1>1, <1>2, GiveBackFacts DEF ClaimOK

-----------------------------------------------------------------------------
(* Core on a NodeClaim                                                     *)

\* Core creates a NodeClaim: no server carries its name as a label yet.
LEMMA NewClaimInv == ASSUME IInv, NEW c \in Claim, NewClaim(c) PROVE IInv'
<1>0. ClaimOK(c) /\ TypeOK /\ claims[c].phase = "absent"
  BY DEF IInv, NewClaim
<1>1. TypeOK'
  BY ZenonT(60), <1>0 DEF NewClaim, TypeOK, ClaimRec
<1>2. Calm /\ Shrinks
  BY <1>0 DEF NewClaim, Calm, Shrinks, Exists, TypeOK
<1>3. /\ claims'[c].phase = "live" /\ claims'[c].age = 0 /\ claims'[c].pid = claims[c].pid
      /\ claims'[c].kind = claims[c].kind /\ work[c].pc = "idle"
  BY ZenonT(60), <1>0 DEF NewClaim, TypeOK, ClaimRec, ClaimOK, Exists
<1>4. ClaimOK(c)'
  BY <1>0, <1>3, FleetAssumption DEF NewClaim, ClaimOK, Exists, Up, Attempt
<1> QED
  BY <1>1, <1>2, <1>4, WorkStep DEF NewClaim, IInv, TypeOK

\* The informer delivers a NodeClaim.
LEMMA ObserveInv == ASSUME IInv, NEW c \in Claim, Observe(c) PROVE IInv'
<1>1. TypeOK' /\ Shrinks /\ Calm
  BY SameProject, SameClaims DEF Observe, IInv, TypeOK
<1>2. ClaimOK(c)'
  BY <1>1, OtherClaim DEF Observe
<1> QED
  BY <1>1, <1>2, WorkStep DEF Observe

\* A NodeClaim is marked for deletion at any moment of its create.
LEMMA DeleteClaimInv == ASSUME IInv, NEW c \in Claim, DeleteClaim(c) PROVE IInv'
<1>0. TypeOK /\ ClaimOK(c) /\ claims' = GiveBack(c)
  BY DEF IInv, DeleteClaim, GiveBack
<1>1. TypeOK' /\ Shrinks
  BY ZenonT(60), <1>0, GiveBackFacts, SameProject DEF DeleteClaim, TypeOK
<1>2. ClaimOK(c)'
  BY <1>0, GiveBackFacts DEF DeleteClaim, ClaimOK, Up, Attempt
<1> QED
  BY <1>0, <1>1, <1>2, GiveBackFacts, WorkStep DEF DeleteClaim

-----------------------------------------------------------------------------
(* Create                                                                  *)

\* Faults stay within their bound.
LEMMA FaultType == ASSUME TypeOK, Fault \/ UNCHANGED faults PROVE faults' \in 0 .. MaxFaults
BY SMTT(60), FleetAssumption DEF TypeOK, Fault

\* A worker step that ends in frame r, or ends the worker, and leaves project,
\* informer and sweep alone.
LEMMA FrameStep ==
  ASSUME IInv, NEW c \in Claim, NEW r \in Work, work' = [work EXCEPT ![c] = r],
         claims' = claims \/ claims' = GiveBack(c),
         unavailable' \subseteq Candidate, Fault \/ UNCHANGED faults,
         UNCHANGED <<unseen, project, gc>>,
         r.pc # "idle" => c \notin unseen /\ Exists(c),
         r.sid # 0 => project[r.sid].state # "none",
         Up(r.sid) => project[r.sid].label = c,
         Up(r.sid) /\ r.pc \in {"wait", "cleanup", "reread"} =>
           project[r.sid].kind \in r.todo /\ \A j \in r.todo : project[r.sid].kind <= j,
         Up(r.sid) /\ r.pc = "created" => r.kind \in {0, project[r.sid].kind},
         Up(r.sid) /\ r.pc \in {"wait", "cleanup"} => project[r.sid].owner # "other",
         r.pc = "delete" /\ Up(claims[c].pid) => project[claims[c].pid].owner # "other"
  PROVE  IInv'
<1>0. TypeOK /\ ClaimOK(c) /\ work'[c] = r
  BY ZenonT(60) DEF IInv, TypeOK
<1>1. TypeOK' /\ Shrinks
  BY ZenonT(60), <1>0, FaultType, GiveBackFacts, SameProject DEF TypeOK
<1>2. ClaimOK(c)'
  BY ZenonT(60), <1>0, GiveBackFacts DEF ClaimOK, Up, Attempt
<1>3. \A d \in Claim \ {c} : claims'[d] = claims[d] /\ work'[d] = work[d]
  BY <1>0, GiveBackFacts DEF TypeOK
<1> QED
  BY ZenonT(60), <1>0, <1>1, <1>2, <1>3, GiveBackFacts, WorkStep

\* Create starts its walk, or gives the NodeClaim back for want of candidates.
LEMMA BeginInv == ASSUME IInv, NEW c \in Claim, Begin(c) PROVE IInv'
<1>0. TypeOK /\ work[c] \in Work /\ unavailable \subseteq Candidate
  BY ZenonT(60) DEF IInv, TypeOK
<1>1. CASE orderedCandidates = {}
  <2>1. work' = [work EXCEPT ![c] = work[c]] /\ claims' = GiveBack(c)
    BY <1>0, <1>1 DEF Begin, TypeOK
  <2>2. ClaimOK(c) /\ work[c].pc = "idle"
    BY DEF IInv, Begin
  <2> QED
    BY ZenonT(60), <1>0, <2>1, <2>2, FrameStep DEF Begin, ClaimOK
<1>2. CASE orderedCandidates # {}
  <2> DEFINE r == [Rest EXCEPT !.pc = "post", !.todo = orderedCandidates]
  <2>0. orderedCandidates \subseteq Candidate
    BY DEF orderedCandidates
  <2>1. r \in Work /\ r.pc = "post" /\ r.sid = 0
    BY ZenonT(60), <2>0 DEF Rest, Work, WorkPC
  <2>2. work' = [work EXCEPT ![c] = r] /\ Exists(c) /\ c \notin unseen /\ claims' = claims
    BY <1>2 DEF Begin, Exists
  <2> HIDE DEF r
  <2> QED
    BY ZenonT(60), <1>0, <2>1, <2>2, FrameStep DEF Begin, Up
<1> QED
  BY <1>1, <1>2

\* The switch over the error class leaves the worker idle or about to try the
\* next candidate.
LEMMA FailedFrame ==
  ASSUME TypeOK, NEW c \in Claim, NEW k \in Candidate, NEW class, CreateFailed(c, k, class)
  PROVE  /\ unavailable' \subseteq Candidate
         /\ claims' = claims \/ claims' = GiveBack(c)
         /\ \E r \in Work : /\ work' = [work EXCEPT ![c] = r]
                            /\ r.sid = 0 /\ r.pc \in {"idle", "post"}
<1> DEFINE rest == work[c].todo \ {k}
           r == IF class = "capacity" /\ rest # {} THEN [Rest EXCEPT !.pc = "post", !.todo = rest] ELSE Rest
<1>1. rest \subseteq Candidate
  BY DEF TypeOK, Work
<1>2. [Rest EXCEPT !.pc = "post", !.todo = rest] \in Work
  BY ZenonT(60), <1>1 DEF Rest, Work, WorkPC
<1>3. r \in Work /\ r.sid = 0 /\ r.pc \in {"idle", "post"}
  BY <1>2, RestType DEF Rest
<1>4. work' = [work EXCEPT ![c] = r]
  BY DEF CreateFailed
<1>5. unavailable' \subseteq Candidate /\ (claims' = claims \/ claims' = GiveBack(c))
  BY DEF CreateFailed, TypeOK
<1> HIDE DEF r
<1> QED
  BY ZenonT(60), <1>3, <1>4, <1>5

\* A refused POST goes through the switch over error classes.
LEMMA PostRefusedInv ==
  ASSUME IInv, NEW c \in Claim, NEW k \in Candidate, NEW class, PostRefused(c, k, class) PROVE IInv'
<1>1. TypeOK /\ ClaimOK(c) /\ c \notin unseen /\ Exists(c)
  BY DEF IInv, ClaimOK, PostRefused
<1>2. PICK r \in Work : /\ work' = [work EXCEPT ![c] = r]
                        /\ r.sid = 0 /\ r.pc \in {"idle", "post"}
  BY <1>1, FailedFrame DEF PostRefused
<1>3. unavailable' \subseteq Candidate /\ (claims' = claims \/ claims' = GiveBack(c))
  BY <1>1, FailedFrame DEF PostRefused
<1>4. Fault \/ UNCHANGED faults
  BY DEF PostRefused
<1> QED
  BY ZenonT(60), <1>1, <1>2, <1>3, <1>4, FrameStep DEF PostRefused, Up

\* A uniqueness_error leads to adoption.
LEMMA PostTakenInv == ASSUME IInv, NEW c \in Claim, PostTaken(c) PROVE IInv'
<1> DEFINE r == [work[c] EXCEPT !.pc = "adopt"]
<1>0. TypeOK /\ ClaimOK(c) /\ work[c] \in Work
  BY DEF IInv, TypeOK
<1>1. r \in Work /\ r.pc = "adopt" /\ r.sid = work[c].sid
  BY <1>0 DEF Work, WorkPC
<1>2. work' = [work EXCEPT ![c] = r] /\ work[c].pc = "post"
  BY DEF PostTaken
<1>3. c \notin unseen /\ Exists(c) /\ unavailable \subseteq Candidate
  BY ZenonT(60), <1>0, <1>2 DEF ClaimOK, TypeOK
<1>4. (r.sid # 0 => project[r.sid].state # "none") /\ (Up(r.sid) => project[r.sid].label = c)
  BY <1>0, <1>1 DEF ClaimOK
<1>5. UNCHANGED <<claims, unseen, project, unavailable, gc, faults>>
  BY DEF PostTaken
<1> HIDE DEF r
<1> QED
  BY ZenonT(60), <1>1, <1>2, <1>3, <1>4, <1>5, FrameStep

\* The action wait ends well, badly or early.
LEMMA WaitInv == ASSUME IInv, NEW c \in Claim, Wait(c) PROVE IInv'
<1>0. TypeOK /\ ClaimOK(c) /\ work[c] \in Work /\ work[c].pc = "wait"
  BY DEF IInv, TypeOK, Wait
<1>1. PICK r \in Work : /\ work' = [work EXCEPT ![c] = r]
                        /\ r.pc \in {"reread", "cleanup"} /\ r.sid = work[c].sid /\ r.todo = work[c].todo
  <2>1. ASSUME work' = [work EXCEPT ![c].pc = "reread"]
        PROVE  \E r \in Work : /\ work' = [work EXCEPT ![c] = r]
                               /\ r.pc \in {"reread", "cleanup"} /\ r.sid = work[c].sid /\ r.todo = work[c].todo
    <3>1. [work[c] EXCEPT !.pc = "reread"] \in Work
      BY <1>0 DEF Work, WorkPC
    <3> QED
      BY ZenonT(60), <1>0, <2>1, <3>1 DEF Work
  <2>2. ASSUME NEW e \in {"capacity", "quota", "transient"},
               work' = [work EXCEPT ![c] = [work[c] EXCEPT !.pc = "cleanup", !.err = e]]
        PROVE  \E r \in Work : /\ work' = [work EXCEPT ![c] = r]
                               /\ r.pc \in {"reread", "cleanup"} /\ r.sid = work[c].sid /\ r.todo = work[c].todo
    <3>1. [work[c] EXCEPT !.pc = "cleanup", !.err = e] \in Work
      BY ZenonT(60), <1>0 DEF Work, WorkPC
    <3> QED
      BY ZenonT(60), <1>0, <2>2, <3>1 DEF Work
  <2> QED
    BY <2>1, <2>2 DEF Wait
<1>2. UNCHANGED <<claims, unseen, project, unavailable, gc>> /\ (Fault \/ UNCHANGED faults)
  BY DEF Wait
<1> QED
  BY ZenonT(60), <1>0, <1>1, <1>2, FrameStep DEF ClaimOK, Attempt, TypeOK

\* The frame of a create about to return is a frame.
LEMMA CreatedType ==
  ASSUME NEW s \in ServerId, NEW k \in {0} \cup Candidate
  PROVE  LET r == [Rest EXCEPT !.pc = "created", !.sid = s, !.kind = k]
         IN r \in Work /\ r.pc = "created" /\ r.sid = s /\ r.kind = k
BY ZenonT(60) DEF Rest, Work, WorkPC

\* The re-read after the wait returns the server Create made, of the pair it tried.
LEMMA RereadInv == ASSUME IInv, NEW c \in Claim, NEW k \in Candidate, Reread(c, k) PROVE IInv'
<1> DEFINE s == work[c].sid
           r == [Rest EXCEPT !.pc = "created", !.sid = s, !.kind = k]
<1>0. TypeOK /\ ClaimOK(c) /\ work[c] \in Work /\ work[c].pc = "reread" /\ s \in {0} \cup ServerId
  BY DEF IInv, TypeOK, Reread, Work
<1>1. UNCHANGED <<claims, unseen, project, unavailable, gc>> /\ (Fault \/ UNCHANGED faults)
  BY DEF Reread
<1>2. CASE Up(s) /\ work' = [work EXCEPT ![c] = r]
  <2>1. s \in ServerId /\ project[s] \in ServerRec
    BY <1>0, <1>2 DEF Up, TypeOK
  <2>2. r \in Work /\ r.pc = "created" /\ r.sid = s /\ r.kind = k
    BY ZenonT(60), <2>1, CreatedType
  <2>3. project[s].kind = k
    <3>1. Attempt(c, project[s].kind) /\ Attempt(c, k)
      BY ZenonT(60), <1>0, <1>2 DEF ClaimOK, Reread
    <3>2. k \in Int /\ project[s].kind \in Int
      BY <2>1, FleetAssumption DEF Candidate, ServerRec
    <3> QED
      BY SMTT(60), <3>1, <3>2 DEF Attempt
  <2>4. work' = [work EXCEPT ![c] = r]
    BY ZenonT(60), <1>2
  <2> HIDE DEF r
  <2> QED
    BY ZenonT(60), <1>0, <1>1, <2>1, <2>2, <2>3, <2>4, FrameStep DEF ClaimOK, TypeOK
<1>3. CASE work' = [work EXCEPT ![c] = Rest]
  BY ZenonT(60), <1>0, <1>1, <1>3, RestType, FrameStep DEF Up, TypeOK
<1> QED
  BY <1>2, <1>3 DEF Reread

\* Adoption takes only a server labelled for this NodeClaim, with that server's type.
LEMMA AdoptInv == ASSUME IInv, NEW c \in Claim, Adopt(c) PROVE IInv'
<1>0. TypeOK /\ ClaimOK(c) /\ work[c].pc = "adopt"
  BY ZenonT(60) DEF IInv, Adopt
<1>1. UNCHANGED <<claims, unseen, project, unavailable, gc>> /\ (Fault \/ UNCHANGED faults)
  BY ZenonT(60) DEF Adopt
<1>2. ASSUME NEW s \in ServerId, NEW k \in {0, project[s].kind}, Up(s), project[s].label = c,
             work' = [work EXCEPT ![c] = [Rest EXCEPT !.pc = "created", !.sid = s, !.kind = k]]
      PROVE  IInv'
  <2> DEFINE r == [Rest EXCEPT !.pc = "created", !.sid = s, !.kind = k]
  <2>1. k \in {0} \cup Candidate
    BY <1>0 DEF TypeOK, ServerRec
  <2>2. r \in Work /\ r.pc = "created" /\ r.sid = s /\ r.kind = k
    BY ZenonT(60), <2>1, CreatedType
  <2>3. work' = [work EXCEPT ![c] = r] /\ project[s].state # "none"
    BY ZenonT(60), <1>2 DEF Up
  <2>4. c \notin unseen /\ Exists(c) /\ unavailable' \subseteq Candidate
    BY ZenonT(60), <1>0, <1>1 DEF ClaimOK, TypeOK
  <2> HIDE DEF r
  <2> QED
    BY ZenonT(60), <1>1, <1>2, <2>2, <2>3, <2>4, FrameStep
<1>3. CASE work' = [work EXCEPT ![c] = Rest]
  BY ZenonT(60), <1>0, <1>1, <1>3, RestType, FrameStep DEF Up, TypeOK
<1> QED
  BY ZenonT(60), <1>2, <1>3 DEF Adopt

\* Deleting a server takes it, and no other, out of the project.
LEMMA DropFacts ==
  ASSUME TypeOK, NEW s \in {0} \cup ServerId, NEW how \in {"deleted", "removed"}, project' = Drop(s, how)
  PROVE  Shrinks /\ project' \in [ServerId -> ServerRec]
<1>1. [NoServer EXCEPT !.state = how] \in ServerRec /\ [NoServer EXCEPT !.state = how].state = how
  <2>1. 0 \in 0 .. MinAge
    BY FleetAssumption
  <2> QED
    BY ZenonT(60), <2>1 DEF NoServer, ServerRec
<1>2. \A t \in ServerId : project'[t] = IF t = s /\ Up(s) THEN [NoServer EXCEPT !.state = how] ELSE project[t]
  BY DEF Drop, TypeOK
<1>3. project' \in [ServerId -> ServerRec]
  BY ZenonT(60), <1>1, ServerIdFacts DEF Drop, TypeOK
<1>4. Shrinks
  BY ZenonT(60), <1>1, <1>2 DEF Shrinks, Up
<1> QED
  BY <1>3, <1>4

\* deleteQuietly removes a server that was made by this very create.
LEMMA CleanupInv == ASSUME IInv, NEW c \in Claim, NEW k \in Candidate, Cleanup(c, k) PROVE IInv'
<1>1. TypeOK /\ ClaimOK(c) /\ c \notin unseen /\ Exists(c) /\ work[c].sid \in {0} \cup ServerId
  BY ZenonT(60) DEF IInv, ClaimOK, Cleanup, TypeOK, Work
<1>2. PICK r \in Work : /\ work' = [work EXCEPT ![c] = r]
                        /\ r.sid = 0 /\ r.pc \in {"idle", "post"}
  BY ZenonT(60), <1>1, FailedFrame DEF Cleanup
<1>3. unavailable' \subseteq Candidate /\ (claims' = claims \/ claims' = GiveBack(c))
  BY <1>1, FailedFrame DEF Cleanup
<1>4. (Fault \/ UNCHANGED faults) /\ UNCHANGED <<unseen, gc>>
  BY DEF Cleanup
<1>5. Shrinks /\ project' \in [ServerId -> ServerRec]
  BY ZenonT(60), <1>1, DropFacts, SameProject DEF Cleanup, TypeOK
<1>6. TypeOK'
  BY ZenonT(60), <1>1, <1>2, <1>3, <1>4, <1>5, FaultType, GiveBackFacts DEF TypeOK
<1>7. work'[c] = r /\ \A d \in Claim \ {c} : claims'[d] = claims[d] /\ work'[d] = work[d]
  BY <1>1, <1>2, <1>3, GiveBackFacts DEF TypeOK
<1>8. ClaimOK(c)'
  BY <1>1, <1>2, <1>3, <1>4, <1>5, <1>7, LetGoOK
<1> QED
  BY ZenonT(60), <1>1, <1>3, <1>4, <1>5, <1>6, <1>7, <1>8, GiveBackFacts, WorkStep

\* Core records the providerID and type Create returned.
LEMMA RecordInv == ASSUME IInv, NEW c \in Claim, Record(c) PROVE IInv'
<1> DEFINE n == [claims[c] EXCEPT !.pid = work[c].sid, !.kind = work[c].kind]
<1>0. TypeOK /\ ClaimOK(c) /\ work[c] \in Work /\ claims[c] \in ClaimRec /\ work[c].pc = "created"
  BY DEF IInv, TypeOK, Record
<1>1. /\ n \in ClaimRec /\ n.phase = claims[c].phase /\ n.age = claims[c].age
      /\ n.pid = work[c].sid /\ n.kind = work[c].kind
  BY ZenonT(60), <1>0 DEF ClaimRec, Work
<1>2. claims' = [claims EXCEPT ![c] = n] /\ work' = [work EXCEPT ![c] = Rest]
      /\ UNCHANGED <<unseen, project, unavailable, gc, faults>>
  BY DEF Record
<1> HIDE DEF n
<1>3. claims'[c] = n /\ work'[c] = Rest /\ \A d \in Claim \ {c} : claims'[d] = claims[d] /\ work'[d] = work[d]
  BY <1>0, <1>2 DEF TypeOK
<1>4. TypeOK' /\ Shrinks
  BY <1>0, <1>1, <1>2, RestType, SameProject DEF TypeOK
<1>5. Calm
  BY ZenonT(60), <1>1, <1>3 DEF Calm, Exists
<1>6. Exists(c) /\ claims[c].phase # "gone"
  BY <1>0 DEF ClaimOK, Exists
<1>7. ClaimOK(c)'
  BY ZenonT(60), <1>0, <1>1, <1>2, <1>3, <1>6, RestType DEF ClaimOK, Exists, Up
<1> QED
  BY <1>2, <1>3, <1>4, <1>5, <1>7, WorkStep

\* A suppressed pair is offered again.
LEMMA ExpireInv == ASSUME IInv, NEW k \in Candidate, Expire(k) PROVE IInv'
<1>1. TypeOK' /\ Shrinks /\ Calm
  BY SameProject, SameClaims DEF Expire, IInv, TypeOK
<1>2. \A c \in Claim : ClaimOK(c)'
  BY <1>1, OtherClaim DEF Expire
<1> QED
  BY <1>1, <1>2, FrameInv DEF Expire, IInv

\* Hetzner makes a server: its id was never seen before, and its NodeClaim
\* exists.
LEMMA PostAcceptedInv ==
  ASSUME IInv, NEW c \in Claim, NEW k \in Candidate, NEW s \in ServerId, PostAccepted(c, k, s)
  PROVE  IInv'
<1>0. /\ TypeOK /\ ClaimOK(c) /\ work[c] \in Work /\ work[c].pc = "post" /\ Attempt(c, k)
      /\ project[s].state = "none" /\ c \notin unseen /\ Exists(c)
      /\ UNCHANGED <<claims, unseen, unavailable, gc>>
  BY DEF IInv, TypeOK, PostAccepted, NextId, ClaimOK
<1>1. PICK doomed \in BOOLEAN :
        project' = [project EXCEPT ![s] = [state |-> "up", name |-> c, label |-> c, owner |-> "ours",
                                           kind |-> k, age |-> 0, doomed |-> doomed]]
  BY ZenonT(60) DEF PostAccepted
<1> DEFINE n == [state |-> "up", name |-> c, label |-> c, owner |-> "ours", kind |-> k, age |-> 0, doomed |-> doomed]
<1>2. n \in ServerRec /\ n.state = "up" /\ n.label = c /\ n.owner = "ours" /\ n.kind = k /\ n.age = 0
  <2>1. 0 \in 0 .. MinAge
    BY FleetAssumption
  <2> QED
    BY <2>1 DEF ServerRec
<1>3. project' = [project EXCEPT ![s] = n]
  BY <1>1
<1> HIDE DEF n
<1>4. project'[s] = n /\ \A t \in ServerId \ {s} : project'[t] = project[t]
  BY <1>0, <1>3 DEF TypeOK
<1>5. PICK r \in Work : /\ work' = [work EXCEPT ![c] = r]
                        /\ \/ r = work[c]
                           \/ r.pc = "idle" /\ r.sid = 0
                           \/ r.pc = "wait" /\ r.sid = s /\ r.todo = work[c].todo
  <2>1. CASE work' = [work EXCEPT ![c] = [work[c] EXCEPT !.pc = "wait", !.sid = s]]
    <3> DEFINE r == [work[c] EXCEPT !.pc = "wait", !.sid = s]
    <3>1. r \in Work /\ r.pc = "wait" /\ r.sid = s /\ r.todo = work[c].todo
      BY ZenonT(60), <1>0 DEF Work, WorkPC
    <3>2. work' = [work EXCEPT ![c] = r]
      BY <2>1
    <3> HIDE DEF r
    <3> QED
      BY ZenonT(60), <3>1, <3>2
  <2>2. CASE work' = [work EXCEPT ![c] = Rest]
    BY ZenonT(60), <2>2, RestType
  <2>3. CASE work' = work
    <3>1. work' = [work EXCEPT ![c] = work[c]]
      BY ZenonT(60), <1>0, <2>3 DEF TypeOK
    <3> QED
      BY ZenonT(60), <1>0, <3>1
  <2> QED
    BY <2>1, <2>2, <2>3 DEF PostAccepted
<1>6. work'[c] = r /\ \A d \in Claim \ {c} : work'[d] = work[d]
  BY ZenonT(60), <1>0, <1>5 DEF TypeOK
<1>7. TypeOK'
  <2>1. Fault \/ UNCHANGED faults
    BY ZenonT(60) DEF PostAccepted
  <2> QED
    BY <1>0, <1>2, <1>3, <1>5, <2>1, FaultType DEF TypeOK
<1>8. ASSUME NEW t \in {0} \cup ServerId, t # 0 => project[t].state # "none"
      PROVE  (Up(t)' <=> Up(t)) /\ (t # 0 => project'[t] = project[t])
  BY ZenonT(60), <1>0, <1>4, <1>8 DEF Up
<1>9. ASSUME NEW d \in Claim PROVE ClaimOK(d)'
  <2>1. ClaimOK(d) /\ work[d].sid \in {0} \cup ServerId /\ claims[d].pid \in {0} \cup ServerId
    BY ZenonT(60) DEF IInv, TypeOK, Work, ClaimRec
  <2>2. /\ Up(claims[d].pid)' <=> Up(claims[d].pid)
        /\ claims[d].pid # 0 => project'[claims[d].pid] = project[claims[d].pid]
        /\ claims'[d] = claims[d] /\ (Exists(d)' <=> Exists(d))
    <3>1. claims[d].pid # 0 => project[claims[d].pid].state # "none"
      BY <2>1 DEF ClaimOK
    <3>2. UNCHANGED claims
      BY <1>0
    <3> QED
      BY ZenonT(60), <1>8, <2>1, <3>1, <3>2 DEF Up, Exists
  <2>3. Up(claims[d].pid) => claims[d].pid # 0
    BY DEF Up
  <2>4. CASE work'[d] = work[d]
    <3>1. work[d].sid # 0 => project[work[d].sid].state # "none"
      BY <2>1 DEF ClaimOK
    <3>2. /\ Up(work[d].sid)' <=> Up(work[d].sid)
          /\ work[d].sid # 0 => project'[work[d].sid] = project[work[d].sid]
          /\ Up(work[d].sid) => work[d].sid # 0
      BY ZenonT(60), <1>8, <2>1, <2>4, <3>1 DEF Up
    <3> QED
      BY ZenonT(60), <1>0, <2>1, <2>4, <2>2, <2>3, <3>2 DEF ClaimOK, Attempt
  <2>5. CASE d = c /\ r.pc = "idle" /\ r.sid = 0
    <3>1. ~Up(work[d].sid)' /\ work'[d].pc = "idle" /\ work'[d].sid = 0
      BY ZenonT(60), <1>6, <2>5 DEF Up
    <3> QED
      BY ZenonT(60), <1>0, <2>1, <2>2, <2>3, <3>1 DEF ClaimOK
  <2>6. CASE d = c /\ r.pc = "wait" /\ r.sid = s /\ r.todo = work[c].todo
    <3>1. Attempt(c, k)' /\ project'[work'[c].sid] = n /\ Up(work[c].sid)'
      BY <1>0, <1>2, <1>4, <1>6, <2>6, ServerIdFacts DEF Attempt, Up
    <3> QED
      BY ZenonT(60), <1>0, <1>2, <1>6, <2>1, <2>6, <2>2, <2>3, <3>1 DEF ClaimOK
  <2> QED
    BY ZenonT(60), <1>5, <1>6, <2>4, <2>5, <2>6
<1>10. ASSUME NEW t \in ServerId PROVE ServerOK(t)'
  <2>1. CASE t = s
    <3>1. claims[c].age \in Nat /\ claims[c].phase # "absent"
      BY SMTT(60), <1>0, FleetAssumption DEF TypeOK, ClaimRec, Exists
    <3> QED
      BY SMTT(60), <1>0, <1>2, <1>4, <2>1, <3>1 DEF ServerOK
  <2>2. CASE t # s
    <3>1. ServerOK(t) /\ project'[t] = project[t]
      BY ZenonT(60), <1>4, <2>2 DEF IInv
    <3> QED
      BY ZenonT(60), <1>0, <3>1 DEF ServerOK, Up, Exists
  <2> QED
    BY <2>1, <2>2
<1>11. SweepOK'
  <2>1. gc.servers \subseteq ServerId /\ SweepOK
    BY ZenonT(60), <1>0 DEF IInv, TypeOK, GC
  <2>2. \A t \in gc.servers : project'[t] = project[t] /\ (Up(t)' <=> Up(t))
    BY ZenonT(60), <1>0, <1>4, <2>1 DEF SweepOK, Up
  <2> QED
    BY ZenonT(60), <1>0, <2>1, <2>2 DEF SweepOK, Exists
<1> QED
  BY <1>7, <1>9, <1>10, <1>11 DEF IInv

-----------------------------------------------------------------------------
(* Delete                                                                  *)

\* Core lets go of a NodeClaim whose server is gone, or that never had one.
LEMMA ReleaseStep ==
  ASSUME IInv, NEW c \in Claim, ~Up(claims[c].pid), Exists(c), c \notin unseen,
         claims' = Release(c), work' = [work EXCEPT ![c] = Rest],
         UNCHANGED <<unseen, project, unavailable, gc, faults>>
  PROVE  IInv'
<1> DEFINE n == [Absent EXCEPT !.phase = "gone", !.pid = claims[c].pid]
<1>0. TypeOK /\ ClaimOK(c) /\ claims[c] \in ClaimRec
  BY DEF IInv, TypeOK
<1>1. n \in ClaimRec /\ n.phase = "gone" /\ n.pid = claims[c].pid
  <2>1. 0 \in 0 .. MaxLag + 1
    BY FleetAssumption
  <2> QED
    BY ZenonT(60), <1>0, <2>1 DEF Absent, ClaimRec
<1>2. claims' = [claims EXCEPT ![c] = n]
  BY DEF Release
<1> HIDE DEF n
<1>3. claims'[c] = n /\ work'[c] = Rest /\ \A d \in Claim \ {c} : claims'[d] = claims[d] /\ work'[d] = work[d]
  BY ZenonT(60), <1>0, <1>2 DEF TypeOK
<1>4. TypeOK' /\ Shrinks
  BY ZenonT(60), <1>0, <1>1, <1>2, RestType, SameProject DEF TypeOK
<1>5. Calm
  BY <1>1, <1>3 DEF Calm, Exists
<1>6. ClaimOK(c)'
  BY ZenonT(60), <1>0, <1>1, <1>3, RestType DEF ClaimOK, Exists, Up
<1> QED
  BY <1>3, <1>4, <1>5, <1>6, WorkStep

\* Delete reports not found, or goes on with a server it read as ours.
LEMMA FinalizeInv == ASSUME IInv, NEW c \in Claim, Finalize(c) PROVE IInv'
<1>0. TypeOK /\ ClaimOK(c) /\ Exists(c) /\ c \notin unseen /\ work[c] \in Work /\ work[c].pc = "idle"
      /\ UNCHANGED <<unseen, project, unavailable, gc, faults>>
  BY ZenonT(60) DEF IInv, TypeOK, Finalize, Exists
<1>1. CASE ~Up(claims[c].pid) /\ claims' = Release(c) /\ UNCHANGED work
  <2> DEFINE n == [Absent EXCEPT !.phase = "gone", !.pid = claims[c].pid]
  <2>1. n \in ClaimRec /\ n.phase = "gone" /\ n.pid = claims[c].pid
    <3>1. 0 \in 0 .. MaxLag + 1 /\ claims[c] \in ClaimRec
      BY <1>0, FleetAssumption DEF TypeOK
    <3> QED
      BY ZenonT(60), <3>1 DEF Absent, ClaimRec
  <2>2. claims' = [claims EXCEPT ![c] = n]
    BY <1>1 DEF Release
  <2> HIDE DEF n
  <2>3. claims'[c] = n /\ work'[c] = work[c] /\ \A d \in Claim \ {c} : claims'[d] = claims[d] /\ work'[d] = work[d]
    BY ZenonT(60), <1>0, <1>1, <2>2 DEF TypeOK
  <2>4. TypeOK' /\ Shrinks
    BY ZenonT(60), <1>0, <1>1, <2>1, <2>2, SameProject DEF TypeOK
  <2>5. Calm
    BY <2>1, <2>3 DEF Calm, Exists
  <2>6. ClaimOK(c)'
    BY ZenonT(60), <1>0, <1>1, <2>1, <2>3 DEF ClaimOK, Exists, Up
  <2> QED
    BY <1>0, <2>3, <2>4, <2>5, <2>6, WorkStep
<1>2. CASE Up(claims[c].pid) /\ IsManagedBy(claims[c].pid) /\ work' = [work EXCEPT ![c].pc = "delete"] /\ UNCHANGED claims
  <2> DEFINE r == [work[c] EXCEPT !.pc = "delete"]
  <2>1. r \in Work /\ r.pc = "delete" /\ r.sid = work[c].sid
    BY <1>0 DEF Work, WorkPC
  <2>2. work' = [work EXCEPT ![c] = r]
    BY <1>2
  <2>3. (r.sid # 0 => project[r.sid].state # "none") /\ (Up(r.sid) => project[r.sid].label = c)
    BY <1>0, <2>1 DEF ClaimOK
  <2>4. unavailable' \subseteq Candidate /\ project[claims[c].pid].owner # "other"
    BY <1>0, <1>2 DEF TypeOK, IsManagedBy
  <2> HIDE DEF r
  <2> QED
    BY ZenonT(60), <1>0, <1>2, <2>1, <2>2, <2>3, <2>4, FrameStep
<1> QED
  BY <1>1, <1>2 DEF Finalize

\* The DELETE of a finalized NodeClaim, with its lost answers.
LEMMA FinalDeleteInv == ASSUME IInv, NEW c \in Claim, FinalDelete(c) PROVE IInv'
<1>0. TypeOK /\ ClaimOK(c) /\ Exists(c) /\ c \notin unseen /\ claims[c].pid \in {0} \cup ServerId
      /\ UNCHANGED <<unseen, unavailable, gc>> /\ work' = [work EXCEPT ![c] = Rest]
  BY DEF IInv, TypeOK, FinalDelete, ClaimOK, ClaimRec
<1>1. CASE ~Up(claims[c].pid) /\ claims' = Release(c) /\ UNCHANGED <<project, faults>>
  BY ZenonT(60), <1>0, <1>1, ReleaseStep
<1>2. CASE /\ project' = Drop(claims[c].pid, "deleted") \/ UNCHANGED project
           /\ UNCHANGED claims /\ (Fault \/ UNCHANGED faults)
  <2>1. Shrinks /\ project' \in [ServerId -> ServerRec] /\ Calm
    BY ZenonT(60), <1>0, <1>2, DropFacts, SameProject, SameClaims DEF TypeOK
  <2>2. TypeOK'
    BY <1>0, <1>2, <2>1, FaultType, RestType DEF TypeOK
  <2>3. work'[c] = Rest /\ \A d \in Claim \ {c} : claims'[d] = claims[d] /\ work'[d] = work[d]
    BY ZenonT(60), <1>0, <1>2 DEF TypeOK
  <2>4. ClaimOK(c)'
    BY ZenonT(60), <1>0, <1>2, <2>1, <2>3, RestType, LetGoOK
  <2> QED
    BY ZenonT(60), <1>0, <2>1, <2>2, <2>3, <2>4, WorkStep
<1> QED
  BY ZenonT(60), <1>1, <1>2 DEF FinalDelete

-----------------------------------------------------------------------------
(* The orphan sweep                                                        *)

\* Steps that leave NodeClaims and workers alone.
LEMMA SweepStep ==
  ASSUME IInv, TypeOK', Shrinks, UNCHANGED <<claims, unseen, work>>, SweepOK'
  PROVE  IInv'
<1>1. Calm
  BY SameClaims
<1>2. \A d \in Claim : ClaimOK(d)'
  BY ZenonT(60), OtherClaim
<1> QED
  BY <1>1, <1>2, ServerFrame DEF IInv

\* Between sweeps nothing is claimed about servers.
LEMMA NoSweepOK == NoSweep \in GC /\ (gc' = NoSweep => SweepOK')
<1>1. 0 \in 0 .. SweepMax
  BY FleetAssumption
<1> QED
  BY <1>1 DEF NoSweep, GC, SweepOK

\* The sweep lists servers, all of which exist.
LEMMA GcListInv == ASSUME IInv, GcList PROVE IInv'
<1> DEFINE g == [NoSweep EXCEPT !.pc = "claims", !.servers = Listed]
<1>1. Listed \subseteq ServerId /\ \A s \in Listed : project[s].state = "up"
  BY DEF Listed, Up
<1>2. g \in GC /\ g.pc = "claims" /\ g.servers = Listed
  BY ZenonT(60), <1>1, NoSweepOK DEF NoSweep, GC
<1>3. gc' = g /\ UNCHANGED <<claims, unseen, project, work, unavailable, faults>>
  BY ZenonT(60) DEF GcList
<1> HIDE DEF g
<1>4. TypeOK'
  BY ZenonT(60), <1>2, <1>3 DEF IInv, TypeOK
<1>5. SweepOK'
  BY <1>1, <1>2, <1>3 DEF SweepOK
<1> QED
  BY ZenonT(60), <1>3, <1>4, <1>5, SameProject, SweepStep

\* The sweep reads the NodeClaims: one that it misses is younger than the informer's lag.
LEMMA GcClaimsInv == ASSUME IInv, GcClaims PROVE IInv'
<1> DEFINE g == [gc EXCEPT !.pc = "sweep", !.live = Seen]
<1>0. TypeOK /\ SweepOK /\ gc \in GC
  BY DEF IInv, TypeOK
<1>1. UNCHANGED <<claims, unseen, project, work, unavailable>> /\ (Fault \/ UNCHANGED faults)
  BY DEF GcClaims
<1>2. CASE gc' = NoSweep
  <2>1. TypeOK'
    BY <1>0, <1>1, <1>2, NoSweepOK, FaultType DEF TypeOK
  <2> QED
    BY ZenonT(60), <1>1, <1>2, <2>1, NoSweepOK, SameProject, SweepStep
<1>3. CASE gc' = g
  <2>1. Seen \subseteq Claim
    BY DEF Seen
  <2>2. /\ g \in GC /\ g.pc = "sweep" /\ g.servers = gc.servers
        /\ g.live = Seen /\ g.age = gc.age /\ gc.servers \subseteq ServerId /\ gc.age \in Nat
    <3>1. gc.age \in 0 .. SweepMax /\ gc.servers \subseteq ServerId
      BY <1>0 DEF GC
    <3>2. g \in GC
      BY ZenonT(60), <1>0, <2>1 DEF GC
    <3> QED
      BY <1>0, <3>1, <3>2, FleetAssumption DEF GC
  <2> HIDE DEF g
  <2>3. TypeOK'
    BY ZenonT(60), <1>0, <1>1, <1>3, <2>2, FaultType DEF TypeOK
  <2>4. ASSUME NEW s \in gc.servers, Up(s), project[s].label \in Claim, Exists(project[s].label),
               project[s].label \notin Seen
        PROVE  project[s].age <= MaxLag + gc.age
    <3>1. s \in ServerId /\ ServerOK(s) /\ ClaimOK(project[s].label)
      BY <2>2, <2>4 DEF IInv
    <3>2. claims[project[s].label].age <= MaxLag
      BY ZenonT(60), <2>4, <3>1 DEF Seen, ClaimOK
    <3>3. project[s].age <= claims[project[s].label].age
      BY ZenonT(60), <2>4, <3>1, <3>2 DEF ServerOK
    <3>4. project[s].age \in Int /\ claims[project[s].label].age \in Int
      BY SMTT(60), <1>0, <2>4, <3>1 DEF TypeOK, ServerRec, ClaimRec
    <3> QED
      BY SMTT(60), <2>2, <3>2, <3>3, <3>4, FleetAssumption
  <2>5. SweepOK'
    BY ZenonT(60), <1>0, <1>1, <1>3, <2>2, <2>4 DEF SweepOK, Up, Exists
  <2> QED
    BY <1>1, <2>3, <2>5, SameProject, SweepStep
<1> QED
  BY <1>2, <1>3 DEF GcClaims

\* The sweep goes on to the next server.
LEMMA GcRestOK ==
  ASSUME IInv, gc.pc \in {"sweep", "delete"}, NEW s \in ServerId, gc' = GcRest(s),
         Shrinks, UNCHANGED claims
  PROVE  gc' \in GC /\ SweepOK'
<1>1. CASE gc.servers = {s}
  BY <1>1, NoSweepOK DEF GcRest
<1>2. CASE gc.servers # {s}
  <2> DEFINE g == [gc EXCEPT !.pc = "sweep", !.servers = @ \ {s}, !.cur = 0]
  <2>0. gc \in GC /\ SweepOK
    BY DEF IInv, TypeOK
  <2>1. /\ g \in GC /\ g.pc = "sweep" /\ g.servers \subseteq gc.servers /\ g.live = gc.live
        /\ g.age = gc.age /\ gc.servers \subseteq ServerId
    BY ZenonT(60), <2>0 DEF GC
  <2>2. gc' = g
    BY <1>2 DEF GcRest
  <2> HIDE DEF g
  <2>3. \A t \in ServerId : /\ Up(t)' => Up(t) /\ project'[t] = project[t]
                            /\ project[t].state # "none" => project'[t].state # "none"
    BY ZenonT(60) DEF Shrinks, Up
  <2>4. SweepOK'
    BY <2>0, <2>1, <2>2, <2>3 DEF SweepOK, Exists
  <2> QED
    BY <2>1, <2>2, <2>4
<1> QED
  BY <1>1, <1>2

\* The sweep goes on to delete a server only past minAge, so its NodeClaim is gone.
LEMMA GcNextInv == ASSUME IInv, NEW s \in ServerId, GcNext(s) PROVE IInv'
<1> DEFINE g == [gc EXCEPT !.pc = "delete", !.cur = s]
<1>0. TypeOK /\ SweepOK /\ gc \in GC /\ gc.pc = "sweep" /\ s \in gc.servers
  BY DEF IInv, TypeOK, GcNext
<1>1. UNCHANGED <<claims, unseen, project, work, unavailable>> /\ (Fault \/ UNCHANGED faults)
  BY DEF GcNext
<1>2. CASE gc' = GcRest(s)
  <2>1. gc' \in GC /\ SweepOK'
    BY ZenonT(60), <1>0, <1>1, <1>2, SameProject, GcRestOK
  <2>2. TypeOK'
    BY <1>0, <1>1, <2>1, FaultType DEF TypeOK
  <2> QED
    BY ZenonT(60), <1>1, <2>1, <2>2, SameProject, SweepStep
<1>3. CASE ~GcSkips(s) /\ Up(s) /\ IsManagedBy(s) /\ gc' = g
  <2>1. /\ g \in GC /\ g.pc = "delete" /\ g.servers = gc.servers /\ g.cur = s
        /\ g.live = gc.live /\ g.age = gc.age /\ gc.age \in 0 .. SweepMax
    BY ZenonT(60), <1>0 DEF GC
  <2> HIDE DEF g
  <2>2. TypeOK'
    BY ZenonT(60), <1>0, <1>1, <1>3, <2>1, FaultType DEF TypeOK
  <2>3. project[s] \in ServerRec
    BY ZenonT(60), <1>0 DEF TypeOK
  <2>4. project[s].label \in Claim /\ project[s].label \notin gc.live /\ ~(project[s].age < MinAge)
    BY ZenonT(60), <1>3, <2>3 DEF GcSkips, ServerRec
  <2>5. ~(project[s].age <= MaxLag + gc.age)
    <3>1. project[s].age \in Int
      BY SMTT(60), <2>3 DEF ServerRec
    <3> QED
      BY SMTT(60), <2>1, <2>4, <3>1, FleetAssumption
  <2>6. ~Exists(project[s].label)
    BY ZenonT(60), <1>0, <1>3, <2>4, <2>5 DEF SweepOK
  <2>7. project[s].owner # "other"
    BY ZenonT(60), <1>3 DEF IsManagedBy
  <2>8. SweepOK'
    <3>1. gc' = g /\ project' = project /\ \A t : (Up(t)' <=> Up(t)) /\ (Exists(t)' <=> Exists(t))
      BY <1>1, <1>3 DEF Up, Exists
    <3> QED
      BY ZenonT(60), <1>0, <3>1, <2>1, <2>4, <2>6, <2>7 DEF SweepOK
  <2> QED
    BY <1>1, <2>2, <2>8, SameProject, SweepStep
<1> QED
  BY <1>2, <1>3 DEF GcNext

\* The sweep's DELETE, with its lost answers.
LEMMA GcDeleteInv == ASSUME IInv, GcDelete PROVE IInv'
<1>0. TypeOK /\ SweepOK /\ gc \in GC /\ gc.pc = "delete"
  BY ZenonT(60) DEF IInv, TypeOK, GcDelete
<1>1. gc.cur \in ServerId
  BY <1>0 DEF SweepOK, GC
<1>2. UNCHANGED <<claims, unseen, work, unavailable>> /\ (Fault \/ UNCHANGED faults) /\ gc' = GcRest(gc.cur)
  BY DEF GcDelete
<1>3. Shrinks /\ project' \in [ServerId -> ServerRec]
  BY ZenonT(60), <1>0, <1>1, DropFacts, SameProject DEF GcDelete, TypeOK
<1>4. gc' \in GC /\ SweepOK'
  BY ZenonT(60), <1>0, <1>1, <1>2, <1>3, GcRestOK
<1>5. TypeOK'
  BY ZenonT(60), <1>0, <1>2, <1>3, <1>4, FaultType DEF TypeOK
<1> QED
  BY ZenonT(60), <1>2, <1>3, <1>4, <1>5, SweepStep

-----------------------------------------------------------------------------
(* Everything else                                                         *)

\* A server removed by others.
LEMMA VanishInv == ASSUME IInv, NEW s \in ServerId, Vanish(s) PROVE IInv'
<1>1. TypeOK /\ Fault /\ UNCHANGED <<claims, unseen, work, unavailable, gc>> /\ project' = Drop(s, "removed")
  BY DEF IInv, Vanish
<1>2. Shrinks /\ project' \in [ServerId -> ServerRec] /\ Calm
  BY ZenonT(60), <1>1, DropFacts, SameClaims
<1>3. TypeOK'
  BY <1>1, <1>2, FaultType DEF TypeOK
<1> QED
  BY <1>1, <1>2, <1>3, FrameInv, SweepStep

\* A label taken off, before or after a deletion read it.
LEMMA DisownInv == ASSUME IInv, NEW s \in ServerId, Disown(s) PROVE IInv'
<1>0. TypeOK /\ SweepOK /\ UNCHANGED <<claims, unseen, work, unavailable, gc>> /\ Fault
  BY DEF IInv, Disown
<1> DEFINE p == [project[s] EXCEPT !.owner = IF Committed(s) THEN "late" ELSE "other"]
<1>1. project' = [project EXCEPT ![s] = p] /\ project[s] \in ServerRec
  BY <1>0 DEF Disown, TypeOK
<1>2. /\ p \in ServerRec /\ p.state = project[s].state /\ p.label = project[s].label /\ p.kind = project[s].kind
      /\ p.age = project[s].age /\ (Committed(s) => p.owner # "other")
  BY ZenonT(60), <1>1 DEF ServerRec
<1> HIDE DEF p
<1>3. TypeOK'
  BY ZenonT(60), <1>0, <1>1, <1>2, FaultType DEF TypeOK
<1>4. \A t \in ServerId :
        /\ project'[t].state = project[t].state /\ project'[t].label = project[t].label
        /\ project'[t].kind = project[t].kind /\ project'[t].age = project[t].age
        /\ project[t].owner # "other" /\ Committed(t) => project'[t].owner # "other"
  BY ZenonT(60), <1>0, <1>1, <1>2 DEF TypeOK
<1>5. \A t \in {0} \cup ServerId : Up(t)' <=> Up(t)
  BY <1>4 DEF Up
<1>6. \A t : Exists(t)' <=> Exists(t)
  BY ZenonT(60), <1>0 DEF Exists
<1>7. ASSUME NEW d \in Claim PROVE ClaimOK(d)'
  <2>1. ClaimOK(d) /\ work[d].sid \in {0} \cup ServerId /\ claims[d].pid \in {0} \cup ServerId
    BY <1>0 DEF IInv, TypeOK, Work, ClaimRec
  <2>2. work[d].pc \in {"wait", "cleanup"} => Committed(work[d].sid)
    BY DEF Committed
  <2>3. work[d].pc = "delete" => Committed(claims[d].pid)
    BY DEF Committed
  <2>4. \A k : Attempt(d, k)' <=> Attempt(d, k)
    BY <1>0 DEF Attempt
  <2>5. claims[d].phase = "gone" => ~Up(claims[d].pid)'
    BY ZenonT(60), <1>0, <1>5, <2>1 DEF ClaimOK
  <2>6. /\ work[d].sid # 0 => project'[work[d].sid].state # "none"
        /\ claims[d].pid # 0 => project'[claims[d].pid].state # "none"
    BY ZenonT(60), <1>4, <2>1 DEF ClaimOK
  <2>7. Up(work[d].sid)' => /\ project'[work[d].sid].label = d
                            /\ project'[work[d].sid].kind = project[work[d].sid].kind
                            /\ work[d].pc \in {"wait", "cleanup"} => project'[work[d].sid].owner # "other"
    BY ZenonT(60), <1>0, <1>4, <1>5, <2>1, <2>2, ServerIdFacts DEF ClaimOK, Up
  <2>8. Up(claims[d].pid)' => /\ project'[claims[d].pid].label = d
                              /\ project'[claims[d].pid].kind = project[claims[d].pid].kind
                              /\ work[d].pc = "delete" => project'[claims[d].pid].owner # "other"
    BY ZenonT(60), <1>0, <1>4, <1>5, <2>1, <2>3, ServerIdFacts DEF ClaimOK, Up
  <2>9. (Up(work[d].sid)' <=> Up(work[d].sid)) /\ (Up(claims[d].pid)' <=> Up(claims[d].pid))
    BY ZenonT(60), <1>0, <1>5, <2>1
  <2> QED
    BY ZenonT(60), <1>0, <1>6, <2>1, <2>4, <2>5, <2>6, <2>7, <2>8, <2>9 DEF ClaimOK
<1>8. ASSUME NEW t \in ServerId PROVE ServerOK(t)'
  BY ZenonT(60), <1>0, <1>4, <1>5, <1>6 DEF ServerOK, IInv
<1>9. SweepOK'
  <2>1. gc.servers \subseteq ServerId /\ gc.cur \in {0} \cup ServerId /\ (gc.pc = "delete" => Committed(gc.cur))
    BY <1>0 DEF TypeOK, GC, Committed
  <2> QED
    BY ZenonT(60), <1>0, <1>4, <1>5, <1>6, <2>1 DEF SweepOK
<1> QED
  BY <1>3, <1>7, <1>8, <1>9 DEF IInv

\* A new process takes over with an informer that lags.
LEMMA CrashInv == ASSUME IInv, Crash PROVE IInv'
<1>0. TypeOK /\ Fault /\ UNCHANGED <<claims, project>> /\ gc' = NoSweep /\ unavailable' = {}
      /\ work' = [c \in Claim |-> Rest]
  BY DEF IInv, Crash
<1>1. \A c \in unseen' : c \in Claim /\ Exists(c) /\ claims[c].age <= MaxLag
  BY ZenonT(60) DEF Crash
<1>2. TypeOK'
  BY ZenonT(60), <1>0, <1>1, RestType, NoSweepOK, FaultType DEF TypeOK
<1>3. ASSUME NEW d \in Claim PROVE ClaimOK(d)'
  <2>1. ClaimOK(d) /\ work'[d] = Rest
    BY <1>0 DEF IInv
  <2> QED
    BY ZenonT(60), <1>0, <1>1, <2>1, RestType DEF ClaimOK, Up, Exists
<1> QED
  BY ZenonT(60), <1>0, <1>2, <1>3, NoSweepOK, SameProject, SameClaims, ServerFrame DEF IInv

\* A tick ages what exists and changes nothing else.
LEMMA TickInv == ASSUME IInv, Tick PROVE IInv'
<1>0. TypeOK /\ SweepOK /\ UNCHANGED <<unseen, work, unavailable, faults>> /\ gc \in GC
  BY ZenonT(60) DEF IInv, Tick, TypeOK
<1>1. ASSUME NEW c \in Claim
      PROVE  /\ claims'[c] \in ClaimRec /\ claims'[c].phase = claims[c].phase
             /\ claims'[c].pid = claims[c].pid /\ claims'[c].kind = claims[c].kind
             /\ claims'[c].age = IF Exists(c) /\ claims[c].age <= MaxLag THEN claims[c].age + 1 ELSE claims[c].age
  <2>1. claims[c] \in ClaimRec /\ claims[c].age \in 0 .. MaxLag + 1
    BY <1>0 DEF TypeOK, ClaimRec
  <2>2. CASE Exists(c) /\ claims[c].age <= MaxLag
    <3>1. claims'[c] = [claims[c] EXCEPT !.age = @ + 1]
      BY <2>2 DEF Tick
    <3>2. claims[c].age + 1 \in 0 .. MaxLag + 1
      BY <2>1, <2>2, FleetAssumption
    <3> QED
      BY <2>1, <2>2, <3>1, <3>2 DEF ClaimRec
  <2>3. CASE ~(Exists(c) /\ claims[c].age <= MaxLag)
    BY ZenonT(60), <2>1, <2>3 DEF Tick
  <2> QED
    BY ZenonT(60), <2>2, <2>3
<1>2. ASSUME NEW s \in ServerId
      PROVE  /\ project'[s] \in ServerRec /\ project'[s].state = project[s].state
             /\ project'[s].label = project[s].label /\ project'[s].kind = project[s].kind
             /\ project'[s].owner = project[s].owner
             /\ project'[s].age = IF Up(s) /\ project[s].age < MinAge THEN project[s].age + 1 ELSE project[s].age
  <2>1. project[s] \in ServerRec /\ project[s].age \in 0 .. MinAge
    BY <1>0 DEF TypeOK, ServerRec
  <2>2. CASE Up(s) /\ project[s].age < MinAge
    <3>1. project'[s] = [project[s] EXCEPT !.age = @ + 1]
      BY ZenonT(60), <2>2 DEF Tick
    <3>2. project[s].age + 1 \in 0 .. MinAge
      BY <2>1, <2>2, FleetAssumption
    <3> QED
      BY <2>1, <2>2, <3>1, <3>2 DEF ServerRec
  <2>3. CASE ~(Up(s) /\ project[s].age < MinAge)
    BY ZenonT(60), <2>1, <2>3 DEF Tick
  <2> QED
    BY ZenonT(60), <2>2, <2>3
<1>3. /\ gc' \in GC /\ gc'.pc = gc.pc /\ gc'.servers = gc.servers /\ gc'.cur = gc.cur /\ gc'.live = gc.live
      /\ gc.pc \in {"sweep", "delete"} => gc'.age = gc.age + 1
  <2>1. CASE gc.pc \in {"sweep", "delete"}
    <3>1. gc' = [gc EXCEPT !.age = @ + 1] /\ gc.age < SweepMax /\ gc.age \in 0 .. SweepMax
      BY <1>0, <2>1 DEF Tick, GC
    <3>2. gc.age + 1 \in 0 .. SweepMax
      BY <3>1, FleetAssumption
    <3> QED
      BY <1>0, <3>1, <3>2 DEF GC
  <2>2. CASE gc.pc \notin {"sweep", "delete"}
    BY ZenonT(60), <1>0, <2>2 DEF Tick
  <2> QED
    BY <2>1, <2>2
<1>4. TypeOK'
  <2>1. claims' \in [Claim -> ClaimRec]
    BY <1>1 DEF Tick
  <2>2. project' \in [ServerId -> ServerRec]
    BY ZenonT(60), <1>2 DEF Tick
  <2> QED
    BY <1>0, <1>3, <2>1, <2>2 DEF TypeOK
<1>5. \A t \in {0} \cup ServerId : Up(t)' <=> Up(t)
  BY ZenonT(60), <1>2 DEF Up
<1>6. \A c \in Claim : Exists(c)' <=> Exists(c)
  BY ZenonT(60), <1>1 DEF Exists
<1>7. ASSUME NEW d \in Claim PROVE ClaimOK(d)'
  <2>1. ClaimOK(d) /\ work[d].sid \in {0} \cup ServerId /\ claims[d].pid \in {0} \cup ServerId
    BY <1>0 DEF IInv, TypeOK, Work, ClaimRec
  <2>2. claims'[d].phase = "absent" => claims'[d].age = 0
    BY ZenonT(60), <1>1, <2>1 DEF ClaimOK, Exists
  <2>3. d \in unseen => Exists(d)' /\ claims'[d].age <= MaxLag
    <3>1. d \in unseen => Exists(d) /\ claims[d].age < MaxLag
      BY ZenonT(60), <2>1 DEF Tick, ClaimOK
    <3>2. claims[d].age \in Nat
      BY SMTT(60), <1>0, FleetAssumption DEF TypeOK, ClaimRec
    <3> QED
      BY SMTT(60), <1>1, <1>6, <3>1, <3>2, FleetAssumption
  <2>4. \A k : Attempt(d, k)' <=> Attempt(d, k)
    BY ZenonT(60), <1>0 DEF Attempt
  <2>5. /\ work[d].sid # 0 => project'[work[d].sid].state # "none"
        /\ claims[d].pid # 0 => project'[claims[d].pid].state # "none"
    BY ZenonT(60), <1>2, <2>1 DEF ClaimOK
  <2>6. Up(work[d].sid)' => /\ project'[work[d].sid].label = project[work[d].sid].label
                            /\ project'[work[d].sid].kind = project[work[d].sid].kind
                            /\ project'[work[d].sid].owner = project[work[d].sid].owner
    BY ZenonT(60), <1>0, <1>2, <2>1 DEF Up
  <2>7. Up(claims[d].pid)' => /\ project'[claims[d].pid].label = project[claims[d].pid].label
                              /\ project'[claims[d].pid].kind = project[claims[d].pid].kind
                              /\ project'[claims[d].pid].owner = project[claims[d].pid].owner
    BY ZenonT(60), <1>1, <1>2, <2>1 DEF Up
  <2>8. claims'[d].pid = claims[d].pid /\ claims'[d].kind = claims[d].kind /\ claims'[d].phase = claims[d].phase
    BY ZenonT(60), <1>1
  <2>9. (Up(work[d].sid)' <=> Up(work[d].sid)) /\ (Up(claims[d].pid)' <=> Up(claims[d].pid))
    BY ZenonT(60), <1>0, <1>5, <2>1, <2>8
  <2> QED
    BY ZenonT(60), <1>0, <1>6, <2>1, <2>2, <2>3, <2>4, <2>5, <2>6, <2>7, <2>8, <2>9 DEF ClaimOK
<1>8. ASSUME NEW s \in ServerId PROVE ServerOK(s)'
  <2> SUFFICES ASSUME Up(s), project[s].label \in Claim
               PROVE  /\ claims'[project[s].label].phase # "absent"
                      /\ Exists(project[s].label)' /\ claims'[project[s].label].age <= MaxLag =>
                           project'[s].age <= claims'[project[s].label].age
    BY ZenonT(60), <1>2, <1>5 DEF ServerOK
  <2> DEFINE c == project[s].label
  <2>1. ServerOK(s) /\ claims[c].age \in Int /\ project[s].age \in Int
    BY SMTT(60), <1>0 DEF IInv, TypeOK, ClaimRec, ServerRec
  <2>2. claims[c].phase # "absent" /\ (Exists(c) /\ claims[c].age <= MaxLag => project[s].age <= claims[c].age)
    BY ZenonT(60), <2>1 DEF ServerOK
  <2>3. /\ claims'[c].phase = claims[c].phase
        /\ claims'[c].age = IF Exists(c) /\ claims[c].age <= MaxLag THEN claims[c].age + 1 ELSE claims[c].age
        /\ project'[s].age = project[s].age + 1 \/ project'[s].age = project[s].age
        /\ Exists(c)' <=> Exists(c)
    BY ZenonT(60), <1>1, <1>2, <1>6
  <2> HIDE DEF c
  <2>4. ASSUME Exists(c)', claims'[c].age <= MaxLag PROVE project'[s].age <= claims'[c].age
    <3>1. Exists(c) /\ claims[c].age <= MaxLag
      BY ZenonT(60), <2>3, <2>4
    <3>2. claims'[c].age = claims[c].age + 1 /\ project[s].age <= claims[c].age
      BY ZenonT(60), <2>2, <2>3, <3>1
    <3>3. project'[s].age = project[s].age + 1 \/ project'[s].age = project[s].age
      BY <2>3
    <3> QED
      BY SMTT(60), <2>1, <3>2, <3>3
  <2> QED
    BY <2>2, <2>3, <2>4 DEF c
<1>9. SweepOK'
  <2>1. gc.servers \subseteq ServerId /\ gc.cur \in {0} \cup ServerId /\ gc.age \in Int
    BY SMTT(60), <1>0 DEF GC
  <2>2. ASSUME NEW s \in gc.servers, gc.pc \in {"sweep", "delete"}, Up(s), project[s].label \in Claim,
               Exists(project[s].label), project[s].label \notin gc.live
        PROVE  project'[s].age <= MaxLag + gc'.age
    <3>1. project[s].age <= MaxLag + gc.age
      BY ZenonT(60), <1>0, <2>2 DEF SweepOK
    <3>2. project[s].age \in Int
      BY SMTT(60), <1>0, <2>1, <2>2 DEF TypeOK, ServerRec
    <3>3. gc'.age = gc.age + 1
      BY ZenonT(60), <1>3, <2>2
    <3>4. project'[s].age = project[s].age + 1 \/ project'[s].age = project[s].age
      BY ZenonT(60), <1>2, <2>1
    <3> QED
      BY SMTT(60), <2>1, <3>1, <3>2, <3>3, <3>4, FleetAssumption
  <2>3. \A s \in gc.servers : project'[s].state # "none" /\ project'[s].label = project[s].label
    BY ZenonT(60), <1>0, <1>2, <2>1 DEF SweepOK
  <2>4. gc.pc = "delete" => gc.cur \in gc.servers /\ project'[gc.cur].owner = project[gc.cur].owner
    BY ZenonT(60), <1>0, <1>2, <2>1 DEF SweepOK
  <2> QED
    BY ZenonT(60), <1>0, <1>3, <1>5, <1>6, <2>1, <2>2, <2>3, <2>4 DEF SweepOK
<1> QED
  BY <1>4, <1>7, <1>8, <1>9 DEF IInv

-----------------------------------------------------------------------------
\* All steps of a create.
LEMMA CreateStepInv == ASSUME IInv, NEW c \in Claim, CreateStep(c) PROVE IInv'
BY ZenonT(60), PostAcceptedInv, PostRefusedInv, CleanupInv, RereadInv, PostTakenInv, WaitInv, AdoptInv, RecordInv
   DEF CreateStep

\* Every step preserves the invariant.
LEMMA NextInv == IInv /\ [Next]_vars => IInv'
<1> SUFFICES ASSUME IInv, [Next]_vars PROVE IInv'
  OBVIOUS
<1>1. ASSUME NEW c \in Claim, NewClaim(c) \/ Observe(c) \/ DeleteClaim(c) \/ Begin(c) PROVE IInv'
  BY <1>1, NewClaimInv, ObserveInv, DeleteClaimInv, BeginInv
<1>2. ASSUME NEW c \in Claim, CreateStep(c) PROVE IInv'
  BY <1>2, CreateStepInv
<1>3. ASSUME NEW c \in Claim, FinalStep(c) PROVE IInv'
  BY ZenonT(60), <1>3, FinalizeInv, FinalDeleteInv DEF FinalStep
<1>4. ASSUME NEW k \in Candidate, Expire(k) PROVE IInv'
  BY <1>4, ExpireInv
<1>5. ASSUME NEW s \in ServerId, Disown(s) \/ Vanish(s) PROVE IInv'
  BY <1>5, DisownInv, VanishInv
<1>6. CASE GcStep
  BY <1>6, GcListInv, GcClaimsInv, GcNextInv, GcDeleteInv DEF GcStep
<1>7. CASE Crash
  BY <1>7, CrashInv
<1>8. CASE Tick
  BY ZenonT(60), <1>8, TickInv
<1>9. CASE UNCHANGED vars
  BY ZenonT(60), <1>9 DEF vars, IInv, TypeOK, ClaimOK, ServerOK, SweepOK, Up, Exists, Attempt
<1> QED
  BY ZenonT(60), <1>1, <1>2, <1>3, <1>4, <1>5, <1>6, <1>7, <1>8, <1>9 DEF Next

\* The invariant holds throughout.
LEMMA Invariance == Spec => []IInv
BY InitInv, NextInv, PTL DEF Spec

-----------------------------------------------------------------------------
(* Theorems                                                                *)

\* Type correctness, for any fleet: among others, every error that reaches the
\* switch of Provider.Create has a class the switch knows, and no worker ever
\* holds an id Hetzner did not hand out.
THEOREM TypeCorrect == Spec => []TypeOK
BY Invariance, PTL DEF IInv

\* However creates, deletions, crashes and a late informer interleave with it, the
\* orphan sweep never sets out to delete the server of a NodeClaim that exists, as
\* long as minAge is longer than the informer's lag and a sweep together.
THEOREM SweepSparesLiveClaims == Spec => []GCSparesLiveClaims
<1>1. IInv => GCSparesLiveClaims
  BY ZenonT(60) DEF IInv, SweepOK, GCSparesLiveClaims
<1> QED
  BY <1>1, Invariance, PTL

\* A NodeClaim never records a server made for another one, not even by adoption.
THEOREM RecordedServerIsOwn == Spec => []ProviderIDIsOwn
<1>1. IInv => ProviderIDIsOwn
  BY ZenonT(60) DEF IInv, ClaimOK, ProviderIDIsOwn
<1> QED
  BY <1>1, Invariance, PTL

\* The capacity core publishes is that of the server the NodeClaim has, also after
\* retries over several candidates and an adoption.
THEOREM PublishedCapacityIsReal == Spec => []CapacityIsReal
<1>1. IInv => CapacityIsReal
  BY ZenonT(60) DEF IInv, ClaimOK, CapacityIsReal
<1> QED
  BY <1>1, Invariance, PTL

\* Core never lets go of a NodeClaim whose recorded server is still up.
THEOREM ReleaseMeansGone == Spec => []NothingLeftBehind
<1>1. IInv => NothingLeftBehind
  BY ZenonT(60) DEF IInv, ClaimOK, NothingLeftBehind
<1> QED
  BY <1>1, Invariance, PTL

\* Only three kinds of step delete a server, and each of them looked first.
LEMMA DeletesOwnOnly ==
  ASSUME IInv, [Next]_vars, NEW s \in ServerId, Up(s), project[s].owner = "other"
  PROVE  project'[s].state # "deleted"
<1>0. TypeOK /\ project[s].state = "up"
  BY ZenonT(60) DEF IInv, Up
<1>1. CASE UNCHANGED project
  BY <1>0, <1>1
<1>2. ASSUME NEW t \in {0} \cup ServerId, t # s, NEW how, project' = Drop(t, how) PROVE project'[s].state # "deleted"
  BY ZenonT(60), <1>0, <1>2 DEF Drop, TypeOK
<1>3. ASSUME NEW c \in Claim, CreateStep(c) PROVE project'[s].state # "deleted"
  <2>1. ASSUME NEW k \in Candidate, NEW t \in ServerId, PostAccepted(c, k, t) PROVE project'[s].state # "deleted"
    BY ZenonT(60), <1>0, <2>1 DEF PostAccepted, TypeOK, NextId
  <2>2. ASSUME NEW k \in Candidate, Cleanup(c, k) PROVE project'[s].state # "deleted"
    <3>1. work[c].sid # s /\ work[c].sid \in {0} \cup ServerId
      BY ZenonT(60), <1>0, <2>2 DEF Cleanup, IInv, ClaimOK, TypeOK, Work
    <3> QED
      BY ZenonT(60), <1>1, <1>2, <2>2, <3>1 DEF Cleanup
  <2>3. ASSUME NEW k \in Candidate, (\E class \in Class : PostRefused(c, k, class)) \/ Reread(c, k)
        PROVE  UNCHANGED project
    BY ZenonT(60), <2>3 DEF PostRefused, Reread
  <2>4. PostTaken(c) \/ Wait(c) \/ Adopt(c) \/ Record(c) => UNCHANGED project
    BY ZenonT(60) DEF PostTaken, Wait, Adopt, Record
  <2> QED
    BY ZenonT(60), <1>1, <1>3, <2>1, <2>2, <2>3, <2>4 DEF CreateStep
<1>4. ASSUME NEW c \in Claim, FinalStep(c) PROVE project'[s].state # "deleted"
  <2>1. CASE Finalize(c)
    BY ZenonT(60), <1>1, <2>1 DEF Finalize
  <2>2. CASE FinalDelete(c)
    <3>1. claims[c].pid # s /\ claims[c].pid \in {0} \cup ServerId
      BY ZenonT(60), <1>0, <2>2 DEF FinalDelete, IInv, ClaimOK, TypeOK, ClaimRec
    <3> QED
      BY ZenonT(60), <1>1, <1>2, <2>2, <3>1 DEF FinalDelete
  <2> QED
    BY <1>4, <2>1, <2>2 DEF FinalStep
<1>5. CASE GcStep
  <2>1. CASE GcDelete
    <3>1. gc.cur # s /\ gc.cur \in {0} \cup ServerId
      BY ZenonT(60), <1>0, <2>1 DEF GcDelete, IInv, SweepOK, TypeOK, GC
    <3> QED
      BY ZenonT(60), <1>1, <1>2, <2>1, <3>1 DEF GcDelete
  <2>2. GcList \/ GcClaims \/ (\E t \in ServerId : GcNext(t)) => UNCHANGED project
    BY ZenonT(60) DEF GcList, GcClaims, GcNext
  <2> QED
    BY ZenonT(60), <1>1, <1>5, <2>1, <2>2 DEF GcStep
<1>6. ASSUME NEW t \in ServerId, Disown(t) \/ Vanish(t) PROVE project'[s].state # "deleted"
  <2>1. CASE Disown(t)
    BY ZenonT(60), <1>0, <2>1 DEF Disown, TypeOK, ServerRec
  <2>2. CASE Vanish(t)
    BY ZenonT(60), <1>0, <2>2 DEF Vanish, Drop, NoServer, TypeOK
  <2> QED
    BY ZenonT(60), <1>6, <2>1, <2>2
<1>7. CASE Tick
  BY ZenonT(60), <1>0, <1>7 DEF Tick, TypeOK, ServerRec
<1>8. ASSUME NEW c \in Claim, NewClaim(c) \/ Observe(c) \/ DeleteClaim(c) \/ Begin(c) PROVE UNCHANGED project
  BY ZenonT(60), <1>8 DEF NewClaim, Observe, DeleteClaim, Begin
<1>9. (\E k \in Candidate : Expire(k)) \/ Crash \/ UNCHANGED vars => UNCHANGED project
  BY ZenonT(60) DEF Expire, Crash, vars
<1> QED
  BY ZenonT(60), <1>1, <1>3, <1>4, <1>5, <1>6, <1>7, <1>8, <1>9 DEF Next

\* Nothing this program does deletes a server that was not this cluster's when the
\* deletion read it.
THEOREM NeverDeletesOthers == Spec => NotOursUntouched
<1>1. IInv /\ [Next]_vars =>
        [\A s \in ServerId : Up(s) /\ project[s].owner = "other" => project'[s].state # "deleted"]_vars
  BY DeletesOwnOnly
<1> QED
  BY <1>1, Invariance, PTL DEF Spec, NotOursUntouched

-----------------------------------------------------------------------------
(* Repair by reset, for every size of the page Hetzner's action log is read   *)
(* by, any skew of its clock, and any number of operations, retries, lost     *)
(* answers and actions of others.                                             *)

Action == [command : Commands \cup {"reset_server"}, status : {"running", "success", "error"},
           started : Int, op : Nat, call : Nat]

RebootType ==
  /\ server \in [exists : BOOLEAN, ours : BOOLEAN, status : {"running", "off"}]
  /\ actions \in Seq(Action)
  /\ op \in [phase : {"none", "call", "list", "reset", "done", "refused", "notfound"}, at : Nat,
             status : {"running", "off"}, call : Nat, touched : BOOLEAN]
  /\ skew \in Int /\ ops \in Nat /\ clock \in Nat /\ failures \in Nat

\* The log is newest first; what is ours in it is a reset, for an operation so far.
LogInv ==
  /\ \A i \in DOMAIN actions : actions[i].started <= clock + skew
  /\ \A i, j \in DOMAIN actions : i <= j => actions[j].started <= actions[i].started
  /\ \A i \in DOMAIN actions : actions[i].op <= ops /\ (actions[i].op # 0 => actions[i].command = "reset_server")
  /\ op.phase # "none" => ops # 0
  /\ op.phase \in {"list", "reset"} => op.call # 0

\* More has happened to the server since the request than the page holds.
Overflow == Len(actions) > Page /\ actions[Page + 1].started >= op.at

\* Recognisable, without counting.
Visible == op.at # 0 /\ ~Overflow /\ \A i \in DOMAIN actions : Mine(actions[i]) => actions[i].started >= op.at

Stands(i) == Mine(actions[i]) /\ actions[i].status # "error"

DoneCause ==
  \E i \in DOMAIN actions : /\ actions[i].command = "reset_server"
                            /\ (Mine(actions[i]) \/ (op.at # 0 /\ actions[i].started >= op.at))

\* A call about to reset has seen no reset of the operation that stands, so those
\* there are it asked for itself.
OnceInv ==
  /\ Visible => \A i, j \in DOMAIN actions : Stands(i) /\ Stands(j) => actions[i].call = actions[j].call
  /\ Visible /\ op.phase = "reset" => \A i \in DOMAIN actions : Stands(i) => actions[i].call = op.call
  /\ op.phase = "done" => DoneCause

\* What a call knows of the server stays true until someone touches it.
HeldInv ==
  /\ op.phase \in {"list", "reset"} /\ ~op.touched => server.status = op.status
  /\ op.phase = "reset" /\ ~op.touched => op.status # "off" /\ \A i \in DOMAIN actions : HeldDown(i) => i > Page

RebootInv == RebootType /\ LogInv /\ OnceInv /\ HeldInv

\* An operation starts from an empty log.
LEMMA RebootStarts == RebootInit => RebootInv
<1> SUFFICES ASSUME RebootInit PROVE RebootInv
  OBVIOUS
<1>1. /\ op = [phase |-> "none", at |-> 0, status |-> "running", call |-> 0, touched |-> FALSE] /\ actions = <<>>
      /\ clock = 1 /\ ops = 0 /\ failures = 0 /\ skew \in Int
  BY BoundsAreSane DEF RebootInit, NoOp
<1>2. RebootType
  <2>1. server \in [exists : BOOLEAN, ours : BOOLEAN, status : {"running", "off"}]
    BY Zenon DEF RebootInit
  <2>2. op \in [phase : {"none", "call", "list", "reset", "done", "refused", "notfound"}, at : Nat,
                status : {"running", "off"}, call : Nat, touched : BOOLEAN]
    BY <1>1
  <2> QED BY <1>1, <2>1, <2>2 DEF RebootType
<1>3. LogInv /\ OnceInv /\ HeldInv
  BY <1>1 DEF LogInv, OnceInv, HeldInv
<1> QED BY <1>2, <1>3 DEF RebootInv

\* What is in the log.
LEMMA Entries ==
  ASSUME RebootType
  PROVE  /\ Len(actions) \in Nat /\ DOMAIN actions = 1 .. Len(actions) /\ Page \in Nat \ {0}
         /\ \A i \in DOMAIN actions : /\ actions[i] \in Action /\ actions[i].started \in Int
                                       /\ actions[i].op \in Nat /\ actions[i].call \in Nat
<1>1. Len(actions) \in Nat /\ DOMAIN actions = 1 .. Len(actions)
  BY DEF RebootType
<1>2. \A i \in DOMAIN actions : actions[i] \in Action
  BY <1>1 DEF RebootType
<1> QED BY <1>1, <1>2, BoundsAreSane DEF Action

\* What a new entry does to the log.
LEMMA Logged ==
  ASSUME RebootType, NEW a \in Action, actions' = <<a>> \o actions
  PROVE  /\ actions' \in Seq(Action) /\ Len(actions) \in Nat /\ Len(actions') = Len(actions) + 1
         /\ DOMAIN actions = 1 .. Len(actions) /\ DOMAIN actions' = 1 .. Len(actions) + 1
         /\ actions'[1] = a
         /\ \A i \in DOMAIN actions : actions'[i + 1] = actions[i]
         /\ \A i \in DOMAIN actions' : i = 1 \/ (i - 1 \in DOMAIN actions /\ actions'[i] = actions[i - 1])
  BY DEF RebootType

\* Whatever is logged, the order stays, the page overflows no less, and so no less of
\* the operation is out of sight.
LEMMA LogKeeps ==
  ASSUME RebootInv, NEW a \in Action, a.started = clock + skew, a.op \in {0, ops}, a.op # 0 => a.command = "reset_server",
         actions' = <<a>> \o actions, UNCHANGED <<clock, skew, ops>>, op'.at = op.at,
         op'.phase # "none" => ops # 0, op'.phase \in {"list", "reset"} => op'.call # 0
  PROVE  LogInv' /\ (Overflow => Overflow') /\ (Visible' => Visible) /\ (DoneCause => DoneCause')
<1>0. /\ RebootType /\ LogInv /\ Page \in Nat \ {0} /\ clock \in Nat /\ skew \in Int /\ ops \in Nat /\ op.at \in Nat
      /\ \A i \in DOMAIN actions : actions[i].started \in Int /\ actions[i].op \in Nat
  <2>1. RebootType /\ LogInv
    BY DEF RebootInv
  <2>2. clock \in Nat /\ op.at \in Nat /\ skew \in Int /\ ops \in Nat
    BY <2>1 DEF RebootType
  <2> QED BY <2>1, <2>2, Entries
<1>1. /\ actions' \in Seq(Action) /\ Len(actions) \in Nat /\ Len(actions') = Len(actions) + 1
      /\ DOMAIN actions = 1 .. Len(actions) /\ DOMAIN actions' = 1 .. Len(actions) + 1
      /\ actions'[1] = a
      /\ \A i \in DOMAIN actions : actions'[i + 1] = actions[i]
      /\ \A i \in DOMAIN actions' : i = 1 \/ (i - 1 \in DOMAIN actions /\ actions'[i] = actions[i - 1])
  BY <1>0, Logged
<1>2. LogInv'
  <2>1. \A i \in DOMAIN actions' : actions'[i].started <= clock' + skew'
    BY <1>0, <1>1 DEF LogInv
  <2>2. ASSUME NEW i \in DOMAIN actions', NEW j \in DOMAIN actions', i <= j
        PROVE  actions'[j].started <= actions'[i].started
    <3>1. CASE i = 1
      BY <3>1, <2>1, <1>1
    <3>2. CASE i # 1
      <4>1. /\ i - 1 \in DOMAIN actions /\ actions'[i] = actions[i - 1]
            /\ j - 1 \in DOMAIN actions /\ actions'[j] = actions[j - 1] /\ i - 1 <= j - 1
        BY <3>2, <2>2, <1>1
      <4> QED BY <4>1, <1>0 DEF LogInv
    <3> QED BY <3>1, <3>2
  <2>3. ASSUME NEW i \in DOMAIN actions'
        PROVE  actions'[i].op <= ops' /\ (actions'[i].op # 0 => actions'[i].command = "reset_server")
    <3>1. CASE i = 1
      BY <3>1, <1>0, <1>1
    <3>2. CASE i # 1
      BY <3>2, <1>0, <1>1 DEF LogInv
    <3> QED BY <3>1, <3>2
  <2> QED BY <2>1, <2>2, <2>3 DEF LogInv
<1>3. Overflow => Overflow'
  <2> SUFFICES ASSUME Overflow PROVE Overflow'
    OBVIOUS
  <2>1. Page \in DOMAIN actions /\ Page + 1 \in DOMAIN actions
    BY <1>0, <1>1 DEF Overflow
  <2>2. actions'[Page + 1] = actions[Page] /\ actions[Page + 1].started <= actions[Page].started
    <3>1. actions'[Page + 1] = actions[Page]
      BY <2>1, <1>1
    <3>2. Page <= Page + 1
      BY <1>0
    <3> QED BY <2>1, <3>1, <3>2, <1>0 DEF LogInv
  <2>3. actions[Page + 1].started >= op.at /\ actions[Page + 1].started \in Int /\ actions[Page].started \in Int
    BY <2>1, <1>0 DEF Overflow
  <2>4. Len(actions') > Page
    BY <2>1, <1>0, <1>1
  <2>5. actions'[Page + 1].started >= op.at
    <3>1. op.at \in Nat
      BY <1>0
    <3>2. actions[Page].started >= op.at
      BY <3>1, <2>2, <2>3
    <3> QED BY <3>2, <2>2
  <2> QED BY <2>4, <2>5 DEF Overflow
<1>4. Visible' => Visible
  <2> SUFFICES ASSUME Visible' PROVE Visible
    OBVIOUS
  <2>1. op.at # 0 /\ ~Overflow
    BY <1>3 DEF Visible
  <2>2. ASSUME NEW i \in DOMAIN actions, Mine(actions[i]) PROVE actions[i].started >= op.at
    <3>1. i + 1 \in DOMAIN actions' /\ actions'[i + 1] = actions[i]
      BY <1>1
    <3> QED BY <2>2, <3>1 DEF Visible, Mine
  <2> QED BY <2>1, <2>2 DEF Visible
<1>5. DoneCause => DoneCause'
  <2> SUFFICES ASSUME DoneCause PROVE DoneCause'
    OBVIOUS
  <2>1. PICK i \in DOMAIN actions : /\ actions[i].command = "reset_server"
                                    /\ (Mine(actions[i]) \/ (op.at # 0 /\ actions[i].started >= op.at))
    BY DEF DoneCause
  <2>2. i + 1 \in DOMAIN actions' /\ actions'[i + 1] = actions[i]
    BY <1>1
  <2> QED BY <2>1, <2>2 DEF DoneCause, Mine
<1> QED BY <1>2, <1>3, <1>4, <1>5

\* The log as it was, but that an entry may have been settled.
SameLog ==
  /\ DOMAIN actions' = DOMAIN actions /\ Len(actions') = Len(actions)
  /\ \A i \in DOMAIN actions :
       /\ actions'[i].command = actions[i].command /\ actions'[i].started = actions[i].started
       /\ actions'[i].op = actions[i].op /\ actions'[i].call = actions[i].call
       /\ actions[i].status = "error" => actions'[i].status = "error"

\* It says the same of the operation, wherever that is.
LEMMA SameLogKeeps ==
  ASSUME RebootInv, SameLog, UNCHANGED <<skew, ops>>, clock' \in Nat, clock' >= clock, op'.at = op.at,
         op'.phase # "none" => op.phase # "none", op'.phase \in {"list", "reset"} => op'.call # 0
  PROVE  /\ LogInv' /\ (Overflow' <=> Overflow) /\ (Visible' <=> Visible) /\ (DoneCause' <=> DoneCause)
         /\ \A i \in DOMAIN actions : Stands(i)' => Stands(i)
<1>0. /\ RebootType /\ LogInv /\ Page \in Nat \ {0} /\ clock \in Nat /\ skew \in Int /\ ops \in Nat /\ op.at \in Nat
      /\ Len(actions) \in Nat /\ DOMAIN actions = 1 .. Len(actions)
      /\ \A i \in DOMAIN actions : actions[i].started \in Int /\ actions[i].op \in Nat
  <2>1. RebootType /\ LogInv
    BY DEF RebootInv
  <2>2. clock \in Nat /\ op.at \in Nat /\ skew \in Int /\ ops \in Nat
    BY <2>1 DEF RebootType
  <2> QED BY <2>1, <2>2, Entries
<1>1. LogInv'
  <2>1. \A i \in DOMAIN actions' : actions'[i].started <= clock' + skew'
    BY <1>0 DEF LogInv, SameLog
  <2>2. \A i, j \in DOMAIN actions' : i <= j => actions'[j].started <= actions'[i].started
    BY <1>0 DEF LogInv, SameLog
  <2>3. \A i \in DOMAIN actions' : actions'[i].op <= ops' /\ (actions'[i].op # 0 => actions'[i].command = "reset_server")
    BY <1>0 DEF LogInv, SameLog
  <2> QED BY <1>0, <2>1, <2>2, <2>3 DEF LogInv
<1>2. Overflow' <=> Overflow
  <2>1. Len(actions) > Page => Page + 1 \in DOMAIN actions
    BY <1>0
  <2> QED BY <2>1 DEF Overflow, SameLog
<1>3. \A i \in DOMAIN actions : Mine(actions[i])' <=> Mine(actions[i])
  BY DEF SameLog, Mine
<1>4. Visible' <=> Visible
  BY <1>2, <1>3 DEF Visible, SameLog
<1>5. DoneCause' <=> DoneCause
  BY <1>3 DEF DoneCause, SameLog
<1>6. \A i \in DOMAIN actions : Stands(i)' => Stands(i)
  BY <1>3 DEF Stands, SameLog
<1> QED BY <1>1, <1>2, <1>4, <1>5, <1>6

\* An untouched log is the same log.
LEMMA Unlogged == ASSUME actions' = actions PROVE SameLog
  BY DEF SameLog

\* Where the operation stays as it is.
LEMMA QuietKeeps ==
  ASSUME RebootInv, SameLog, UNCHANGED <<skew, ops>>, clock' \in Nat, clock' >= clock,
         op'.at = op.at, op'.phase = op.phase, op'.call = op.call
  PROVE  LogInv' /\ OnceInv'
<1>1. op.phase \in {"list", "reset"} => op.call # 0
  BY DEF RebootInv, LogInv
<1>2. /\ LogInv' /\ (Visible' <=> Visible) /\ (DoneCause' <=> DoneCause)
      /\ \A i \in DOMAIN actions : Stands(i)' => Stands(i)
  BY <1>1, SameLogKeeps
<1>3. /\ DOMAIN actions' = DOMAIN actions /\ \A i \in DOMAIN actions : actions'[i].call = actions[i].call
  BY DEF SameLog
<1>4. OnceInv
  BY DEF RebootInv
<1>5. Visible' => \A i, j \in DOMAIN actions' : Stands(i)' /\ Stands(j)' => actions'[i].call = actions'[j].call
  BY <1>2, <1>3, <1>4 DEF OnceInv
<1>6. Visible' /\ op'.phase = "reset" => \A i \in DOMAIN actions' : Stands(i)' => actions'[i].call = op'.call
  BY <1>2, <1>3, <1>4 DEF OnceInv
<1>7. op'.phase = "done" => DoneCause'
  BY <1>2, <1>4 DEF OnceInv
<1> QED BY <1>2, <1>5, <1>6, <1>7 DEF OnceInv

\* Where a call moves on without a verdict or a reset.
LEMMA PhaseKeeps ==
  ASSUME RebootInv, actions' = actions, UNCHANGED <<server, skew, ops, clock>>, failures' \in Nat, op.phase # "none",
         op' \in [phase : {"none", "call", "list", "reset", "done", "refused", "notfound"}, at : Nat,
                 status : {"running", "off"}, call : Nat, touched : BOOLEAN],
         op'.at = op.at, op'.phase \in {"call", "list", "refused", "notfound"},
         op'.phase = "list" => op'.call # 0 /\ op'.status = server.status
  PROVE  RebootInv'
<1>0. RebootType /\ OnceInv /\ clock \in Nat
  BY DEF RebootInv, RebootType
<1>1. LogInv' /\ (Visible' <=> Visible) /\ \A i \in DOMAIN actions : Stands(i)' => Stands(i)
  BY <1>0, Unlogged, SameLogKeeps
<1>2. OnceInv'
  BY <1>0, <1>1 DEF OnceInv
<1>3. RebootType'
  BY <1>0 DEF RebootType
<1>4. HeldInv'
  BY DEF HeldInv
<1> QED BY <1>1, <1>2, <1>3, <1>4 DEF RebootInv

\* The verdict is to reset only if no reset of the operation that stands is in sight.
LEMMA JudgeKeeps ==
  ASSUME RebootInv, op.phase = "list", actions' = actions, UNCHANGED <<server, skew, ops, clock>>, failures' \in Nat,
         op' = [op EXCEPT !.phase = Verdict(RecentActions)]
  PROVE  RebootInv'
<1> DEFINE page == RecentActions
<1>0. /\ RebootType /\ LogInv /\ OnceInv /\ HeldInv /\ Page \in Nat \ {0} /\ Len(actions) \in Nat /\ clock \in Nat
      /\ DOMAIN actions = 1 .. Len(actions) /\ op.at \in Nat /\ op.call # 0
      /\ \A i \in DOMAIN actions : actions[i].started \in Int
  <2>1. RebootType /\ LogInv /\ OnceInv /\ HeldInv
    BY DEF RebootInv
  <2>2. op.at \in Nat /\ op.call # 0 /\ clock \in Nat
    BY <2>1 DEF RebootType, LogInv
  <2> QED BY <2>1, <2>2, Entries
<1>1. \A i \in DOMAIN actions : i <= Page => i \in DOMAIN page /\ page[i] = actions[i]
  BY <1>0 DEF RecentActions
<1>1a. \A i \in DOMAIN page : i \in DOMAIN actions /\ page[i] = actions[i]
  BY <1>0 DEF RecentActions
<1> HIDE DEF page
<1>2. Verdict(page) \in {"refused", "done", "reset"}
  BY DEF Verdict
<1>3. /\ op'.phase = Verdict(page) /\ op'.at = op.at /\ op'.call = op.call /\ op'.status = op.status
      /\ op'.touched = op.touched /\ op' \in [phase : {"none", "call", "list", "reset", "done", "refused", "notfound"}, at : Nat,
                 status : {"running", "off"}, call : Nat, touched : BOOLEAN]
  BY <1>0, <1>2 DEF RebootType, page
<1>4. RebootType'
  BY <1>0, <1>3 DEF RebootType
<1>5. LogInv' /\ (Visible' <=> Visible) /\ (DoneCause' <=> DoneCause) /\ \A i \in DOMAIN actions : Stands(i)' => Stands(i)
  BY <1>0, <1>3, Unlogged, SameLogKeeps
<1>6. ASSUME Verdict(page) = "reset", Visible, NEW i \in DOMAIN actions PROVE ~Stands(i)
  <2> SUFFICES ASSUME Stands(i) PROVE FALSE
    OBVIOUS
  <2>1. Mine(actions[i]) /\ actions[i].status # "error" /\ actions[i].started >= op.at /\ op.at # 0
    BY <1>6 DEF Stands, Visible
  <2>2. actions[i].command = "reset_server"
    BY <1>0, <2>1 DEF LogInv, Mine
  <2>3. Counts(actions[i])
    BY <2>1, <2>2 DEF Counts
  <2>4. ~ (\E k \in DOMAIN page : Counts(page[k]))
    BY <1>6 DEF Verdict
  <2>5. ~ (i <= Page)
    BY <2>3, <2>4, <1>1
  <2>6. Page + 1 \in DOMAIN actions /\ Page + 1 <= i /\ Len(actions) > Page
    BY <2>5, <1>0
  <2>7. actions[i].started <= actions[Page + 1].started
    BY <2>6, <1>0 DEF LogInv
  <2>8. Overflow
    BY <2>1, <2>6, <2>7, <1>0 DEF Overflow
  <2> QED BY <1>6, <2>8 DEF Visible
<1>7. ASSUME Verdict(page) = "done" PROVE DoneCause
  <2>1. PICK k \in DOMAIN page : Counts(page[k])
    BY <1>7 DEF Verdict
  <2> QED BY <2>1, <1>1a DEF Counts, DoneCause
<1>8. OnceInv'
  <2>1. Visible' => \A i, j \in DOMAIN actions' : Stands(i)' /\ Stands(j)' => actions'[i].call = actions'[j].call
    BY <1>0, <1>5 DEF OnceInv
  <2>2. Visible' /\ op'.phase = "reset" => \A i \in DOMAIN actions' : Stands(i)' => actions'[i].call = op'.call
    BY <1>3, <1>5, <1>6
  <2>3. op'.phase = "done" => DoneCause'
    BY <1>3, <1>5, <1>7
  <2> QED BY <2>1, <2>2, <2>3 DEF OnceInv
<1>9. HeldInv'
  <2>1. ~op.touched => server.status = op.status
    BY <1>0 DEF HeldInv
  <2>2. ASSUME Verdict(page) = "reset" PROVE op.status # "off" /\ \A i \in DOMAIN actions : HeldDown(i) => i > Page
    <3>1. op.status # "off"
      BY <2>2 DEF Verdict
    <3>2. ASSUME NEW i \in DOMAIN actions, HeldDown(i), i <= Page PROVE FALSE
      <4>1. i \in DOMAIN page /\ page[i] = actions[i]
        BY <1>1, <3>2
      <4> QED BY <2>2, <3>2, <4>1 DEF Verdict, HeldDown
    <3> QED BY <1>0, <3>1, <3>2
  <2>3. \A i \in DOMAIN actions : HeldDown(i)' => HeldDown(i)
    BY DEF HeldDown
  <2> QED BY <1>3, <2>1, <2>2, <2>3 DEF HeldInv
<1> QED BY <1>4, <1>5, <1>8, <1>9 DEF RebootInv

\* A reset that Hetzner accepts, whether or not the call learns of it.
LEMMA ResetKeeps ==
  ASSUME RebootInv, op.phase = "reset", UNCHANGED <<server, skew, ops, clock>>, failures' \in Nat,
         Log("reset_server", op.call), NEW ph \in {"call", "reset", "done"}, op' = [op EXCEPT !.phase = ph]
  PROVE  RebootInv'
<1> DEFINE a == [command |-> "reset_server", status |-> "running", started |-> clock + skew, op |-> ops, call |-> op.call]
<1>0. /\ RebootType /\ LogInv /\ OnceInv /\ HeldInv /\ clock \in Nat /\ skew \in Int /\ ops \in Nat /\ ops # 0
      /\ op.call \in Nat /\ op.call # 0 /\ Page \in Nat \ {0}
  BY BoundsAreSane DEF RebootInv, RebootType, LogInv
<1>1. a \in Action /\ a.started = clock + skew /\ a.command = "reset_server" /\ a.op = ops /\ a.call = op.call
  BY <1>0 DEF Action
<1>2. actions' = <<a>> \o actions
  BY <1>0 DEF Log
<1> HIDE DEF a
<1>3. /\ op'.phase = ph /\ op'.at = op.at /\ op'.call = op.call /\ op'.status = op.status /\ op'.touched = op.touched
      /\ op' \in [phase : {"none", "call", "list", "reset", "done", "refused", "notfound"}, at : Nat,
                 status : {"running", "off"}, call : Nat, touched : BOOLEAN]
  BY <1>0 DEF RebootType
<1>4. /\ actions' \in Seq(Action) /\ Len(actions) \in Nat /\ 1 \in DOMAIN actions' /\ actions'[1] = a
      /\ \A i \in DOMAIN actions' : i = 1 \/ (i - 1 \in DOMAIN actions /\ actions'[i] = actions[i - 1])
      /\ DOMAIN actions = 1 .. Len(actions) /\ DOMAIN actions' = 1 .. Len(actions) + 1
  <2>1. /\ actions' \in Seq(Action) /\ Len(actions) \in Nat /\ DOMAIN actions' = 1 .. Len(actions) + 1 /\ actions'[1] = a
        /\ \A i \in DOMAIN actions' : i = 1 \/ (i - 1 \in DOMAIN actions /\ actions'[i] = actions[i - 1])
        /\ DOMAIN actions = 1 .. Len(actions)
    BY <1>0, <1>1, <1>2, Logged, Zenon
  <2>2. 1 \in 1 .. Len(actions) + 1
    BY <2>1
  <2> QED BY <2>1, <2>2
<1>5. RebootType'
  BY <1>0, <1>3, <1>4 DEF RebootType
<1>6. LogInv' /\ (Visible' => Visible)
  BY <1>0, <1>1, <1>2, <1>3, LogKeeps
<1>7. ASSUME Visible', NEW i \in DOMAIN actions', Stands(i)' PROVE actions'[i].call = op.call
  <2>1. CASE i = 1
    BY <2>1, <1>1, <1>4
  <2>2. CASE i # 1
    <3>1. i - 1 \in DOMAIN actions /\ actions'[i] = actions[i - 1]
      BY <2>2, <1>4
    <3>2. Stands(i - 1)
      BY <1>7, <3>1 DEF Stands, Mine
    <3> QED BY <3>1, <3>2, <1>6, <1>7, <1>0 DEF OnceInv
  <2> QED BY <2>1, <2>2
<1>8. DoneCause'
  <2>1. Mine(actions[1])'
    BY <1>0, <1>1, <1>4 DEF Mine
  <2> QED BY <2>1, <1>1, <1>4 DEF DoneCause
<1>9. OnceInv'
  BY <1>3, <1>7, <1>8 DEF OnceInv
<1>10. HeldInv'
  <2>1. ~op.touched => server.status = op.status /\ op.status # "off"
    BY <1>0 DEF HeldInv
  <2>2. ASSUME ~op.touched, NEW i \in DOMAIN actions', HeldDown(i)' PROVE i > Page
    <3>1. i # 1
      BY <2>2, <1>1, <1>4 DEF HeldDown, heldDown
    <3>2. i - 1 \in DOMAIN actions /\ actions'[i] = actions[i - 1]
      BY <3>1, <1>4
    <3>3. HeldDown(i - 1)
      BY <2>2, <3>2 DEF HeldDown
    <3>4. i - 1 > Page /\ i - 1 \in Nat
      BY <2>2, <3>2, <3>3, <1>0, <1>4 DEF HeldInv
    <3>5. i \in Nat
      BY <1>4
    <3> QED BY <3>4, <3>5, <1>0
  <2> QED BY <1>3, <2>1, <2>2 DEF HeldInv
<1> QED BY <1>5, <1>6, <1>9, <1>10 DEF RebootInv

\* What someone else does to the server makes a call in flight touched, nothing more.
LEMMA TouchFacts ==
  ASSUME RebootType, Touch
  PROVE  /\ op'.phase = op.phase /\ op'.at = op.at /\ op'.call = op.call /\ op'.status = op.status
         /\ op.phase \in {"list", "reset"} => op'.touched
         /\ op' \in [phase : {"none", "call", "list", "reset", "done", "refused", "notfound"}, at : Nat,
                 status : {"running", "off"}, call : Nat, touched : BOOLEAN]
<1> DEFINE b == op.phase \in {"list", "reset"}
<1>1. b \in BOOLEAN /\ op' = [op EXCEPT !.touched = b]
  BY DEF Touch
<1>2. op.phase \in {"list", "reset"} => b
  OBVIOUS
<1> HIDE DEF b
<1>3. op \in [phase : {"none", "call", "list", "reset", "done", "refused", "notfound"}, at : Nat,
              status : {"running", "off"}, call : Nat, touched : BOOLEAN]
  BY DEF RebootType
<1>4. /\ op'.phase = op.phase /\ op'.at = op.at /\ op'.call = op.call /\ op'.status = op.status
      /\ op'.touched = b
      /\ op' \in [phase : {"none", "call", "list", "reset", "done", "refused", "notfound"}, at : Nat,
                  status : {"running", "off"}, call : Nat, touched : BOOLEAN]
  BY <1>1, <1>3, Zenon
<1> QED BY <1>2, <1>4

\* Others' actions shift the log under the operation.
LEMMA OtherLogKeeps ==
  ASSUME RebootInv, NEW command \in Commands, Log(command, 0), Touch, UNCHANGED <<server, skew, ops, clock, failures>>
  PROVE  RebootInv'
<1> DEFINE a == [command |-> command, status |-> "running", started |-> clock + skew, op |-> 0, call |-> 0]
<1>0. RebootType /\ LogInv /\ OnceInv /\ clock \in Nat /\ skew \in Int /\ ops \in Nat
  BY DEF RebootInv, RebootType
<1>1. a \in Action /\ a.started = clock + skew /\ a.op = 0
  BY <1>0 DEF Action
<1>2. actions' = <<a>> \o actions
  BY DEF Log
<1> HIDE DEF a
<1>3. /\ op'.phase = op.phase /\ op'.at = op.at /\ op'.call = op.call /\ op'.status = op.status
      /\ op.phase \in {"list", "reset"} => op'.touched
      /\ op' \in [phase : {"none", "call", "list", "reset", "done", "refused", "notfound"}, at : Nat,
                 status : {"running", "off"}, call : Nat, touched : BOOLEAN]
  BY <1>0, TouchFacts
<1>4. /\ actions' \in Seq(Action) /\ actions'[1] = a
      /\ \A i \in DOMAIN actions' : i = 1 \/ (i - 1 \in DOMAIN actions /\ actions'[i] = actions[i - 1])
  BY <1>0, <1>1, <1>2, Logged, Zenon
<1>5. RebootType'
  BY <1>0, <1>3, <1>4 DEF RebootType
<1>6. LogInv' /\ (Visible' => Visible) /\ (DoneCause => DoneCause')
  BY <1>0, <1>1, <1>2, <1>3, LogKeeps DEF LogInv
<1>7. \A i \in DOMAIN actions' : Stands(i)' => i - 1 \in DOMAIN actions /\ Stands(i - 1) /\ actions'[i].call = actions[i - 1].call
  <2> SUFFICES ASSUME NEW i \in DOMAIN actions', Stands(i)'
               PROVE  i - 1 \in DOMAIN actions /\ Stands(i - 1) /\ actions'[i].call = actions[i - 1].call
    OBVIOUS
  <2>1. i # 1
    BY <1>1, <1>4 DEF Stands, Mine
  <2>2. i - 1 \in DOMAIN actions /\ actions'[i] = actions[i - 1]
    BY <2>1, <1>4
  <2> QED BY <2>2 DEF Stands, Mine
<1>8. OnceInv'
  <2>1. Visible' => \A i, j \in DOMAIN actions' : Stands(i)' /\ Stands(j)' => actions'[i].call = actions'[j].call
    BY <1>0, <1>6, <1>7 DEF OnceInv
  <2>2. Visible' /\ op'.phase = "reset" => \A i \in DOMAIN actions' : Stands(i)' => actions'[i].call = op'.call
    BY <1>0, <1>3, <1>6, <1>7 DEF OnceInv
  <2>3. op'.phase = "done" => DoneCause'
    BY <1>0, <1>3, <1>6 DEF OnceInv
  <2> QED BY <2>1, <2>2, <2>3 DEF OnceInv
<1>9. HeldInv'
  BY <1>3 DEF HeldInv
<1> QED BY <1>5, <1>6, <1>8, <1>9 DEF RebootInv

\* An action that Hetzner carries out or fails.
LEMMA SettleKeeps == ASSUME RebootInv, Settle PROVE RebootInv'
<1>0. RebootType /\ HeldInv /\ clock \in Nat /\ UNCHANGED <<skew, ops, clock, failures>>
  BY DEF RebootInv, RebootType, Settle
<1>1. PICK i \in DOMAIN actions, outcome \in {"success", "error"} :
        /\ actions[i].status = "running" /\ actions' = [actions EXCEPT ![i].status = outcome]
        /\ server' = [server EXCEPT !.status = CASE outcome = "success" /\ actions[i].command \in stops -> "off"
                                                 [] outcome = "success" /\ actions[i].command \in starts -> "running"
                                                 [] OTHER -> @]
  BY DEF Settle
<1>2. actions' \in Seq(Action) /\ SameLog
  <2> DEFINE a == [actions[i] EXCEPT !.status = outcome]
  <2>1. actions[i] \in Action /\ Len(actions) \in Nat /\ DOMAIN actions = 1 .. Len(actions)
    BY <1>0, Entries
  <2>2. /\ a \in Action /\ a.command = actions[i].command /\ a.started = actions[i].started
        /\ a.op = actions[i].op /\ a.call = actions[i].call
    BY <2>1 DEF Action
  <2>3. actions' = [actions EXCEPT ![i] = a]
    BY <1>1
  <2> HIDE DEF a
  <2>4. /\ actions' \in Seq(Action) /\ Len(actions') = Len(actions) /\ DOMAIN actions' = DOMAIN actions
        /\ \A j \in DOMAIN actions : actions'[j] = IF j = i THEN a ELSE actions[j]
    BY <1>0, <2>1, <2>2, <2>3 DEF RebootType
  <2> QED BY <1>1, <2>2, <2>4 DEF SameLog
<1>3. server' \in [exists : BOOLEAN, ours : BOOLEAN, status : {"running", "off"}]
  <2>1. PICK st \in {"running", "off"} : server' = [server EXCEPT !.status = st]
    <3>1. server.status \in {"running", "off"} /\ server = [server EXCEPT !.status = server.status]
      BY <1>0 DEF RebootType
    <3> QED BY <1>1, <3>1
  <2> QED BY <2>1, <1>0, Zenon DEF RebootType
<1>4. /\ op'.phase = op.phase /\ op'.at = op.at /\ op'.call = op.call /\ op'.status = op.status
      /\ op' \in [phase : {"none", "call", "list", "reset", "done", "refused", "notfound"}, at : Nat,
                 status : {"running", "off"}, call : Nat, touched : BOOLEAN]
  BY <1>0, TouchFacts DEF Settle, RebootType
<1>5. RebootType'
  BY <1>0, <1>2, <1>3, <1>4 DEF RebootType
<1>6. LogInv' /\ OnceInv'
  <2>1. clock' \in Nat /\ clock' >= clock
    BY <1>0
  <2> QED BY <1>0, <1>2, <1>4, <2>1, QuietKeeps
<1>7. HeldInv'
  <2>1. CASE server' = server /\ op' = op
    <3>1. DOMAIN actions' = DOMAIN actions /\ \A j \in DOMAIN actions : HeldDown(j)' => HeldDown(j)
      BY <1>2 DEF SameLog, HeldDown
    <3> QED BY <1>0, <2>1, <3>1 DEF HeldInv
  <2>2. CASE Touch
    BY <1>0, <2>2, TouchFacts DEF HeldInv
  <2> QED BY <2>1, <2>2 DEF Settle
<1> QED BY <1>5, <1>6, <1>7 DEF RebootInv

\* Every step of an operation, of others, of Hetzner and of the clock.
LEMMA RebootStep == RebootInv /\ [RebootNext]_rebootVars => RebootInv'
<1> SUFFICES ASSUME RebootInv, [RebootNext]_rebootVars PROVE RebootInv'
  OBVIOUS
<1> DEFINE OpType == [phase : {"none", "call", "list", "reset", "done", "refused", "notfound"}, at : Nat,
                 status : {"running", "off"}, call : Nat, touched : BOOLEAN]
<1>0. RebootType /\ LogInv /\ OnceInv /\ HeldInv /\ clock \in Nat /\ failures \in Nat /\ ops \in Nat /\ op \in OpType
  BY DEF RebootInv, RebootType
<1>1. ASSUME NEW phase \in {"call", "list", "reset"}, rebootError(phase), actions' = actions, UNCHANGED <<server, skew, ops, clock>>
      PROVE  RebootInv'
  <2>1. PICK p \in {"call", "refused"} : op' = [op EXCEPT !.phase = p]
    BY <1>1 DEF rebootError
  <2>2. op.phase # "none" /\ failures' \in Nat
    BY <1>0, <1>1 DEF rebootError
  <2>3. op' \in OpType /\ op'.phase = p /\ op'.at = op.at
    BY <1>0, <2>1
  <2> QED BY <1>1, <2>1, <2>2, <2>3, PhaseKeeps
<1>2. CASE Request
  <2>1. PICK at \in {0, clock} : op' = [phase |-> "call", at |-> at, status |-> "running", call |-> 0, touched |-> FALSE]
    BY <1>2 DEF Request, NoOp
  <2>2. UNCHANGED <<server, actions, skew, clock, failures>> /\ ops' = ops + 1
    BY <1>2 DEF Request
  <2>3. RebootType'
    <3>1. op' \in OpType
      BY <1>0, <2>1
    <3> QED BY <2>2, <3>1, <1>0 DEF RebootType
  <2>4. \A i \in DOMAIN actions : actions[i].op \in Nat /\ actions[i].op <= ops
    BY <1>0, Entries DEF LogInv
  <2>5. LogInv'
    BY <2>1, <2>2, <2>4, <1>0 DEF LogInv
  <2>6. \A i \in DOMAIN actions' : ~Stands(i)'
    BY <2>2, <2>4, <1>0 DEF Stands, Mine
  <2>7. OnceInv'
    BY <2>1, <2>6 DEF OnceInv
  <2>8. HeldInv'
    BY <2>1 DEF HeldInv
  <2> QED BY <2>3, <2>5, <2>7, <2>8 DEF RebootInv
<1>3. CASE GetServer
  <2>1. CASE rebootError("call")
    BY <1>1, <1>3, <2>1 DEF GetServer
  <2>2. ASSUME NEW ph \in {"notfound", "refused", "list"}, failures' = failures,
               op' = [op EXCEPT !.phase = ph, !.status = server.status, !.call = failures + 1, !.touched = FALSE]
        PROVE  RebootInv'
    <3>1. server.status \in {"running", "off"} /\ failures + 1 \in Nat /\ failures + 1 # 0
      BY <1>0 DEF RebootType
    <3>2. op' \in OpType /\ op'.phase = ph /\ op'.at = op.at /\ op'.call # 0 /\ op'.status = server.status
      BY <1>0, <2>2, <3>1
    <3> QED BY <1>0, <1>3, <2>2, <3>2, PhaseKeeps DEF GetServer
  <2> QED BY <1>3, <2>1, <2>2 DEF GetServer
<1>4. CASE JudgeActions
  <2>0. UNCHANGED <<server, actions, skew, ops, clock>> /\ op.phase = "list"
    BY <1>4 DEF JudgeActions
  <2>1. CASE rebootError("list")
    BY <1>1, <2>0, <2>1
  <2>2. CASE server.exists /\ failures' = failures /\ op' = [op EXCEPT !.phase = Verdict(RecentActions)]
    BY <1>0, <2>0, <2>2, JudgeKeeps
  <2>3. CASE failures' = failures /\ op' = [op EXCEPT !.phase = "notfound"]
    <3>1. op' \in OpType /\ op'.phase = "notfound" /\ op'.at = op.at
      BY <1>0, <2>3
    <3> QED BY <1>0, <2>0, <2>3, <3>1, PhaseKeeps
  <2> QED BY <1>4, <2>1, <2>2, <2>3 DEF JudgeActions
<1>5. CASE Reset
  <2>0. op.phase = "reset" /\ UNCHANGED <<server, skew, ops, clock>>
    BY <1>5 DEF Reset
  <2>1. CASE op' = [op EXCEPT !.phase = "notfound"] /\ UNCHANGED <<actions, failures>>
    <3>1. op' \in OpType /\ op'.phase = "notfound" /\ op'.at = op.at
      BY <1>0, <2>1
    <3> QED BY <1>0, <2>0, <2>1, <3>1, PhaseKeeps
  <2>2. CASE Log("reset_server", op.call) /\ op' = [op EXCEPT !.phase = "done"] /\ UNCHANGED failures
    BY <1>0, <2>0, <2>2, ResetKeeps
  <2>3. CASE /\ Log("reset_server", op.call) /\ failures' = failures + 1
             /\ \E p \in {"reset", "call"} : op' = [op EXCEPT !.phase = p]
    <3>1. failures' \in Nat
      BY <1>0, <2>3
    <3> QED BY <2>0, <2>3, <3>1, ResetKeeps
  <2>4. CASE rebootError("reset") /\ actions' = actions
    BY <1>1, <2>0, <2>4
  <2> QED BY <1>5, <2>1, <2>2, <2>3, <2>4, Zenon DEF Reset
<1>6. CASE Other
  <2>0. Touch /\ UNCHANGED <<skew, ops, clock, failures>>
    BY <1>6 DEF Other
  <2>1. ASSUME NEW command \in Commands, Log(command, 0), UNCHANGED server PROVE RebootInv'
    BY <2>0, <2>1, OtherLogKeeps
  <2>2. CASE server' = [server EXCEPT !.status = "off"] /\ UNCHANGED actions
    <3>1. server' \in [exists : BOOLEAN, ours : BOOLEAN, status : {"running", "off"}]
      BY <1>0, <2>2, Zenon DEF RebootType
    <3>2. /\ op'.phase = op.phase /\ op'.at = op.at /\ op'.call = op.call /\ op' \in OpType
          /\ op.phase \in {"list", "reset"} => op'.touched
      BY <1>0, <2>0, TouchFacts
    <3>3. RebootType'
      BY <1>0, <2>0, <2>2, <3>1, <3>2 DEF RebootType
    <3>4. LogInv' /\ OnceInv'
      <4>1. clock' \in Nat /\ clock' >= clock /\ SameLog
        BY <1>0, <2>0, <2>2, Unlogged
      <4> QED BY <2>0, <3>2, <4>1, QuietKeeps
    <3>5. HeldInv'
      BY <3>2 DEF HeldInv
    <3> QED BY <3>3, <3>4, <3>5 DEF RebootInv
  <2> QED BY <1>6, <2>1, <2>2 DEF Other
<1>7. CASE Settle
  BY <1>7, SettleKeeps
<1>8. CASE Remove
  <2>1. server' \in [exists : BOOLEAN, ours : BOOLEAN, status : {"running", "off"}] /\ server'.status = server.status
    <3>1. server \in [exists : BOOLEAN, ours : BOOLEAN, status : {"running", "off"}] /\ server' = [server EXCEPT !.exists = FALSE]
      BY <1>8, <1>0 DEF Remove, RebootType
    <3> QED BY <3>1, Zenon
  <2>2. UNCHANGED <<actions, op, skew, ops, clock, failures>>
    BY <1>8 DEF Remove
  <2>3. RebootType'
    BY <1>0, <2>1, <2>2 DEF RebootType
  <2>4. LogInv' /\ OnceInv'
    <3>1. clock' \in Nat /\ clock' >= clock /\ SameLog
      BY <1>0, <2>2, Unlogged
    <3> QED BY <2>2, <3>1, QuietKeeps
  <2>5. HeldInv'
    BY <1>0, <2>1, <2>2 DEF HeldInv, HeldDown
  <2> QED BY <2>3, <2>4, <2>5 DEF RebootInv
<1>9. CASE ClockTicks
  <2>1. clock' = clock + 1 /\ UNCHANGED <<server, actions, op, skew, ops, failures>>
    BY <1>9 DEF ClockTicks
  <2>2. RebootType'
    BY <1>0, <2>1 DEF RebootType
  <2>3. LogInv' /\ OnceInv'
    <3>1. clock' \in Nat /\ clock' >= clock /\ SameLog
      BY <1>0, <2>1, Unlogged
    <3> QED BY <2>1, <3>1, QuietKeeps
  <2>4. HeldInv'
    BY <1>0, <2>1 DEF HeldInv, HeldDown
  <2> QED BY <2>2, <2>3, <2>4 DEF RebootInv
<1>10. CASE UNCHANGED rebootVars
  <2>1. UNCHANGED <<server, actions, op, skew, ops, clock, failures>>
    BY <1>10 DEF rebootVars
  <2>2. RebootType'
    BY <1>0, <2>1 DEF RebootType
  <2>3. LogInv' /\ OnceInv'
    <3>1. clock' \in Nat /\ clock' >= clock /\ SameLog
      BY <1>0, <2>1, Unlogged
    <3> QED BY <1>0, <2>1, <3>1, QuietKeeps
  <2>4. HeldInv'
    BY <1>0, <2>1 DEF HeldInv, HeldDown
  <2> QED BY <2>2, <2>3, <2>4 DEF RebootInv
<1> QED BY <1>2, <1>3, <1>4, <1>5, <1>6, <1>7, <1>8, <1>9, <1>10 DEF RebootNext, Call

\* An overflow is seen in the count of what happened since the request.
LEMMA OverflowCounted == ASSUME RebootType, LogInv, Overflow PROVE ~ (SinceRequest <= Page)
<1> DEFINE since == {i \in DOMAIN actions : actions[i].started >= op.at}
<1>0. Page \in Nat /\ Len(actions) \in Nat /\ DOMAIN actions = 1 .. Len(actions) /\ op.at \in Nat
  BY Entries, BoundsAreSane DEF RebootType
<1>1. 1 .. Page + 1 \subseteq since
  <2> SUFFICES ASSUME NEW i \in 1 .. Page + 1 PROVE i \in since
    OBVIOUS
  <2>1. i \in DOMAIN actions /\ Page + 1 \in DOMAIN actions /\ i <= Page + 1
    BY <1>0 DEF Overflow
  <2>2. actions[Page + 1].started <= actions[i].started /\ actions[Page + 1].started \in Int /\ actions[i].started \in Int
    BY <2>1, Entries DEF LogInv
  <2> QED BY <2>1, <2>2, <1>0 DEF Overflow
<1>2. IsFiniteSet(since) /\ Cardinality(1 .. Page + 1) = Page + 1
  <2>1. IsFiniteSet(1 .. Len(actions)) /\ Cardinality(1 .. Page + 1) = Page + 1
    <3>1. IsFiniteSet(1 .. Len(actions))
      BY <1>0, FS_Interval
    <3>2. Cardinality(1 .. Page + 1) = IF 1 > Page + 1 THEN 0 ELSE Page + 1 - 1 + 1
      BY <1>0, FS_Interval
    <3> QED BY <1>0, <3>1, <3>2
  <2> QED BY <2>1, <1>0, FS_Subset
<1> HIDE DEF since
<1>3. Page + 1 <= Cardinality(since) /\ Cardinality(since) \in Nat
  <2>1. Cardinality(since) \in Nat
    BY <1>2, FS_CardinalityType
  <2>2. Cardinality(1 .. Page + 1) <= Cardinality(since)
    BY <1>1, <1>2, FS_Subset
  <2> QED BY <1>2, <2>1, <2>2
<1>4. SinceRequest = Cardinality(since)
  BY Zenon DEF SinceRequest, since, Cardinality
<1> QED BY <1>0, <1>3, <1>4

\* However often core retries an operation and whatever answers are lost, all its
\* resets that stand come from one call, for any page, skew and other actors, where
\* calls can recognise each other; and it is reported done only if Hetzner accepted a
\* reset for it or one dated since its request (Reboot, Reset).
THEOREM OneResetPerOperation == RebootSpec => []ResetsOnce
<1>1. RebootInv => ResetsOnce
  <2> SUFFICES ASSUME RebootInv PROVE ResetsOnce
    OBVIOUS
  <2>1. RebootType /\ LogInv /\ OnceInv
    BY DEF RebootInv
  <2>2. Recognisable => Visible
    BY <2>1, OverflowCounted DEF Recognisable, Visible
  <2>3. Recognisable => \A i, j \in DOMAIN actions : Stands(i) /\ Stands(j) => actions[i].call = actions[j].call
    BY <2>1, <2>2 DEF OnceInv
  <2>4. op.phase = "done" => DoneCause
    BY <2>1 DEF OnceInv
  <2> QED BY <2>3, <2>4 DEF ResetsOnce, Stands, DoneCause
<1>2. RebootInit => RebootInv
  BY RebootStarts
<1>3. RebootInv /\ [RebootNext]_rebootVars => RebootInv'
  BY RebootStep
<1> QED BY <1>1, <1>2, <1>3, PTL DEF RebootSpec

\* No reset of ours reaches a server that is off, or held down by an action within the
\* page, unless someone touched the server after that call read it (Reboot's refusals).
THEOREM NoResetOfHeldDown == RebootSpec => SparesHeldDown
<1> DEFINE Spared ==
      Len(actions') > Len(actions) /\ actions'[1].op # 0 /\ ~op.touched
        => server.status # "off" /\ \A i \in DOMAIN actions : HeldDown(i) => i > Page
<1>1. RebootInv /\ [RebootNext]_rebootVars => [Spared]_rebootVars
  <2> SUFFICES ASSUME RebootInv, RebootNext, Len(actions') > Len(actions), actions'[1].op # 0, ~op.touched
               PROVE  server.status # "off" /\ \A i \in DOMAIN actions : HeldDown(i) => i > Page
    BY DEF Spared
  <2>0. RebootType /\ HeldInv /\ Len(actions) \in Nat
    BY Entries DEF RebootInv
  <2>1. actions' # actions
    BY <2>0
  <2>2. ~Other
    <3> SUFFICES ASSUME Other PROVE FALSE
      OBVIOUS
    <3>1. PICK command \in Commands : Log(command, 0)
      BY <2>1 DEF Other
    <3> DEFINE a == [command |-> command, status |-> "running", started |-> clock + skew, op |-> 0, call |-> 0]
    <3>2. a \in Action /\ a.op = 0
      BY <2>0 DEF Action, RebootType
    <3>3. actions' = <<a>> \o actions
      BY <3>1 DEF Log
    <3> HIDE DEF a
    <3>4. actions'[1] = a
      BY <2>0, <3>2, <3>3, Logged
    <3> QED BY <3>2, <3>4
  <2>3. ~Settle
    <3> SUFFICES ASSUME Settle PROVE FALSE
      OBVIOUS
    <3>1. PICK i \in DOMAIN actions, outcome \in {"success", "error"} : actions' = [actions EXCEPT ![i].status = outcome]
      BY DEF Settle
    <3>2. Len(actions') = Len(actions)
      BY <2>0, <3>1 DEF RebootType
    <3> QED BY <2>0, <3>2
  <2>4. Reset
    BY <2>1, <2>2, <2>3 DEF RebootNext, Call, Request, GetServer, JudgeActions, Remove, ClockTicks
  <2>5. op.phase = "reset"
    BY <2>4 DEF Reset
  <2> QED BY <2>0, <2>5 DEF HeldInv
<1>2. RebootInit => RebootInv
  BY RebootStarts
<1>3. RebootInv /\ [RebootNext]_rebootVars => RebootInv'
  BY RebootStep
<1> QED BY <1>1, <1>2, <1>3, PTL DEF RebootSpec, SparesHeldDown, Spared
=============================================================================
