--------------------------- MODULE BootstrapProofs ---------------------------
(***************************************************************************)
(* Join parameters come in pairs and tokens live long enough, for any      *)
(* number of classes, NodeClaims, rotations, retries and failures; and the *)
(* other sub-reconcilers (Resolvers) publish only what is whole.           *)
(***************************************************************************)
EXTENDS Bootstrap, Resolvers, SequenceTheorems, TLAPS

\* The cache holds nothing or one version of cluster-info; a read that is about to
\* be stored read a version.
CacheInv ==
  /\ cache.endpoint = cache.hashes /\ cache.hashes # Override
  /\ \A k \in Class : pass[k].pc = "store" => pass[k].read # 0

\* The most that one attempt costs, what a NodeClaim's Create may have cost its token
\* before the phase it is in, and what that phase may.
PerAttempt == RequestTime + CreateTimeout + CleanupTimeout
Used(nc) ==
  (nc.attempt - 1) * PerAttempt + (IF nc.phase = "ordering" THEN 0
                                   ELSE RequestTime + CreateTimeout + (IF nc.phase = "launched" THEN RequestTime ELSE 0))
Limit(phase) ==
  IF phase = "ordering" THEN RequestTime + CreateTimeout
  ELSE IF phase = "cleanup" THEN CleanupTimeout ELSE IF phase = "rereading" THEN RequestTime ELSE RegistrationTTL

\* A NodeClaim on its way has a token that lost no more than that, unless that is all
\* it had.
Safe(c, nc, secrets) ==
  nc.phase \in InCreate \cup {"launched"} =>
    /\ nc.attempt >= 1 /\ nc.spent <= Limit(nc.phase)
    /\ Used(nc) + nc.spent < TokenTTL =>
         \E t \in secrets : t.id = nc.token /\ t.claim = c /\ TokenTTL <= t.left + Used(nc) + nc.spent
TokenInv == \A c \in Claim : Safe(c, claims[c], tokens)

Inv == TypeOK /\ CacheInv /\ JoinParametersArePaired /\ TokenInv

\* The constants are natural numbers.
LEMMA Naturals1 ==
  /\ TokenTTL \in Nat /\ RegistrationTTL \in Nat /\ CreateTimeout \in Nat /\ CleanupTimeout \in Nat
  /\ RequestTime \in Nat /\ PerAttempt \in Nat /\ PerAttempt = RequestTime + CreateTimeout + CleanupTimeout
  /\ MaxTokens \in Nat /\ MaxFaults \in Nat /\ Attempts \in Nat /\ Attempts >= 1 /\ MaxInfo \in Nat /\ MaxInfo >= 1
  BY ParametersAreSane DEF PerAttempt

\* Time spent on attempts: one more attempt costs that much more.
LEMMA Spent == ASSUME NEW a \in Nat, a >= 1 PROVE (a - 1) * PerAttempt \in Nat /\ (a - 1) * PerAttempt + PerAttempt = a * PerAttempt
<1>1. a - 1 \in Nat
  OBVIOUS
<1> QED BY <1>1, Naturals1, SMT

\* Nothing is cached, rendered or minted at first.
LEMMA InitEstablishes == Init => Inv
<1> SUFFICES ASSUME Init PROVE Inv
  OBVIOUS
<1>1. NoPair \in Pair /\ NewClaim \in NodeClaim /\ NoRun \in [pc : {"idle", "store", "resolve"}, read : 0 .. MaxInfo]
  BY Naturals1 DEF NoPair, Pair, Value, Override, NewClaim, NodeClaim, InCreate, NoRun
<1>2. TypeOK
  <2>1. info \in [version : 1 .. MaxInfo, usable : BOOLEAN]
    BY Naturals1 DEF Init
  <2>2. classes \in [Class -> [spec : Specs, status : Pair, ready : {"True", "False", "Unknown"}]]
    BY <1>1 DEF Init
  <2> QED BY <1>1, <2>1, <2>2, Naturals1 DEF Init, TypeOK
<1>3. CacheInv
  BY Naturals1 DEF Init, CacheInv, NoPair, NoRun, Override
<1>4. JoinParametersArePaired
  BY Naturals1 DEF Init, JoinParametersArePaired, FromOneRead, Whole, NoPair, NewClaim, InCreate
<1>5. TokenInv
  BY DEF Init, TokenInv, Safe, InCreate, NewClaim
<1> QED BY <1>2, <1>3, <1>4, <1>5 DEF Inv

\* A fault is within its bound.
LEMMA FaultBound == ASSUME TypeOK, Fault PROVE faults' \in 0 .. MaxFaults
  BY Naturals1 DEF TypeOK, Fault

\* Steps of discovery leave what launches hold alone.
LEMMA TokensUntouched == ASSUME TokenInv, UNCHANGED launchVars PROVE TokenInv'
  BY DEF TokenInv, Safe, launchVars

\* A pass that gives its class another status and readiness, and nothing else.
LEMMA StatusChange ==
  ASSUME TypeOK, NEW k \in Class, NEW st \in Pair, NEW r \in {"True", "False"},
         classes' = [classes EXCEPT ![k] = [@ EXCEPT !.status = st, !.ready = r]]
  PROVE  /\ classes' \in [Class -> [spec : Specs, status : Pair, ready : {"True", "False", "Unknown"}]]
         /\ \A x \in Class : classes'[x].status = IF x = k THEN st ELSE classes[x].status
<1> DEFINE Rec == [spec : Specs, status : Pair, ready : {"True", "False", "Unknown"}]
           new == [classes[k] EXCEPT !.status = st, !.ready = r]
<1>1. classes[k] \in Rec /\ classes \in [Class -> Rec]
  BY DEF TypeOK
<1>2. new \in Rec /\ new.status = st
  BY <1>1
<1>3. classes' = [classes EXCEPT ![k] = new]
  OBVIOUS
<1> HIDE DEF new, Rec
<1>4. classes' \in [Class -> Rec] /\ \A x \in Class : classes'[x] = IF x = k THEN new ELSE classes[x]
  BY <1>1, <1>2, <1>3
<1>5. \A x \in Class : classes'[x].status = IF x = k THEN st ELSE classes[x].status
  BY <1>2, <1>4
<1> QED BY <1>4, <1>5 DEF Rec

\* A class that is misconfigured publishes nothing.
LEMMA ReadPreserves == ASSUME Inv, NEW k \in Class, Read(k) PROVE Inv'
<1>0. \/ UNCHANGED classes
      \/ /\ classes' \in [Class -> [spec : Specs, status : Pair, ready : {"True", "False", "Unknown"}]]
         /\ \A x \in Class : classes'[x].status = IF x = k THEN NoPair ELSE classes[x].status
  <2>1. NoPair \in Pair
    BY Naturals1 DEF NoPair, Pair, Value, Override
  <2>2. UNCHANGED classes \/ classes' = [classes EXCEPT ![k] = [@ EXCEPT !.status = NoPair, !.ready = "False"]]
    BY DEF Read, misconfigured
  <2>3. TypeOK
    BY DEF Inv
  <2> QED BY <2>1, <2>2, <2>3, StatusChange
<1>1. TypeOK'
  <2>1. faults' \in 0 .. MaxFaults
    BY FaultBound DEF Read, Inv, TypeOK
  <2>2. pass' \in [Class -> [pc : {"idle", "store", "resolve"}, read : 0 .. MaxInfo]]
    <3>1. info.version \in 0 .. MaxInfo
      BY Naturals1 DEF Inv, TypeOK
    <3>2. pass \in [Class -> [pc : {"idle", "store", "resolve"}, read : 0 .. MaxInfo]]
      BY DEF Inv, TypeOK
    <3>3. \/ pass' = pass \/ pass' = [pass EXCEPT ![k].pc = "resolve"]
          \/ pass' = [pass EXCEPT ![k] = [pc |-> "store", read |-> info.version]]
      BY DEF Read
    <3> QED BY <3>1, <3>2, <3>3
  <2>3. classes' \in [Class -> [spec : Specs, status : Pair, ready : {"True", "False", "Unknown"}]]
    BY <1>0 DEF Inv, TypeOK
  <2> QED BY <2>1, <2>2, <2>3 DEF Read, Inv, TypeOK, launchVars
<1>2. CacheInv'
  BY Naturals1 DEF Read, Inv, TypeOK, CacheInv
<1>3. JoinParametersArePaired'
  <2>1. \A x \in Class : classes'[x].status \in {classes[x].status, NoPair}
    BY <1>0
  <2>2. FromOneRead(NoPair)
    BY DEF FromOneRead, NoPair
  <2>3. \A x \in Class : LET st == classes'[x].status IN FromOneRead(st) /\ (Whole(st) \/ st = NoPair)
    BY <2>1, <2>2 DEF Inv, JoinParametersArePaired
  <2> QED BY <2>3 DEF Read, launchVars, Inv, JoinParametersArePaired, FromOneRead, Whole
<1>4. TokenInv'
  BY TokensUntouched DEF Read, Inv
<1> QED BY <1>1, <1>2, <1>3, <1>4 DEF Inv

\* Both values are stored from one read.
LEMMA StorePreserves == ASSUME Inv, NEW k \in Class, Store(k) PROVE Inv'
<1>1. pass[k].read \in 0 .. MaxInfo /\ pass[k].read \in Value /\ pass[k].read # Override
  BY Naturals1 DEF Inv, TypeOK, Value, Override
<1>2. TypeOK'
  <2>1. cache' \in Pair
    BY <1>1 DEF Store, Pair
  <2>2. pass' \in [Class -> [pc : {"idle", "store", "resolve"}, read : 0 .. MaxInfo]]
    BY Naturals1 DEF Store, Inv, TypeOK
  <2> QED BY <2>1, <2>2 DEF Store, Inv, TypeOK, launchVars
<1>3. CacheInv'
  BY <1>1 DEF Store, Inv, TypeOK, CacheInv, Override
<1>4. JoinParametersArePaired'
  BY DEF Store, launchVars, Inv, JoinParametersArePaired, FromOneRead, Whole
<1>5. TokenInv'
  BY TokensUntouched DEF Store, Inv
<1> QED BY <1>2, <1>3, <1>4, <1>5 DEF Inv

\* What is published is whole, and from the cache's one read where not overridden.
LEMMA PublishPreserves == ASSUME Inv, NEW k \in Class, Publish(k) PROVE Inv'
<1> DEFINE pair == Resolve(classes[k].spec)
<1>1. pair \in Pair /\ FromOneRead(pair)
  <2>1. Override \in Value /\ cache.endpoint \in Value /\ cache.hashes \in Value
    BY Naturals1 DEF Inv, TypeOK, Pair, Value, Override
  <2> QED BY <2>1 DEF Resolve, Pair, FromOneRead, Inv, CacheInv
<1>2. NoPair \in Pair /\ FromOneRead(NoPair)
  BY Naturals1 DEF NoPair, Pair, Value, Override, FromOneRead
<1> HIDE DEF pair
<1>3. \/ UNCHANGED classes
      \/ \E st \in Pair, r \in {"True", "False"} :
           /\ classes' = [classes EXCEPT ![k] = [@ EXCEPT !.status = st, !.ready = r]]
           /\ FromOneRead(st) /\ (Whole(st) \/ st = NoPair)
  BY <1>1, <1>2 DEF Publish, misconfigured, Whole, pair
<1>4. TypeOK'
  <2>1. pass' \in [Class -> [pc : {"idle", "store", "resolve"}, read : 0 .. MaxInfo]]
    BY Naturals1 DEF Publish, Inv, TypeOK, NoRun
  <2>2. classes' \in [Class -> [spec : Specs, status : Pair, ready : {"True", "False", "Unknown"}]]
    BY <1>3, StatusChange DEF Inv, TypeOK
  <2>3. faults' \in 0 .. MaxFaults
    BY FaultBound DEF Publish, Inv, TypeOK
  <2> QED BY <2>1, <2>2, <2>3 DEF Publish, Inv, TypeOK, launchVars
<1>5. CacheInv'
  BY DEF Publish, Inv, TypeOK, CacheInv, NoRun
<1>6. JoinParametersArePaired'
  <2>1. \A x \in Class : LET st == classes'[x].status IN FromOneRead(st) /\ (Whole(st) \/ st = NoPair)
    <3>0. CASE UNCHANGED classes
      BY <3>0 DEF Inv, JoinParametersArePaired
    <3> SUFFICES ASSUME ~UNCHANGED classes
                 PROVE  \A x \in Class : LET st == classes'[x].status IN FromOneRead(st) /\ (Whole(st) \/ st = NoPair)
      BY <3>0
    <3>1. PICK st \in Pair, r \in {"True", "False"} :
            /\ classes' = [classes EXCEPT ![k] = [@ EXCEPT !.status = st, !.ready = r]]
            /\ FromOneRead(st) /\ (Whole(st) \/ st = NoPair)
      BY <1>3
    <3>2. \A x \in Class : classes'[x].status = IF x = k THEN st ELSE classes[x].status
      BY <3>1, StatusChange DEF Inv
    <3> QED BY <3>1, <3>2 DEF Inv, JoinParametersArePaired
  <2> QED BY <2>1 DEF Publish, launchVars, Inv, JoinParametersArePaired, FromOneRead, Whole
<1>7. TokenInv'
  BY TokensUntouched DEF Publish, Inv
<1> QED BY <1>4, <1>5, <1>6, <1>7 DEF Inv

\* The control plane changes cluster-info and nothing of ours.
LEMMA ControlPlanePreserves == ASSUME Inv, Rotate \/ Break PROVE Inv'
<1>1. TypeOK'
  <2>1. info' \in [version : 1 .. MaxInfo, usable : BOOLEAN]
    <3>1. info \in [version : 1 .. MaxInfo, usable : BOOLEAN]
      BY DEF Inv, TypeOK
    <3>2. CASE Rotate
      <4>1. info.version + 1 \in 1 .. MaxInfo
        BY <3>1, <3>2, Naturals1 DEF Rotate
      <4> QED BY <3>1, <3>2, <4>1, Zenon DEF Rotate
    <3>3. CASE Break
      BY <3>1, <3>3, Zenon DEF Break
    <3> QED BY <3>2, <3>3
  <2>2. faults' \in 0 .. MaxFaults
    BY FaultBound DEF Rotate, Break, Inv, TypeOK
  <2> QED BY <2>1, <2>2 DEF Rotate, Break, Inv, TypeOK, launchVars
<1>2. CacheInv' /\ JoinParametersArePaired'
  BY DEF Rotate, Break, launchVars, Inv, CacheInv, JoinParametersArePaired, FromOneRead, Whole
<1>3. TokenInv'
  BY TokensUntouched DEF Rotate, Break, Inv
<1> QED BY <1>1, <1>2, <1>3 DEF Inv

\* A step that gives one NodeClaim another safe record, and leaves the Secrets of
\* the others, keeps the invariant.
LEMMA LaunchPreserves ==
  ASSUME Inv, NEW c \in Claim, NEW nc \in NodeClaim,
         UNCHANGED discoveryVars, faults' \in 0 .. MaxFaults, minted' \in 0 .. MaxTokens,
         claims' = [claims EXCEPT ![c] = nc],
         tokens' \subseteq Token, \A t \in tokens : t.claim # c => t \in tokens',
         nc.phase \in InCreate \cup {"launched"} => Whole(nc.join) /\ FromOneRead(nc.join),
         Safe(c, nc, tokens')
  PROVE  Inv'
<1>1. claims' \in [Claim -> NodeClaim] /\ claims'[c] = nc /\ \A d \in Claim \ {c} : claims'[d] = claims[d]
  BY DEF Inv, TypeOK
<1>2. TypeOK'
  BY <1>1 DEF Inv, TypeOK, discoveryVars
<1>3. CacheInv'
  BY DEF Inv, CacheInv, discoveryVars
<1>4. JoinParametersArePaired'
  <2>1. \A d \in Claim : claims'[d].phase \in InCreate \cup {"launched"} =>
          Whole(claims'[d].join) /\ FromOneRead(claims'[d].join)
    BY <1>1 DEF Inv, JoinParametersArePaired
  <2> QED BY <2>1 DEF Inv, JoinParametersArePaired, discoveryVars, Whole, FromOneRead
<1>5. TokenInv'
  <2>1. ASSUME NEW d \in Claim \ {c} PROVE Safe(d, claims'[d], tokens')
    BY <1>1 DEF Inv, TokenInv, Safe
  <2> QED BY <1>1, <2>1 DEF TokenInv, Safe
<1> QED BY <1>2, <1>3, <1>4, <1>5 DEF Inv

\* Render takes a whole pair and a token that lives a full TokenTTL.
LEMMA RenderPreserves == ASSUME Inv, NEW c \in Claim, Render(c) PROVE Inv'
<1>1. PICK k \in Class : Renderable(k) /\
        claims' = [claims EXCEPT ![c] = [@ EXCEPT !.phase = "ordering", !.join = classes[k].status, !.token = minted + 1,
                                                  !.attempt = 1, !.spent = 0]]
  BY DEF Render
<1> DEFINE nc == [claims[c] EXCEPT !.phase = "ordering", !.join = classes[k].status, !.token = minted + 1,
                                   !.attempt = 1, !.spent = 0]
           tk == [id |-> minted + 1, claim |-> c, left |-> Lifetime]
<1>2. claims[c] \in NodeClaim /\ classes[k].status \in Pair /\ minted + 1 \in 1 .. MaxTokens
  BY Naturals1 DEF Inv, TypeOK, Render
<1>3. nc \in NodeClaim
  <2>1. 1 \in 0 .. Attempts /\ minted + 1 \in 0 .. MaxTokens
    BY <1>2, Naturals1
  <2> QED BY <1>2, <2>1 DEF NodeClaim, InCreate
<1>4. Lifetime = TokenTTL /\ Lifetime \in Nat
  BY Naturals1 DEF Lifetime
<1>5. tk \in Token
  BY <1>2, <1>4 DEF Token
<1>6. nc.phase = "ordering" /\ nc.join = classes[k].status /\ nc.attempt = 1 /\ nc.spent = 0 /\ nc.token = tk.id
  BY <1>2 DEF NodeClaim
<1>7. Whole(nc.join) /\ FromOneRead(nc.join)
  BY <1>1, <1>6 DEF Renderable, Whole, Inv, JoinParametersArePaired
<1>8. tokens' = tokens \cup {tk} /\ minted' = minted + 1 /\ UNCHANGED <<discoveryVars, faults>>
  BY DEF Render
<1>9. Safe(c, nc, tokens')
  <2>1. (1 - 1) * PerAttempt = 0
    BY Naturals1, SMT
  <2>2. Used(nc) = 0
    BY <1>6, <2>1 DEF Used
  <2>3. tk \in tokens' /\ tk.claim = c /\ tk.id = nc.token /\ TokenTTL <= tk.left + 0 + 0
    BY <1>4, <1>6, <1>8, Naturals1
  <2> HIDE DEF nc, tk
  <2>4. nc.spent <= Limit(nc.phase)
    BY <1>6, Naturals1 DEF Limit
  <2> QED BY <2>2, <2>3, <2>4, <1>6 DEF Safe
<1> HIDE DEF nc, tk
<1>10. claims' = [claims EXCEPT ![c] = nc]
  BY <1>1 DEF nc
<1>11. tokens' \subseteq Token /\ faults' \in 0 .. MaxFaults /\ minted' \in 0 .. MaxTokens
  BY <1>2, <1>5, <1>8 DEF Inv, TypeOK
<1> QED BY <1>3, <1>7, <1>8, <1>9, <1>10, <1>11, LaunchPreserves

\* A NodeClaim that is not on its way is safe whatever it holds.
LEMMA AtRest ==
  ASSUME NEW c \in Claim, NEW nc \in NodeClaim, nc.phase \in {"new", "gone"}, NEW S
  PROVE  Safe(c, nc, S) /\ nc.phase \notin InCreate \cup {"launched"}
  BY DEF Safe, InCreate

\* A phase costs the token at most its limit, so what the next one counts as used
\* covers it.
LEMMA Carry ==
  ASSUME Inv, NEW c \in Claim, NEW new \in NodeClaim, claims[c].phase \in InCreate,
         new.token = claims[c].token, new.attempt >= 1, new.spent = 0,
         Used(claims[c]) + Limit(claims[c].phase) <= Used(new)
  PROVE  Safe(c, new, tokens)
<1> DEFINE nc == claims[c]
           u == Used(nc)
           v == Used(new)
           lim == Limit(nc.phase)
<1>1. nc \in NodeClaim /\ Safe(c, nc, tokens)
  BY DEF Inv, TypeOK, TokenInv
<1>2. nc.spent \in Nat /\ nc.attempt \in Nat /\ new.attempt \in Nat /\ \A t \in tokens : t.left \in Nat
  BY <1>1, Naturals1 DEF NodeClaim, Inv, TypeOK, Token
<1>3. nc.attempt >= 1 /\ nc.spent <= lim /\
      (u + nc.spent < TokenTTL => \E t \in tokens : t.id = nc.token /\ t.claim = c /\ TokenTTL <= t.left + u + nc.spent)
  BY <1>1 DEF Safe
<1>4. u \in Nat /\ v \in Nat
  <2>1. (nc.attempt - 1) * PerAttempt \in Nat /\ (new.attempt - 1) * PerAttempt \in Nat
    BY <1>2, <1>3, Spent
  <2> QED BY <2>1, Naturals1 DEF Used
<1>5. lim \in Nat /\ u + lim <= v
  BY Naturals1 DEF Limit
<1>6. new.spent <= Limit(new.phase)
  BY Naturals1 DEF Limit
<1> HIDE DEF nc, u, v, lim
<1>7. v < TokenTTL => \E t \in tokens : t.id = nc.token /\ t.claim = c /\ TokenTTL <= t.left + v + 0
  BY <1>2, <1>3, <1>4, <1>5, Naturals1
<1>8. Used(new) + new.spent = v
  BY <1>4 DEF v
<1>9. \A t \in tokens : t.left + Used(new) + new.spent = t.left + v + 0
  BY <1>2, <1>4 DEF v
<1>10. Used(new) + new.spent < TokenTTL =>
         \E t \in tokens : t.id = new.token /\ t.claim = c /\ TokenTTL <= t.left + Used(new) + new.spent
  BY <1>7, <1>8, <1>9 DEF nc
<1> QED BY <1>6, <1>10 DEF Safe

\* The next phase of a Create, with the same userdata and token.
LEMMA StepPreserves ==
  ASSUME Inv, NEW c \in Claim, NEW new \in NodeClaim, claims[c].phase \in InCreate,
         claims' = [claims EXCEPT ![c] = new], UNCHANGED <<discoveryVars, tokens, minted>>, faults' \in 0 .. MaxFaults,
         new.join = claims[c].join, new.token = claims[c].token, new.attempt >= 1, new.spent = 0,
         Used(claims[c]) + Limit(claims[c].phase) <= Used(new)
  PROVE  Inv'
<1>1. Safe(c, new, tokens)
  BY Carry
<1>2. Whole(new.join) /\ FromOneRead(new.join)
  BY DEF Inv, JoinParametersArePaired
<1>3. tokens' \subseteq Token /\ minted' \in 0 .. MaxTokens /\ tokens' = tokens
  BY DEF Inv, TypeOK
<1> QED BY <1>1, <1>2, <1>3, LaunchPreserves

\* A Create that ends without a server for core leaves nothing in flight.
LEMMA OverPreserves ==
  ASSUME Inv, NEW c \in Claim, NEW s \in 0 .. MaxTokens, claims' = [claims EXCEPT ![c] = Over(s)],
         UNCHANGED <<discoveryVars, tokens, minted>>, faults' \in 0 .. MaxFaults
  PROVE  Inv'
<1>1. Over(s) \in NodeClaim /\ Over(s).phase = "new"
  BY Naturals1 DEF Over, NewClaim, NodeClaim, InCreate, NoPair, Pair, Value, Override
<1>2. tokens' \subseteq Token /\ minted' \in 0 .. MaxTokens /\ tokens' = tokens
  BY DEF Inv, TypeOK
<1>3. Safe(c, Over(s), tokens') /\ Over(s).phase \notin InCreate \cup {"launched"}
  BY <1>1, AtRest
<1> QED BY <1>1, <1>2, <1>3, LaunchPreserves

\* What is known of a NodeClaim whose Create is in flight.
LEMMA InFlight ==
  ASSUME Inv, NEW c \in Claim, claims[c].phase \in InCreate
  PROVE  /\ claims[c] \in NodeClaim /\ claims[c].attempt \in 1 .. Attempts /\ claims[c].attempt \in Nat
         /\ claims[c].server \in 0 .. MaxTokens /\ claims[c].token \in 0 .. MaxTokens /\ 0 \in 0 .. MaxTokens
         /\ (claims[c].attempt - 1) * PerAttempt \in Nat
         /\ (claims[c].attempt - 1) * PerAttempt + PerAttempt = claims[c].attempt * PerAttempt
<1>1. claims[c] \in NodeClaim /\ claims[c].attempt >= 1
  BY DEF Inv, TypeOK, TokenInv, Safe
<1>2. claims[c].attempt \in 1 .. Attempts /\ claims[c].attempt \in Nat
  BY <1>1, Naturals1 DEF NodeClaim
<1>3. claims[c].server \in 0 .. MaxTokens /\ claims[c].token \in 0 .. MaxTokens /\ 0 \in 0 .. MaxTokens
  BY <1>1, Naturals1 DEF NodeClaim
<1> QED BY <1>1, <1>2, <1>3, Spent

\* The next attempt, which the cost of this one covers.
LEMMA NextAttemptPreserves ==
  ASSUME Inv, NEW c \in Claim, claims[c].phase \in {"ordering", "cleanup"}, NEW s \in 0 .. MaxTokens,
         claims' = [claims EXCEPT ![c] = NextAttempt([claims[c] EXCEPT !.server = s])],
         UNCHANGED <<discoveryVars, tokens, minted>>, faults' \in 0 .. MaxFaults
  PROVE  Inv'
<1> DEFINE nc == claims[c]
           mid == [nc EXCEPT !.server = s]
           new == [mid EXCEPT !.phase = "ordering", !.attempt = @ + 1, !.spent = 0]
<1>1. nc.phase \in InCreate
  BY DEF InCreate
<1>2. nc \in NodeClaim /\ nc.attempt \in 1 .. Attempts /\ (nc.attempt - 1) * PerAttempt \in Nat
      /\ (nc.attempt - 1) * PerAttempt + PerAttempt = nc.attempt * PerAttempt
  BY <1>1, InFlight
<1>3. mid \in NodeClaim /\ mid.attempt = nc.attempt /\ mid.server = s /\ mid.join = nc.join /\ mid.token = nc.token
  BY <1>2 DEF NodeClaim
<1> HIDE DEF mid
<1>4. CASE nc.attempt < Attempts
  <2>1. nc.attempt + 1 \in 0 .. Attempts
    BY <1>2, <1>4, Naturals1
  <2>2. new = [mid EXCEPT !.phase = "ordering", !.attempt = nc.attempt + 1, !.spent = 0]
    BY <1>3 DEF NodeClaim
  <2>3. claims' = [claims EXCEPT ![c] = new]
    BY <1>3, <1>4 DEF NextAttempt, mid
  <2> HIDE DEF nc, new
  <2>4. new \in NodeClaim /\ new.phase = "ordering" /\ new.join = nc.join /\ new.token = nc.token
        /\ new.spent = 0 /\ new.attempt = nc.attempt + 1
    BY <1>3, <2>1, <2>2 DEF NodeClaim, InCreate
  <2>5. Used(new) = nc.attempt * PerAttempt
    <3>1. new.attempt - 1 = nc.attempt
      BY <1>2, <2>4
    <3> DEFINE w == nc.attempt * PerAttempt
    <3>2. w \in Nat
      BY <1>2, Naturals1
    <3>3. Used(new) = w + 0
      BY <3>1, <2>4 DEF Used
    <3> HIDE DEF w
    <3>4. Used(new) = w
      BY <3>2, <3>3
    <3> QED BY <3>4 DEF w
  <2>6. Used(nc) + Limit(nc.phase) <= (nc.attempt - 1) * PerAttempt + PerAttempt
    <3> DEFINE w == (nc.attempt - 1) * PerAttempt
    <3>1. w \in Nat
      BY <1>2
    <3>2. nc.phase = "ordering" => Used(nc) = w + 0 /\ Limit(nc.phase) = RequestTime + CreateTimeout
      BY DEF Used, Limit
    <3>3. nc.phase = "cleanup" => Used(nc) = w + (RequestTime + CreateTimeout + 0) /\ Limit(nc.phase) = CleanupTimeout
      BY DEF Used, Limit
    <3>4. nc.phase \in {"ordering", "cleanup"}
      BY DEF nc
    <3> HIDE DEF w
    <3>5. Used(nc) + Limit(nc.phase) <= w + PerAttempt
      BY <3>1, <3>2, <3>3, <3>4, Naturals1
    <3> QED BY <3>5 DEF w
  <2>7. Used(nc) + Limit(nc.phase) <= Used(new)
    BY <1>2, <2>5, <2>6
  <2>8. new.attempt >= 1
    BY <1>2, <2>4
  <2> QED BY <1>1, <2>3, <2>4, <2>7, <2>8, StepPreserves DEF nc
<1>5. CASE ~(nc.attempt < Attempts)
  <2>1. claims' = [claims EXCEPT ![c] = Over(s)]
    BY <1>3, <1>5 DEF NextAttempt, mid
  <2> QED BY <2>1, OverPreserves
<1> QED BY <1>4, <1>5

\* An order takes at most a request and its wait, so it costs the token at most that.
LEMMA OrderPreserves == ASSUME Inv, NEW c \in Claim, Order(c) PROVE Inv'
<1> DEFINE nc == claims[c]
           made == IF nc.server = 0 THEN nc.token ELSE nc.server
           after(ph, s) == [nc EXCEPT !.phase = ph, !.server = s, !.spent = 0]
<1>1. nc.phase = "ordering" /\ nc.phase \in InCreate
  BY DEF Order, InCreate
<1>2. nc \in NodeClaim /\ nc.attempt \in 1 .. Attempts /\ nc.server \in 0 .. MaxTokens /\ nc.token \in 0 .. MaxTokens
      /\ (nc.attempt - 1) * PerAttempt \in Nat
  BY <1>1, InFlight
<1>3. UNCHANGED <<discoveryVars, tokens, minted>> /\ faults' \in 0 .. MaxFaults
  BY FaultBound DEF Order, Inv, TypeOK
<1>4. nc = [nc EXCEPT !.server = nc.server] /\ made \in 0 .. MaxTokens
  BY <1>2 DEF NodeClaim
<1>5. \/ claims' = [claims EXCEPT ![c] = after("rereading", made)]
      \/ claims' = [claims EXCEPT ![c] = NextAttempt(nc)]
      \/ claims' = [claims EXCEPT ![c] = after("cleanup", nc.token)]
      \/ \E s \in 0 .. MaxTokens : claims' = [claims EXCEPT ![c] = Over(s)]
  BY <1>2 DEF Order
<1>6. ASSUME NEW ph \in {"rereading", "cleanup"}, NEW s \in 0 .. MaxTokens, claims' = [claims EXCEPT ![c] = after(ph, s)]
      PROVE  Inv'
  <2> DEFINE new == after(ph, s)
  <2>1. new \in NodeClaim /\ new.phase = ph /\ new.join = nc.join /\ new.token = nc.token /\ new.attempt = nc.attempt /\ new.spent = 0
    BY <1>2 DEF NodeClaim, InCreate
  <2>2. claims' = [claims EXCEPT ![c] = new]
    BY <1>6
  <2> HIDE DEF new, nc
  <2> DEFINE w == (nc.attempt - 1) * PerAttempt
  <2>3. Used(nc) = w + 0 /\ Limit(nc.phase) = RequestTime + CreateTimeout /\ Used(new) = w + (RequestTime + CreateTimeout + 0)
    BY <1>1, <2>1 DEF Used, Limit
  <2>4. w \in Nat
    BY <1>2
  <2> HIDE DEF w
  <2>5. Used(nc) + Limit(nc.phase) <= Used(new)
    BY <2>3, <2>4, Naturals1
  <2>6. new.attempt >= 1
    BY <1>2, <2>1
  <2> QED BY <1>1, <1>3, <2>1, <2>2, <2>5, <2>6, StepPreserves DEF nc
<1>7. CASE claims' = [claims EXCEPT ![c] = NextAttempt(nc)]
  <2>1. claims' = [claims EXCEPT ![c] = NextAttempt([nc EXCEPT !.server = nc.server])]
    BY <1>4, <1>7
  <2> QED BY <1>1, <1>2, <1>3, <2>1, NextAttemptPreserves
<1>8. CASE \E s \in 0 .. MaxTokens : claims' = [claims EXCEPT ![c] = Over(s)]
  BY <1>3, <1>8, OverPreserves
<1> HIDE DEF after, made
<1> QED BY <1>2, <1>4, <1>5, <1>6, <1>7, <1>8

\* A cleanup ends at its own deadline, and with it the attempt.
LEMMA CleanupPreserves == ASSUME Inv, NEW c \in Claim, Cleanup(c) PROVE Inv'
<1>1. claims[c].phase \in {"ordering", "cleanup"} /\ claims[c].phase \in InCreate
  BY DEF Cleanup, InCreate
<1>2. PICK left \in {0, claims[c].server} :
        \E new \in {NextAttempt([claims[c] EXCEPT !.server = left]), Over(left)} : claims' = [claims EXCEPT ![c] = new]
  BY DEF Cleanup
<1>3. left \in 0 .. MaxTokens
  BY <1>1, <1>2, InFlight
<1>4. UNCHANGED <<discoveryVars, tokens, minted>> /\ faults' \in 0 .. MaxFaults
  BY FaultBound DEF Cleanup, Inv, TypeOK
<1>5. \/ claims' = [claims EXCEPT ![c] = NextAttempt([claims[c] EXCEPT !.server = left])]
      \/ claims' = [claims EXCEPT ![c] = Over(left)]
  BY <1>2
<1> QED BY <1>1, <1>3, <1>4, <1>5, NextAttemptPreserves, OverPreserves

\* The read that ends a Create costs at most a request.
LEMMA RereadPreserves == ASSUME Inv, NEW c \in Claim, Reread(c) PROVE Inv'
<1> DEFINE nc == claims[c]
           new == [nc EXCEPT !.phase = "launched", !.spent = 0]
<1>1. nc.phase = "rereading" /\ nc.phase \in InCreate
  BY DEF Reread, InCreate
<1>2. nc \in NodeClaim /\ nc.attempt \in 1 .. Attempts /\ nc.server \in 0 .. MaxTokens /\ (nc.attempt - 1) * PerAttempt \in Nat
  BY <1>1, InFlight
<1>3. UNCHANGED <<discoveryVars, tokens, minted>> /\ faults' \in 0 .. MaxFaults
  BY FaultBound DEF Reread, Inv, TypeOK
<1>4. claims' = [claims EXCEPT ![c] = new] \/ claims' = [claims EXCEPT ![c] = Over(nc.server)]
  <2>1. claims \in [Claim -> NodeClaim]
    BY DEF Inv, TypeOK
  <2> QED BY <1>2, <2>1 DEF Reread, NodeClaim
<1>5. CASE claims' = [claims EXCEPT ![c] = new]
  <2>1. new \in NodeClaim /\ new.phase = "launched" /\ new.join = nc.join /\ new.token = nc.token /\ new.attempt = nc.attempt /\ new.spent = 0
    BY <1>2 DEF NodeClaim
  <2> HIDE DEF new, nc
  <2> DEFINE w == (nc.attempt - 1) * PerAttempt
  <2>2. /\ Used(nc) = w + (RequestTime + CreateTimeout + 0) /\ Limit(nc.phase) = RequestTime
        /\ Used(new) = w + (RequestTime + CreateTimeout + RequestTime)
    BY <1>1, <2>1 DEF Used, Limit
  <2>3. w \in Nat
    BY <1>2
  <2> HIDE DEF w
  <2>4. Used(nc) + Limit(nc.phase) <= Used(new)
    BY <2>2, <2>3, Naturals1
  <2>5. new.attempt >= 1
    BY <1>2, <2>1
  <2> QED BY <1>1, <1>3, <1>5, <2>1, <2>4, <2>5, StepPreserves DEF nc
<1>6. CASE claims' = [claims EXCEPT ![c] = Over(nc.server)]
  BY <1>2, <1>3, <1>6, OverPreserves
<1> QED BY <1>4, <1>5, <1>6

\* A deleted NodeClaim takes only its own Secrets with it.
LEMMA DeletePreserves == ASSUME Inv, NEW c \in Claim, Delete(c) PROVE Inv'
<1> DEFINE nc == [NewClaim EXCEPT !.phase = "gone"]
<1>1. nc \in NodeClaim /\ nc.phase = "gone"
  BY Naturals1 DEF NewClaim, NodeClaim, NoPair, Pair, Value, Override
<1>2. claims' = [claims EXCEPT ![c] = nc] /\ UNCHANGED discoveryVars
  BY DEF Delete
<1>3. tokens' \subseteq Token /\ (\A t \in tokens : t.claim # c => t \in tokens') /\ faults' \in 0 .. MaxFaults /\ minted' \in 0 .. MaxTokens
  BY DEF Delete, Inv, TypeOK
<1> HIDE DEF nc
<1>4. Safe(c, nc, tokens') /\ nc.phase \notin InCreate \cup {"launched"}
  BY <1>1, AtRest
<1> QED BY <1>1, <1>2, <1>3, <1>4, LaunchPreserves

\* Time passes no deadline, and takes from a token what it adds to the phase.
LEMMA TickPreserves == ASSUME Inv, Tick PROVE Inv'
<1>1. ASSUME NEW t \in tokens, t.left > 1
      PROVE  LET u == [t EXCEPT !.left = @ - 1] IN u \in tokens' /\ u.id = t.id /\ u.claim = t.claim /\ u.left = t.left - 1
  <2>1. t \in Token
    BY DEF Inv, TypeOK
  <2> QED BY <1>1, <2>1 DEF Tick, Token
<1>2. tokens' \subseteq Token
  <2> SUFFICES ASSUME NEW u \in tokens' PROVE u \in Token
    OBVIOUS
  <2>1. PICK t \in tokens : t.left > 1 /\ u = [t EXCEPT !.left = @ - 1]
    BY DEF Tick
  <2>2. t \in Token /\ t.left - 1 \in Nat
    BY <2>1 DEF Inv, TypeOK, Token
  <2> QED BY <2>1, <2>2 DEF Token
<1>3. ASSUME NEW c \in Claim
      PROVE  /\ claims[c] \in NodeClaim /\ claims'[c] \in NodeClaim
             /\ claims'[c].phase = claims[c].phase /\ claims'[c].join = claims[c].join
             /\ claims'[c].token = claims[c].token /\ claims'[c].attempt = claims[c].attempt
             /\ claims[c].phase \in InCreate \cup {"launched"} => claims'[c].spent = claims[c].spent + 1
  <2>1. claims[c] \in NodeClaim
    BY DEF Inv, TypeOK
  <2>2. claims'[c] = IF claims[c].phase \in InCreate \cup {"launched"}
                     THEN [claims[c] EXCEPT !.spent = @ + 1] ELSE claims[c]
    BY DEF Tick
  <2>3. claims[c].spent + 1 \in Nat
    BY <2>1 DEF NodeClaim
  <2> DEFINE nc == claims[c]
  <2> HIDE DEF nc
  <2>4. nc \in NodeClaim /\ nc.spent + 1 \in Nat /\ claims'[c] = (IF nc.phase \in InCreate \cup {"launched"} THEN [nc EXCEPT !.spent = @ + 1] ELSE nc)
    BY <2>1, <2>2, <2>3 DEF nc
  <2>5. /\ claims'[c] \in NodeClaim /\ claims'[c].phase = nc.phase /\ claims'[c].join = nc.join
        /\ claims'[c].token = nc.token /\ claims'[c].attempt = nc.attempt
        /\ nc.phase \in InCreate \cup {"launched"} => claims'[c].spent = nc.spent + 1
    BY <2>4 DEF NodeClaim
  <2> QED BY <2>1, <2>5 DEF nc
<1>4. TypeOK'
  <2>1. claims' \in [Claim -> NodeClaim]
    <3>1. claims' = [c \in Claim |-> claims'[c]]
      BY DEF Tick
    <3> QED BY <3>1, <1>3
  <2> QED BY <1>2, <2>1 DEF Tick, Inv, TypeOK, discoveryVars
<1>5. CacheInv' /\ JoinParametersArePaired'
  BY <1>3 DEF Tick, discoveryVars, Inv, CacheInv, JoinParametersArePaired, Whole, FromOneRead
<1>6. TokenInv'
  <2> SUFFICES ASSUME NEW c \in Claim, claims'[c].phase \in InCreate \cup {"launched"}
               PROVE  Safe(c, claims'[c], tokens')
    BY DEF TokenInv, Safe
  <2> DEFINE nc == claims[c]
             new == claims'[c]
             u == Used(nc)
  <2>1. nc \in NodeClaim /\ new.phase = nc.phase /\ new.token = nc.token /\ new.attempt = nc.attempt /\ new.spent = nc.spent + 1
    BY <1>3
  <2>2. nc.phase \in InCreate \cup {"launched"} /\ nc.spent \in Nat /\ nc.attempt \in Nat /\ \A t \in tokens : t.left \in Nat
    BY <2>1, Naturals1 DEF NodeClaim, Inv, TypeOK, Token
  <2>3. nc.attempt >= 1 /\ nc.spent <= Limit(nc.phase) /\
        (u + nc.spent < TokenTTL => \E t \in tokens : t.id = nc.token /\ t.claim = c /\ TokenTTL <= t.left + u + nc.spent)
    BY <2>2 DEF Inv, TokenInv, Safe
  <2>4. new.spent <= Limit(new.phase)
    <3>1. nc.spent < Limit(nc.phase)
      BY <2>2 DEF Tick, Limit, InCreate
    <3>2. Limit(nc.phase) \in Nat
      BY Naturals1 DEF Limit
    <3> QED BY <2>1, <2>2, <3>1, <3>2
  <2>5. Used(new) = u
    BY <2>1 DEF Used
  <2>6. u \in Nat
    <3>1. (nc.attempt - 1) * PerAttempt \in Nat
      BY <2>2, <2>3, Spent
    <3> QED BY <3>1, Naturals1 DEF Used
  <2> HIDE DEF nc, new, u
  <2>7. ASSUME u + new.spent < TokenTTL
        PROVE  \E t \in tokens' : t.id = new.token /\ t.claim = c /\ TokenTTL <= t.left + u + new.spent
    <3>1. u + nc.spent < TokenTTL
      BY <2>1, <2>2, <2>6, <2>7, Naturals1
    <3>2. PICK t \in tokens : t.id = nc.token /\ t.claim = c /\ TokenTTL <= t.left + u + nc.spent
      BY <2>3, <3>1
    <3>3. t.left \in Nat /\ t.left > 1 /\ TokenTTL <= (t.left - 1) + u + new.spent
      BY <2>1, <2>2, <2>6, <2>7, <3>2, Naturals1
    <3> DEFINE x == [t EXCEPT !.left = @ - 1]
    <3>4. x \in tokens' /\ x.id = t.id /\ x.claim = t.claim /\ x.left = t.left - 1
      BY <1>1, <3>3
    <3> HIDE DEF x
    <3>5. x.id = new.token /\ x.claim = c /\ TokenTTL <= x.left + u + new.spent
      BY <2>1, <3>2, <3>3, <3>4
    <3> QED BY <3>4, <3>5
  <2>8. Safe(c, new, tokens')
    BY <2>1, <2>3, <2>4, <2>5, <2>7 DEF Safe
  <2> QED BY <2>8 DEF new
<1> QED BY <1>4, <1>5, <1>6 DEF Inv

\* Inv is inductive.
LEMMA Inductive == Inv /\ [Next]_vars => Inv'
<1> SUFFICES ASSUME Inv, [Next]_vars PROVE Inv'
  OBVIOUS
<1>1. ASSUME NEW k \in Class, Run(k) PROVE Inv'
  BY <1>1, ReadPreserves, StorePreserves, PublishPreserves DEF Run
<1>2. ASSUME NEW c \in Claim, Launch(c) PROVE Inv'
  BY <1>2, RenderPreserves, OrderPreserves, CleanupPreserves, RereadPreserves, DeletePreserves DEF Launch
<1>3. CASE UNCHANGED vars
  BY <1>3 DEF vars, Inv, TypeOK, CacheInv, JoinParametersArePaired, TokenInv, Safe, Whole, FromOneRead
<1> QED BY <1>1, <1>2, <1>3, ControlPlanePreserves, TickPreserves DEF Next

-----------------------------------------------------------------------------
\* Discovery, its passes, the launches and the token Secrets stay within their types.
THEOREM TypeCorrect == Spec => []TypeOK
<1>1. Inv => TypeOK
  BY DEF Inv
<1> QED BY <1>1, InitEstablishes, Inductive, PTL DEF Spec

\* However passes over several classes interleave around the cache they share, no
\* status and no userdata pairs an endpoint with pins of another read, or holds one
\* without the other (Refresh, Resolve, Render).
THEOREM EndpointsMatchTheirPins == Spec => []JoinParametersArePaired
<1>1. Inv => JoinParametersArePaired
  BY DEF Inv
<1> QED BY <1>1, InitEstablishes, Inductive, PTL DEF Spec

\* Whatever orders fail before one succeeds, and however long their waits and cleanups
\* take within their deadlines, the token a server boots with outlives core's wait for
\* the node on every attempt that DefaultTokenTTL has room for (Mint, Provider.Create,
\* serverClient.Create); nothing is assumed of how the durations relate.
THEOREM TokensLastUntilRegistration == Spec => []TokenOutlivesRegistration
<1>1. Inv => TokenOutlivesRegistration
  <2> SUFFICES ASSUME Inv, NEW c \in Claim, claims[c].phase = "launched",
                      TokenTTL > Elapsed(claims[c].attempt) + RegistrationTTL
               PROVE  \E t \in tokens : t.id = claims[c].token /\ t.claim = c /\ t.left + claims[c].spent > RegistrationTTL
    BY DEF TokenOutlivesRegistration
  <2> DEFINE nc == claims[c]
             u == Used(nc)
  <2>1. nc \in NodeClaim /\ nc.attempt \in Nat /\ nc.spent \in Nat /\ \A t \in tokens : t.left \in Nat
    BY Naturals1 DEF Inv, TypeOK, NodeClaim, Token
  <2>2. nc.attempt >= 1 /\ nc.spent <= RegistrationTTL /\
        (u + nc.spent < TokenTTL => \E t \in tokens : t.id = nc.token /\ t.claim = c /\ TokenTTL <= t.left + u + nc.spent)
    BY DEF Inv, TokenInv, Safe, Limit
  <2>3. u \in Nat /\ TokenTTL > u + RegistrationTTL
    <3> DEFINE w == (nc.attempt - 1) * PerAttempt
    <3>1. w \in Nat
      BY <2>1, <2>2, Spent
    <3>2. u = w + (RequestTime + CreateTimeout + RequestTime) /\ Elapsed(nc.attempt) = w + RequestTime + CreateTimeout + RequestTime
      BY DEF Used, Elapsed, PerAttempt
    <3> HIDE DEF w, u
    <3> QED BY <3>1, <3>2, Naturals1
  <2> HIDE DEF nc, u
  <2>4. \E t \in tokens : t.id = nc.token /\ t.claim = c /\ t.left + nc.spent > RegistrationTTL
    BY <2>1, <2>2, <2>3, Naturals1
  <2> QED BY <2>4 DEF nc
<1> QED BY <1>1, InitEstablishes, Inductive, PTL DEF Spec

-----------------------------------------------------------------------------
(* The other sub-reconcilers (Resolvers.tla): any sequence of them, any answers
   and lists of any length. *)

Reasons == {"", "NotFound", "InvalidConfiguration", "CredentialRejected"}

\* What the error classes make of an answer.
LEMMA CodeFacts ==
  ASSUME NEW a, a # "NotFoundError"
  PROVE  LET r == configFailure(lookup(a)) IN
         /\ r \in Reasons
         /\ r = "NotFound" <=> a = "nil"
         /\ r # "" => a \in {"nil"} \cup Config \cup Fatal
<1> DEFINE r == configFailure(lookup(a))
<1>1. CASE a = "nil"
  <2>1. lookup(a) = "NotFoundError"
    BY <1>1 DEF lookup
  <2>2. Classify("NotFoundError") = "transient"
    BY DEF Classify, Capacity, Quota, Config, Fatal
  <2>3. r = "NotFound"
    BY <2>1, <2>2 DEF configFailure
  <2> QED BY <1>1, <2>3 DEF Reasons
<1>2. CASE a # "nil"
  <2>1. lookup(a) = a
    BY <1>2 DEF lookup
  <2>2. Classify(a) = "config" => a \in Config
    BY DEF Classify
  <2>3. Classify(a) = "fatal" => a \in Fatal
    BY DEF Classify
  <2>4. r = CASE Classify(a) = "config" -> "InvalidConfiguration"
              [] Classify(a) = "fatal" -> "CredentialRejected" [] OTHER -> ""
    BY <1>2, <2>1 DEF configFailure
  <2>5. /\ Classify(a) = "config" => r = "InvalidConfiguration"
        /\ Classify(a) = "fatal" => r = "CredentialRejected"
        /\ Classify(a) \notin {"config", "fatal"} => r = ""
    BY <2>4
  <2> HIDE DEF r
  <2>6. r \in Reasons /\ r # "NotFound" /\ (r # "" => a \in Config \cup Fatal)
    BY <2>2, <2>3, <2>5 DEF Reasons
  <2> QED BY <1>2, <2>6 DEF r
<1> QED BY <1>1, <1>2

\* No code of the config or fatal class passes for a resource or a miss.
LEMMA CodesAreCodes == "found" \notin Config \cup Fatal /\ "nil" \notin Config \cup Fatal
  BY DEF Config, Fatal

Any == UNION {Answers[k] : k \in Kind}
LoopRec == [n : Nat, of : Seq(Any), resolved : Seq(Nat), reason : Reasons, closed : BOOLEAN]

\* What the loop's accumulator says of the answers so far.
Says(of, resolved, reason, closed) ==
  /\ \A i \in DOMAIN of : of[i] \in {"found", "nil"} \cup Config \cup Fatal
  /\ \A j \in DOMAIN resolved : resolved[j] \in DOMAIN of /\ of[resolved[j]] = "found"
  /\ \A i \in DOMAIN of : of[i] = "found" => \E j \in DOMAIN resolved : resolved[j] = i
  /\ \A i, j \in DOMAIN resolved : i < j => resolved[i] < resolved[j]
  /\ reason = "" => Len(resolved) = Len(of) /\ \A i \in DOMAIN of : of[i] = "found"
  /\ reason # "" => \E i \in DOMAIN of : of[i] # "found"
  /\ closed <=> \E i \in DOMAIN of : of[i] \notin {"found", "nil"}
  /\ closed <=> reason \notin {"", "NotFound"}

LoopInv(l) == l \in LoopRec /\ Says(l.of, l.resolved, l.reason, l.closed)

\* A loop that starts knows nothing.
LEMMA LoopStarts == ASSUME NEW n \in Nat PROVE LoopInv(Start(n)) /\ Start(n).n = n
<1> DEFINE l == Start(n)
<1>1. /\ l.n = n /\ l.of = <<>> /\ l.resolved = <<>> /\ l.reason = "" /\ l.closed = FALSE
  BY DEF Start
<1>2. <<>> \in Seq(Any) /\ <<>> \in Seq(Nat)
  OBVIOUS
<1>3. l \in LoopRec
  BY <1>2 DEF LoopRec, Start, Reasons
<1> HIDE DEF l
<1>e. Len(<<>>) = 0 /\ DOMAIN <<>> = {}
  OBVIOUS
<1>4. DOMAIN l.of = {} /\ DOMAIN l.resolved = {} /\ Len(l.of) = 0 /\ Len(l.resolved) = 0
  BY <1>1, <1>e, Zenon
<1>5. LoopInv(l)
  BY <1>1, <1>3, <1>4, Zenon DEF LoopInv, Says
<1> QED BY <1>1, <1>5 DEF l

\* One more selector of the loop.
LEMMA LoopVisits ==
  ASSUME NEW l, LoopInv(l), NEW a \in Any, a # "NotFoundError", ~Ends(a)
  PROVE  LoopInv(Visit(l, a)) /\ Visit(l, a).n = l.n
<1> DEFINE r == configFailure(lookup(a))
           m == Visit(l, a)
<1>1. l \in LoopRec /\ l.of \in Seq(Any) /\ l.resolved \in Seq(Nat) /\ l.n \in Nat /\ l.reason \in Reasons /\ l.closed \in BOOLEAN
  BY DEF LoopInv, LoopRec
<1>2. DOMAIN l.of = 1 .. Len(l.of) /\ Len(l.of) \in Nat /\ DOMAIN l.resolved = 1 .. Len(l.resolved) /\ Len(l.resolved) \in Nat
  BY <1>1
<1> DEFINE of == Append(l.of, a)
<1>3. /\ of \in Seq(Any) /\ DOMAIN of = DOMAIN l.of \cup {Len(l.of) + 1} /\ of[Len(l.of) + 1] = a
      /\ \A i \in DOMAIN l.of : of[i] = l.of[i]
      /\ Len(of) = Len(l.of) + 1 /\ Len(l.of) + 1 \notin DOMAIN l.of
  BY <1>1, <1>2
<1>l. /\ \A j \in DOMAIN l.resolved : l.resolved[j] \in DOMAIN l.of /\ l.of[l.resolved[j]] = "found"
      /\ \A i \in DOMAIN l.of : l.of[i] = "found" => \E j \in DOMAIN l.resolved : l.resolved[j] = i
      /\ \A i, j \in DOMAIN l.resolved : i < j => l.resolved[i] < l.resolved[j]
  BY DEF LoopInv, Says
<1>r. r \in Reasons /\ (r = "NotFound" <=> a = "nil") /\ (r # "" => a \in {"nil"} \cup Config \cup Fatal)
  BY CodeFacts
<1>4. ASSUME a = "found" PROVE LoopInv(m) /\ m.n = l.n
  <2> DEFINE resolved == Append(l.resolved, Len(l.of) + 1)
  <2>1. m = [l EXCEPT !.of = of, !.resolved = resolved]
    BY <1>4 DEF Visit
  <2>2. /\ resolved \in Seq(Nat) /\ DOMAIN resolved = DOMAIN l.resolved \cup {Len(l.resolved) + 1}
        /\ resolved[Len(l.resolved) + 1] = Len(l.of) + 1 /\ \A j \in DOMAIN l.resolved : resolved[j] = l.resolved[j]
        /\ Len(resolved) = Len(l.resolved) + 1
    BY <1>1, <1>2
  <2> HIDE DEF of, resolved, m
  <2>3. /\ m.of = of /\ m.resolved = resolved /\ m.reason = l.reason /\ m.closed = l.closed /\ m.n = l.n
        /\ m \in LoopRec
    BY <1>1, <1>3, <2>1, <2>2 DEF LoopRec
  <2>4. \A i \in DOMAIN of : of[i] \in {"found", "nil"} \cup Config \cup Fatal
    BY <1>3, <1>4 DEF LoopInv, Says
  <2>5. \A j \in DOMAIN resolved : resolved[j] \in DOMAIN of /\ of[resolved[j]] = "found"
    BY <1>3, <1>4, <1>l, <2>2
  <2>6. \A i \in DOMAIN of : of[i] = "found" => \E j \in DOMAIN resolved : resolved[j] = i
    BY <1>3, <1>4, <1>l, <2>2
  <2>7. \A i, j \in DOMAIN resolved : i < j => resolved[i] < resolved[j]
    <3> SUFFICES ASSUME NEW i \in DOMAIN resolved, NEW j \in DOMAIN resolved, i < j PROVE resolved[i] < resolved[j]
      OBVIOUS
    <3>1. CASE j \in DOMAIN l.resolved
      <4>1. i \in DOMAIN l.resolved
        BY <1>2, <2>2, <3>1
      <4> QED BY <1>l, <2>2, <3>1, <4>1
    <3>2. CASE j = Len(l.resolved) + 1
      <4>1. i \in DOMAIN l.resolved
        BY <1>2, <2>2, <3>2
      <4>2. l.resolved[i] \in DOMAIN l.of
        BY <4>1 DEF LoopInv, Says
      <4> QED BY <1>2, <2>2, <3>2, <4>1, <4>2
    <3> QED BY <2>2, <3>1, <3>2
  <2>8. l.reason = "" => Len(resolved) = Len(of) /\ \A i \in DOMAIN of : of[i] = "found"
    BY <1>3, <1>4, <2>2 DEF LoopInv, Says
  <2>9. l.reason # "" => \E i \in DOMAIN of : of[i] # "found"
    BY <1>3, Zenon DEF LoopInv, Says
  <2>10. l.closed <=> \E i \in DOMAIN of : of[i] \notin {"found", "nil"}
    <3>1. l.closed <=> \E i \in DOMAIN l.of : l.of[i] \notin {"found", "nil"}
      BY DEF LoopInv, Says
    <3> QED BY <1>3, <1>4, <3>1, Zenon
  <2>11. l.closed <=> l.reason \notin {"", "NotFound"}
    BY DEF LoopInv, Says
  <2>12. Says(of, resolved, l.reason, l.closed)
    BY <2>4, <2>5, <2>6, <2>7, <2>8, <2>9, <2>10, <2>11, Zenon DEF Says
  <2> QED BY <2>3, <2>12, Zenon DEF LoopInv
<1>5. ASSUME a # "found" PROVE LoopInv(m) /\ m.n = l.n
  <2>0. r # ""
    BY <1>5 DEF Ends
  <2> DEFINE closed == l.closed \/ r # "NotFound"
             reason == IF l.reason = "" \/ (r # "NotFound" /\ l.reason = "NotFound") THEN r ELSE l.reason
  <2>1. m = [l EXCEPT !.of = of, !.closed = closed, !.reason = reason]
    BY <1>5 DEF Visit
  <2>2. closed \in BOOLEAN /\ reason \in Reasons /\ reason # ""
    BY <1>1, <1>r, <2>0
  <2>k. l.closed <=> l.reason \notin {"", "NotFound"}
    BY DEF LoopInv, Says
  <2>11. closed <=> reason \notin {"", "NotFound"}
    <3>1. CASE r = "NotFound"
      BY <2>k, <3>1
    <3>2. CASE r # "NotFound"
      BY <2>0, <2>k, <3>2
    <3> QED BY <3>1, <3>2
  <2>12. closed <=> l.closed \/ a # "nil"
    BY <1>r
  <2> HIDE DEF of, m, closed, reason, r
  <2>3. /\ m.of = of /\ m.resolved = l.resolved /\ m.reason = reason /\ m.closed = closed /\ m.n = l.n
        /\ m \in LoopRec
    BY <1>1, <1>3, <2>1, <2>2 DEF LoopRec
  <2>4. \A i \in DOMAIN of : of[i] \in {"found", "nil"} \cup Config \cup Fatal
    BY <1>3, <1>r, <2>0 DEF LoopInv, Says
  <2>5. \A j \in DOMAIN l.resolved : l.resolved[j] \in DOMAIN of /\ of[l.resolved[j]] = "found"
    BY <1>3 DEF LoopInv, Says
  <2>6. \A i \in DOMAIN of : of[i] = "found" => \E j \in DOMAIN l.resolved : l.resolved[j] = i
    BY <1>3, <1>5 DEF LoopInv, Says
  <2>7. \A i, j \in DOMAIN l.resolved : i < j => l.resolved[i] < l.resolved[j]
    BY DEF LoopInv, Says
  <2>9. \E i \in DOMAIN of : of[i] # "found"
    BY <1>3, <1>5
  <2>10. closed <=> \E i \in DOMAIN of : of[i] \notin {"found", "nil"}
    <3>1. l.closed <=> \E i \in DOMAIN l.of : l.of[i] \notin {"found", "nil"}
      BY DEF LoopInv, Says
    <3> QED BY <1>3, <1>5, <2>12, <3>1, Zenon
  <2>13. Says(of, l.resolved, reason, closed)
    BY <2>2, <2>4, <2>5, <2>6, <2>7, <2>9, <2>10, <2>11, Zenon DEF Says
  <2> QED BY <2>3, <2>13, Zenon DEF LoopInv
<1> QED BY <1>4, <1>5

\* The form of a sub-reconciler's result, and what one of kind k says of the answers
\* it came from.
Form(r) ==
  /\ r = [st |-> r.st, reason |-> r.reason, value |-> r.value, of |-> r.of]
  /\ r.st \in {"Unknown", "True", "False"}

Sound(k, r) ==
  /\ k # "SSHKeys" /\ r.st = "True" =>
       /\ \A i \in DOMAIN r.of : r.of[i] = "found"
       /\ Len(r.value) = Len(r.of)
       /\ k = "Network" => "" \notin Range(r.value)
  /\ k = "SSHKeys" /\ r.st # "Unknown" =>
       /\ r.st = "True" <=> \A i \in DOMAIN r.of : r.of[i] \in {"found", "nil"}
       /\ r.st = "True" => Range(r.value) = {i \in DOMAIN r.of : r.of[i] = "found"}
       /\ r.st = "False" => Range(r.value) = {}
       /\ \A i, j \in DOMAIN r.value : i < j => r.value[i] < r.value[j]
  /\ r.st = "False" =>
       \/ \E i \in DOMAIN r.of : r.of[i] \in {"nil"} \cup Config \cup Fatal
       \/ k = "Network" /\ r.reason = "HasNoSubnet"
  /\ r.reason = "NotFound" =>
       (\E i \in DOMAIN r.of : r.of[i] = "nil") /\ (\A i \in DOMAIN r.of : r.of[i] \in {"found", "nil"})

LEMMA EmptyFacts == Len(<<>>) = 0 /\ DOMAIN <<>> = {} /\ Range(<<>>) = {}
<1>1. Len(<<>>) = 0 /\ DOMAIN <<>> = {}
  OBVIOUS
<1>2. Range(<<>>) = {}
  BY <1>1, Zenon DEF Range
<1> QED BY <1>1, <1>2

\* Without a selector there is nothing that could be missing.
LEMMA UnsetIsWhole == ASSUME NEW k PROVE Form(Unset(<<>>)) /\ Sound(k, Unset(<<>>))
<1> DEFINE r == Unset(<<>>)
<1>1. r.st = "True" /\ r.reason = "" /\ r.value = <<>> /\ r.of = <<>> /\ Form(r)
  BY DEF Unset, Nothing, Form
<1> HIDE DEF r
<1>2. DOMAIN r.of = {} /\ DOMAIN r.value = {} /\ Len(r.value) = Len(r.of) /\ Range(r.value) = {}
  BY <1>1, EmptyFacts, Zenon
<1>3. Sound(k, r)
  BY <1>1, <1>2 DEF Sound
<1> QED BY <1>1, <1>3 DEF r

\* A failure worth a retry leaves a result that was reached.
LEMMA UnreachableIsWhole ==
  ASSUME NEW k, NEW r, Form(r), Sound(k, r)
  PROVE  Form(noteUnreachable(r)) /\ Sound(k, noteUnreachable(r))
<1>1. CASE r.st = "Unknown"
  <2> DEFINE s == noteUnreachable(r)
  <2>1. s = [r EXCEPT !.reason = "Unreachable"]
    BY <1>1 DEF noteUnreachable
  <2>2. s.st = "Unknown" /\ s.reason = "Unreachable" /\ Form(s)
    BY <1>1, <2>1 DEF Form
  <2> HIDE DEF s
  <2>3. Sound(k, s)
    BY <2>2 DEF Sound
  <2> QED BY <2>2, <2>3 DEF s
<1>2. CASE r.st # "Unknown"
  BY <1>2 DEF noteUnreachable
<1> QED BY <1>1, <1>2

\* All firewalls were found, or the class is refused over one that was not.
LEMMA FirewallsAreWhole ==
  ASSUME NEW l, LoopInv(l) PROVE Form(Firewalls(l)) /\ Sound("Firewalls", Firewalls(l))
<1> DEFINE r == Firewalls(l)
<1>l. /\ l.reason = "" => Len(l.resolved) = Len(l.of) /\ \A i \in DOMAIN l.of : l.of[i] = "found"
      /\ l.reason # "" => \E i \in DOMAIN l.of : l.of[i] # "found"
      /\ \A i \in DOMAIN l.of : l.of[i] \in {"found", "nil"} \cup Config \cup Fatal
      /\ l.reason = "NotFound" => \A i \in DOMAIN l.of : l.of[i] \in {"found", "nil"}
  BY DEF LoopInv, Says
<1>1. CASE l.reason = ""
  <2>1. r.st = "True" /\ r.reason = "" /\ r.value = l.resolved /\ r.of = l.of /\ Form(r)
    BY <1>1 DEF Firewalls, Done, Form
  <2> HIDE DEF r
  <2>2. Sound("Firewalls", r)
    BY <1>1, <1>l, <2>1 DEF Sound
  <2> QED BY <2>1, <2>2 DEF r
<1>2. CASE l.reason # ""
  <2>1. r.st = "False" /\ r.reason = l.reason /\ r.of = l.of /\ Form(r)
    BY <1>2 DEF Firewalls, Refused, Form
  <2> HIDE DEF r
  <2>2. Sound("Firewalls", r)
    BY <1>2, <1>l, <2>1 DEF Sound
  <2> QED BY <2>1, <2>2 DEF r
<1> QED BY <1>1, <1>2

\* The keys that were found, unless some other answer than a miss fails closed.
LEMMA KeysAreWhole ==
  ASSUME NEW l, LoopInv(l) PROVE Form(SSHKeys(l)) /\ Sound("SSHKeys", SSHKeys(l))
<1> DEFINE r == SSHKeys(l)
<1>l. /\ l.closed <=> \E i \in DOMAIN l.of : l.of[i] \notin {"found", "nil"}
      /\ l.closed <=> l.reason \notin {"", "NotFound"}
      /\ \A i \in DOMAIN l.of : l.of[i] \in {"found", "nil"} \cup Config \cup Fatal
      /\ \A i, j \in DOMAIN l.resolved : i < j => l.resolved[i] < l.resolved[j]
  BY DEF LoopInv, Says
<1>1. CASE ~l.closed
  <2>1. /\ r.st = "True" /\ r.reason = (IF l.reason # "" THEN "Narrowed" ELSE "")
        /\ r.value = l.resolved /\ r.of = l.of /\ Form(r)
    BY <1>1 DEF SSHKeys, Done, Form
  <2> HIDE DEF r
  <2>2. r.reason # "NotFound"
    BY <2>1
  <2>3. Range(l.resolved) = {i \in DOMAIN l.of : l.of[i] = "found"}
    <3>1. \A j \in DOMAIN l.resolved : l.resolved[j] \in DOMAIN l.of /\ l.of[l.resolved[j]] = "found"
      BY DEF LoopInv, Says
    <3>2. \A i \in DOMAIN l.of : l.of[i] = "found" => \E j \in DOMAIN l.resolved : l.resolved[j] = i
      BY DEF LoopInv, Says
    <3>3. \A x : x \in Range(l.resolved) <=> \E j \in DOMAIN l.resolved : x = l.resolved[j]
      BY Zenon DEF Range
    <3>4. \A x : x \in Range(l.resolved) <=> x \in DOMAIN l.of /\ l.of[x] = "found"
      <4> TAKE x
      <4>1. ASSUME x \in Range(l.resolved) PROVE x \in DOMAIN l.of /\ l.of[x] = "found"
        <5>1. PICK j \in DOMAIN l.resolved : x = l.resolved[j]
          BY <3>3, <4>1
        <5> QED BY <3>1, <5>1
      <4>2. ASSUME x \in DOMAIN l.of, l.of[x] = "found" PROVE x \in Range(l.resolved)
        <5>1. PICK j \in DOMAIN l.resolved : l.resolved[j] = x
          BY <3>2, <4>2
        <5> QED BY <3>3, <5>1
      <4> QED BY <4>1, <4>2
    <3> QED BY <3>4
  <2>4. Sound("SSHKeys", r)
    BY <1>1, <1>l, <2>1, <2>2, <2>3, Zenon DEF Sound
  <2> QED BY <2>1, <2>4 DEF r
<1>2. CASE l.closed
  <2>1. r.st = "False" /\ r.reason = l.reason /\ r.of = l.of /\ r.value = <<>> /\ Form(r)
    BY <1>2 DEF SSHKeys, Refused, Nothing, Form
  <2> HIDE DEF r
  <2>2. DOMAIN r.value = {} /\ Range(r.value) = {}
    BY <2>1, EmptyFacts, Zenon
  <2>3. \E i \in DOMAIN r.of : r.of[i] \in {"nil"} \cup Config \cup Fatal
    BY <1>2, <1>l, <2>1
  <2>4. r.reason # "NotFound" /\ ~\A i \in DOMAIN r.of : r.of[i] \in {"found", "nil"}
    BY <1>2, <1>l, <2>1
  <2>5. Sound("SSHKeys", r)
    BY <2>1, <2>2, <2>3, <2>4 DEF Sound
  <2> QED BY <2>1, <2>5 DEF r
<1> QED BY <1>1, <1>2

\* A kind with one selector: f if it was found, else a refusal or no change.
LEMMA OneIsWhole ==
  ASSUME NEW k, k # "SSHKeys", NEW r, Form(r), Sound(k, r), NEW answers \in [1 .. 1 -> Any], answers[1] # "NotFoundError",
         NEW f, Form(f), answers[1] = "found" => Sound(k, f)
  PROVE  Form(One(r, answers, f)) /\ Sound(k, One(r, answers, f))
<1> DEFINE e == configFailure(lookup(answers[1]))
<1>0. e \in Reasons /\ (e = "NotFound" <=> answers[1] = "nil") /\ (e # "" => answers[1] \in {"nil"} \cup Config \cup Fatal)
  BY CodeFacts
<1>d. DOMAIN answers = {1}
  OBVIOUS
<1>1. CASE answers[1] = "found"
  <2>1. lookup(answers[1]) = "found"
    BY <1>1 DEF lookup
  <2> QED BY <1>1, <2>1 DEF One
<1>2. CASE answers[1] # "found" /\ e # ""
  <2> DEFINE s == Refused(e, answers)
  <2>1. lookup(answers[1]) # "found"
    BY <1>2 DEF lookup
  <2>2. One(r, answers, f) = s
    BY <1>2, <2>1 DEF One
  <2>3. s.st = "False" /\ s.reason = e /\ s.of = answers /\ Form(s)
    BY DEF Refused, Form
  <2> HIDE DEF s, e
  <2>4. Sound(k, s)
    BY <1>0, <1>2, <1>d, <2>3 DEF Sound
  <2> QED BY <2>2, <2>3, <2>4
<1>3. CASE answers[1] # "found" /\ e = ""
  <2>1. lookup(answers[1]) # "found"
    BY <1>3 DEF lookup
  <2>2. One(r, answers, f) = noteUnreachable(r)
    BY <1>3, <2>1 DEF One
  <2> QED BY <2>2, UnreachableIsWhole
<1> QED BY <1>1, <1>2, <1>3

\* Sequences of one element.
LEMMA JustOne == 1 .. 1 = {1} /\ \A n \in Nat : 1 .. n = 1 .. 1 => n = 1
<1>1. 1 .. 1 = {1}
  OBVIOUS
<1>2. ASSUME NEW n \in Nat, 1 .. n = {1} PROVE n = 1
  <2>1. 1 \in 1 .. n
    BY <1>2
  <2>2. n \in 1 .. n
    BY <2>1
  <2> QED BY <1>2, <2>2
<1> QED BY <1>1, <1>2

LEMMA Singleton == ASSUME NEW v PROVE Len(<<v>>) = 1 /\ DOMAIN <<v>> = {1} /\ <<v>>[1] = v
<1>1. Len(<<v>>) = 1 /\ <<v>>[1] = v
  OBVIOUS
<1>2. DOMAIN <<v>> = 1 .. 1
  OBVIOUS
<1> QED BY <1>1, <1>2, JustOne

\* A found resource of such a kind is published: one value for the one selector.
LEMMA DoneIsWhole ==
  ASSUME NEW k, k # "SSHKeys", NEW reason, reason # "NotFound", NEW v, k = "Network" => v # "",
         NEW answers \in [1 .. 1 -> Any]
  PROVE  LET f == Done(reason, <<v>>, answers) IN Form(f) /\ (answers[1] = "found" => Sound(k, f))
<1> DEFINE f == Done(reason, <<v>>, answers)
<1>1. f.st = "True" /\ f.reason = reason /\ f.value = <<v>> /\ f.of = answers /\ Form(f)
  BY DEF Done, Form
<1>a. DOMAIN answers = 1 .. 1 /\ 1 .. 1 = {1}
  BY JustOne
<1>b. Len(answers) = 1
  <2>1. answers \in Seq(Any)
    BY SeqDef
  <2>2. Len(answers) \in Nat /\ DOMAIN answers = 1 .. Len(answers)
    BY <2>1, LenProperties
  <2> QED BY <1>a, <2>2, JustOne
<1>c. Len(<<v>>) = 1 /\ DOMAIN <<v>> = {1} /\ <<v>>[1] = v
  BY Singleton
<1>2. Len(<<v>>) = 1 /\ Len(answers) = 1 /\ DOMAIN answers = {1} /\ DOMAIN <<v>> = {1} /\ <<v>>[1] = v
  BY <1>a, <1>b, <1>c
<1>3. k = "Network" => "" \notin Range(<<v>>)
  BY <1>2, Zenon DEF Range
<1> HIDE DEF f
<1>4. ASSUME answers[1] = "found" PROVE Sound(k, f)
  BY <1>1, <1>2, <1>3, <1>4 DEF Sound
<1> QED BY <1>1, <1>4 DEF f

ResolverInv ==
  /\ pc \in Nat \ {0}
  /\ DOMAIN res = Kind /\ res = [k \in Kind |-> res[k]]
  /\ \A k \in Kind : Form(res[k]) /\ Sound(k, res[k])
  /\ LoopInv(loop)
  /\ loop.n # 0 => pc <= Len(Kinds) /\ Kinds[pc] \in Listed

\* A sub-reconciler that leaves a whole result keeps the rest as it was.
LEMMA LeaveIsWhole ==
  ASSUME ResolverInv, NEW k \in Kind, NEW r, Form(r), Sound(k, r), Leave(k, r) PROVE ResolverInv'
<1>1. LoopInv(loop)' /\ (loop.n # 0)' = FALSE
  <2>1. loop' = Start(0)
    BY DEF Leave, NoLoop
  <2>2. LoopInv(Start(0)) /\ Start(0).n = 0
    BY LoopStarts
  <2> QED BY <2>1, <2>2 DEF LoopInv, LoopRec, Any, Says, Kind
<1>2. res' = [res EXCEPT ![k] = r] /\ pc' \in Nat \ {0}
  BY DEF Leave, ResolverInv
<1>3. DOMAIN res' = Kind /\ res' = [q \in Kind |-> res'[q]]
  BY <1>2 DEF ResolverInv
<1>4. \A q \in Kind : res'[q] = IF q = k THEN r ELSE res[q]
  BY <1>2 DEF ResolverInv
<1>5. \A q \in Kind : Form(res'[q]) /\ Sound(q, res'[q])
  BY <1>4 DEF ResolverInv
<1> QED BY <1>1, <1>2, <1>3, <1>5, Zenon DEF ResolverInv, Kind

LEMMA ResolverStep == ASSUME ResolverInv, [ResolverNext]_resolverVars PROVE ResolverInv'
<1> DEFINE k == Kinds[pc]
<1>0. ASSUME pc <= Len(Kinds) PROVE k \in Kind /\ k \in KindNames
  <2>1. Kinds \in Seq(KindNames) /\ pc \in Nat \ {0}
    BY InstanceIsSane DEF ResolverInv
  <2>2. pc \in DOMAIN Kinds
    BY <1>0, <2>1
  <2>3. k \in Kind
    BY <2>2, Zenon DEF Kind, Range
  <2> QED BY <2>1, <2>2, <2>3
<1>a. \A q \in Kind : "NotFoundError" \notin Answers[q] /\ Answers[q] \subseteq Any
  <2>1. \A q \in Kind : "NotFoundError" \notin Answers[q]
    BY InstanceIsSane DEF Kind
  <2>2. \A q \in Kind : Answers[q] \subseteq Any
    BY Zenon DEF Any
  <2> QED BY <2>1, <2>2
<1>1. CASE ResolveOne
  <2>0. pc <= Len(Kinds) /\ k \notin Listed /\ k \in Kind /\ k \in KindNames
    BY <1>0, <1>1 DEF ResolveOne
  <2>1. PICK n \in Selectors(k), zone \in Zones(k), count \in Counts(k) : \E answers \in [1 .. n -> Answers[k]] :
          Leave(k, CASE k = "Image" -> Image(res[k], answers)
                     [] k = "Network" -> Network(res[k], answers, zone)
                     [] k = "PlacementGroup" -> PlacementGroup(res[k], answers, count))
    BY <1>1, Zenon DEF ResolveOne
  <2>2. PICK answers \in [1 .. n -> Answers[k]] :
          Leave(k, CASE k = "Image" -> Image(res[k], answers)
                     [] k = "Network" -> Network(res[k], answers, zone)
                     [] k = "PlacementGroup" -> PlacementGroup(res[k], answers, count))
    BY <2>1
  <2>3. Form(res[k]) /\ Sound(k, res[k])
    BY <2>0 DEF ResolverInv
  <2>4. n \in {0, 1} /\ (k = "Image" => n = 1)
    BY <2>1 DEF Selectors
  <2>5. n = 0 => answers = <<>>
    BY <2>2
  <2>6. n = 1 => answers \in [1 .. 1 -> Any] /\ answers[1] # "NotFoundError" /\ answers # <<>>
    <3> SUFFICES ASSUME n = 1 PROVE answers \in [1 .. 1 -> Any] /\ answers[1] # "NotFoundError" /\ answers # <<>>
      OBVIOUS
    <3>1. answers \in [1 .. 1 -> Answers[k]] /\ Answers[k] \subseteq Any /\ "NotFoundError" \notin Answers[k]
      BY <1>a, <2>0, <2>2
    <3>2. answers \in [1 .. 1 -> Any]
      BY <3>1
    <3>3. 1 \in DOMAIN answers /\ answers[1] \in Answers[k]
      BY <3>1
    <3> QED BY <3>1, <3>2, <3>3, EmptyFacts
  <2>7. CASE k = "Image"
    <3>1. Leave(k, Image(res[k], answers))
      BY <2>2, <2>7
    <3>2. Form(Image(res[k], answers)) /\ Sound(k, Image(res[k], answers))
      BY <2>3, <2>4, <2>6, <2>7, OneIsWhole, DoneIsWhole DEF Image
    <3> QED BY <2>0, <3>1, <3>2, LeaveIsWhole
  <2>8. CASE k = "Network"
    <3> DEFINE f == IF zone = "" THEN Refused("HasNoSubnet", answers) ELSE Done("", <<zone>>, answers)
               s == Network(res[k], answers, zone)
    <3>1. Leave(k, s)
      BY <2>2, <2>8
    <3>2. CASE n = 0
      <4>1. s = Unset(<<>>)
        BY <2>5, <3>2 DEF Network
      <4> QED BY <2>0, <3>1, <4>1, UnsetIsWhole, LeaveIsWhole
    <3>3. CASE n = 1
      <4>1. s = One(res[k], answers, f)
        BY <2>6, <3>3 DEF Network
      <4>2. Form(f) /\ (answers[1] = "found" => Sound(k, f))
        <5>1. CASE zone # ""
          BY <2>6, <2>8, <3>3, <5>1, DoneIsWhole
        <5>2. CASE zone = ""
          <6>1. f.st = "False" /\ f.reason = "HasNoSubnet" /\ Form(f)
            BY <5>2 DEF Refused, Form
          <6> HIDE DEF f
          <6> QED BY <2>8, <6>1 DEF Sound
        <5> QED BY <5>1, <5>2
      <4> HIDE DEF f, s
      <4>3. Form(s) /\ Sound(k, s)
        BY <2>3, <2>6, <2>8, <3>3, <4>1, <4>2, OneIsWhole
      <4> QED BY <2>0, <3>1, <4>3, LeaveIsWhole
    <3> QED BY <2>4, <3>2, <3>3
  <2>9. CASE k = "PlacementGroup"
    <3> DEFINE reason == CASE count >= PlacementGroupMaxServers -> "AtCapacity"
                           [] count >= PlacementGroupWarnServers -> "NearCapacity" [] OTHER -> ""
               f == Done(reason, <<count>>, answers)
               s == PlacementGroup(res[k], answers, count)
    <3>1. Leave(k, s)
      BY <2>2, <2>9
    <3>2. CASE n = 0
      <4>1. s = Unset(<<>>)
        BY <2>5, <3>2 DEF PlacementGroup
      <4> QED BY <2>0, <3>1, <4>1, UnsetIsWhole, LeaveIsWhole
    <3>3. CASE n = 1
      <4>1. s = One(res[k], answers, f)
        BY <2>6, <3>3 DEF PlacementGroup
      <4>2. reason \in {"", "AtCapacity", "NearCapacity"}
        OBVIOUS
      <4>3. reason # "NotFound"
        BY <4>2
      <4> HIDE DEF reason
      <4>4. Form(f) /\ (answers[1] = "found" => Sound(k, f))
        BY <2>6, <2>9, <3>3, <4>3, DoneIsWhole
      <4> HIDE DEF f, s
      <4>5. Form(s) /\ Sound(k, s)
        BY <2>3, <2>6, <2>9, <3>3, <4>1, <4>4, OneIsWhole
      <4> QED BY <2>0, <3>1, <4>5, LeaveIsWhole
    <3> QED BY <2>4, <3>2, <3>3
  <2> QED BY <2>0, <2>7, <2>8, <2>9 DEF KindNames, Listed
<1>2. CASE Enter
  <2>0. pc <= Len(Kinds) /\ k \in Listed /\ k \in Kind
    BY <1>0, <1>2 DEF Enter
  <2>1. CASE Leave(k, Unset(<<>>))
    BY <2>0, <2>1, UnsetIsWhole, LeaveIsWhole
  <2>2. ASSUME NEW n \in 1 .. MaxSelectors, loop' = Start(n), pc' = pc, res' = res PROVE ResolverInv'
    <3>1. n \in Nat
      OBVIOUS
    <3>2. LoopInv(loop')
      BY <2>2, <3>1, LoopStarts
    <3>3. LoopInv(loop)'
      BY <3>2 DEF LoopInv, LoopRec, Any, Says, Kind
    <3> QED BY <2>0, <2>2, <3>3 DEF ResolverInv, Kind
  <2> QED BY <1>2, <2>1, <2>2, Zenon DEF Enter
<1>3. CASE Look
  <2>0. pc <= Len(Kinds) /\ k \in Kind
    BY <1>0, <1>3, Zenon DEF Look
  <2>n. loop.n # 0
    <3>1. loop.n \in Nat /\ loop.of \in Seq(Any)
      BY DEF ResolverInv, LoopInv, LoopRec
    <3> QED BY <1>3, <3>1 DEF Look
  <2>1. ASSUME Leave(k, noteUnreachable(res[k])) PROVE ResolverInv'
    <3>1. Form(res[k]) /\ Sound(k, res[k])
      BY <2>0 DEF ResolverInv
    <3> QED BY <2>0, <2>1, <3>1, UnreachableIsWhole, LeaveIsWhole
  <2>2. ASSUME NEW a \in Answers[k], ~Ends(a), loop' = Visit(loop, a), pc' = pc, res' = res PROVE ResolverInv'
    <3>1. a \in Any /\ a # "NotFoundError"
      BY <1>a, <2>0, <2>2
    <3>2. LoopInv(loop)
      BY DEF ResolverInv
    <3>3. LoopInv(loop')
      BY <2>2, <3>1, <3>2, LoopVisits
    <3>4. k \in Listed
      BY <2>n, Zenon DEF ResolverInv
    <3>5. LoopInv(loop)'
      BY <3>3 DEF LoopInv, LoopRec, Any, Says, Kind
    <3> QED BY <2>0, <2>2, <3>4, <3>5 DEF ResolverInv, Kind
  <2> QED BY <1>3, <2>1, <2>2, Zenon DEF Look
<1>4. CASE Finish
  <2>0. /\ pc <= Len(Kinds) /\ k \in Kind
        /\ Leave(k, IF k = "Firewalls" THEN Firewalls(loop) ELSE SSHKeys(loop))
    BY <1>0, <1>4 DEF Finish
  <2>1. loop.n # 0
    BY <1>4 DEF Finish
  <2>2. k \in {"Firewalls", "SSHKeys"} /\ LoopInv(loop)
    BY <2>1 DEF ResolverInv, Listed
  <2>3. CASE k = "Firewalls"
    <3>1. Leave(k, Firewalls(loop))
      BY <2>0, <2>3
    <3> QED BY <2>0, <2>2, <2>3, <3>1, FirewallsAreWhole, LeaveIsWhole
  <2>4. CASE k = "SSHKeys"
    <3>1. Leave(k, SSHKeys(loop))
      BY <2>0, <2>4
    <3> QED BY <2>0, <2>2, <2>4, <3>1, KeysAreWhole, LeaveIsWhole
  <2> QED BY <2>2, <2>3, <2>4
<1>5. CASE Again
  <2>1. pc' = 1 /\ res' = res /\ loop' = loop /\ ~(pc <= Len(Kinds))
    <3>1. pc > Len(Kinds) /\ pc \in Nat /\ Len(Kinds) \in Nat
      BY <1>5, InstanceIsSane DEF Again, ResolverInv
    <3> QED BY <1>5, <3>1 DEF Again
  <2>2. LoopInv(loop)' /\ loop.n = 0
    BY <2>1 DEF ResolverInv, LoopInv, LoopRec, Any, Says, Kind
  <2> QED BY <2>1, <2>2 DEF ResolverInv, Kind
<1>6. CASE UNCHANGED resolverVars
  <2>1. pc' = pc /\ res' = res /\ loop' = loop
    BY <1>6 DEF resolverVars
  <2> QED BY <2>1 DEF ResolverInv, LoopInv, LoopRec, Any, Says, Kind
<1> QED BY <1>1, <1>2, <1>3, <1>4, <1>5, <1>6 DEF ResolverNext

\* The results, in the words of the two properties.
LEMMA WholeMeans == ASSUME ResolverInv PROVE ReadyMeansWhole /\ RefusedForCause
<1>1. ASSUME Root = "True", NEW k \in Kind \ {"SSHKeys"}
      PROVE  /\ Found(k) = DOMAIN res[k].of /\ Len(res[k].value) = Len(res[k].of)
             /\ k = "Network" => "" \notin Range(res[k].value)
  <2>1. res[k].st = "True"
    BY <1>1 DEF Root
  <2>2. Sound(k, res[k])
    BY DEF ResolverInv
  <2> QED BY <2>1, <2>2 DEF Sound, Found
<1>2. ASSUME "SSHKeys" \in Kind, Judged("SSHKeys")
      PROVE  LET r == res["SSHKeys"]
                 open == Found("SSHKeys") \cup Missed("SSHKeys") = DOMAIN r.of
             IN /\ r.st = IF open THEN "True" ELSE "False"
                /\ Range(r.value) = IF open THEN Found("SSHKeys") ELSE {}
                /\ \A i, j \in DOMAIN r.value : i < j => r.value[i] < r.value[j]
  <2> DEFINE r == res["SSHKeys"]
             open == Found("SSHKeys") \cup Missed("SSHKeys") = DOMAIN r.of
  <2>1. Form(r) /\ Sound("SSHKeys", r)
    BY <1>2 DEF ResolverInv
  <2>2. r.st \in {"True", "False"}
    BY <1>2, <2>1 DEF Form, Judged
  <2>3. /\ r.st = "True" <=> \A i \in DOMAIN r.of : r.of[i] \in {"found", "nil"}
        /\ r.st = "True" => Range(r.value) = {i \in DOMAIN r.of : r.of[i] = "found"}
        /\ r.st = "False" => Range(r.value) = {}
        /\ \A i, j \in DOMAIN r.value : i < j => r.value[i] < r.value[j]
    BY <2>1, <2>2 DEF Sound
  <2>4. open <=> \A i \in DOMAIN r.of : r.of[i] \in {"found", "nil"}
    BY DEF Found, Missed
  <2>5. Found("SSHKeys") = {i \in DOMAIN r.of : r.of[i] = "found"}
    BY DEF Found
  <2> HIDE DEF r, open
  <2>6. /\ r.st = IF open THEN "True" ELSE "False"
        /\ Range(r.value) = IF open THEN Found("SSHKeys") ELSE {}
    BY <2>2, <2>3, <2>4, <2>5
  <2> QED BY <2>3, <2>6 DEF r, open
<1>3. ASSUME NEW k \in Kind
      PROVE  /\ res[k].st = "False" =>
                  \/ \E i \in DOMAIN res[k].of : res[k].of[i] \in {"nil"} \cup Config \cup Fatal
                  \/ k = "Network" /\ res[k].reason = "HasNoSubnet"
             /\ res[k].reason = "NotFound" => Missed(k) # {} /\ Found(k) \cup Missed(k) = DOMAIN res[k].of
  <2>1. Sound(k, res[k])
    BY DEF ResolverInv
  <2> QED BY <2>1 DEF Sound, Found, Missed
<1> QED BY <1>1, <1>2, <1>3, Zenon DEF ReadyMeansWhole, RefusedForCause

LEMMA ResolverInvariance == ResolverSpec => []ResolverInv
<1>1. ResolverInit => ResolverInv
  <2> SUFFICES ASSUME ResolverInit PROVE ResolverInv
    OBVIOUS
  <2>1. /\ Initial.st = "Unknown" /\ Initial.reason = "" /\ Form(Initial)
    BY DEF Initial, Nothing, Form
  <2>2. \A k : Sound(k, Initial)
    BY <2>1 DEF Sound
  <2>3. loop = Start(0) /\ LoopInv(Start(0)) /\ Start(0).n = 0
    BY LoopStarts DEF ResolverInit, NoLoop
  <2>4. pc = 1 /\ res = [k \in Kind |-> Initial]
    BY DEF ResolverInit
  <2> HIDE DEF Initial, ResolverInit
  <2>5. DOMAIN res = Kind /\ \A k \in Kind : res[k] = Initial
    BY <2>4
  <2>6. res = [k \in Kind |-> res[k]]
    BY <2>4
  <2>7. LoopInv(loop) /\ loop.n = 0
    BY <2>3, Zenon
  <2>8. \A k \in Kind : Form(res[k]) /\ Sound(k, res[k])
    BY <2>1, <2>2, <2>5, Zenon
  <2> QED BY <2>4, <2>5, <2>6, <2>7, <2>8 DEF ResolverInv
<1>2. ResolverInv /\ [ResolverNext]_resolverVars => ResolverInv'
  BY ResolverStep
<1> QED BY <1>1, <1>2, PTL DEF ResolverSpec

\* "The resolvers NIL the status fields they cannot resolve": whatever the answers,
\* in whatever order and over however many passes, what a Ready class publishes is
\* whole, and the keys are the found ones unless some answer was a refusal.
THEOREM PublishedIsWhole == ResolverSpec => []ReadyMeansWhole
  BY ResolverInvariance, WholeMeans, PTL

\* A class is refused only over its own configuration, and as missing something only
\* if nothing but misses caused it (configFailure, and the loops' severest reason).
THEOREM RefusalsHaveCause == ResolverSpec => []RefusedForCause
  BY ResolverInvariance, WholeMeans, PTL
=============================================================================
