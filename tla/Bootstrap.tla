------------------------------ MODULE Bootstrap ------------------------------
(***************************************************************************)
(* How a node learns where to join and with what: Discovery, the cache of  *)
(* kube-public/cluster-info that all passes over all NodeClasses share     *)
(* (providers/bootstrap/clusterinfo.go); the sub-reconciler that resolves  *)
(* a class's join parameters from it (controllers/nodeclass/bootstrap.go); *)
(* and Render and Mint, which put them and a token of limited life into a  *)
(* server's userdata (provider.go, token.go).                              *)
(*                                                                         *)
(* An endpoint and a set of CA pins are the version of cluster-info that   *)
(* published them; 0 is none, Override a value the class's spec gives.     *)
(***************************************************************************)
EXTENDS Naturals

CONSTANTS
  Class, Claim,
  Specs,            \* the overrides a class may have
  TokenTTL,         \* DefaultTokenTTL
  RegistrationTTL,  \* core's registration timeout
  CreateTimeout,    \* DefaultCreateTimeout, of the wait for one server's actions
  CleanupTimeout,   \* of deleteQuietly, after a wait that failed
  RequestTime,      \* external: how long a request without a deadline takes
  Attempts,         \* DefaultMaxCreateAttempts, orders of one Create
  MaxInfo,          \* bound: versions of cluster-info
  MaxTokens,        \* bound: tokens ever minted
  MaxFaults         \* bound: failed calls

\* An override of the pins may be malformed.
ASSUME ParametersAreSane ==
  /\ {TokenTTL, RegistrationTTL, CreateTimeout, CleanupTimeout, RequestTime, MaxTokens, MaxFaults} \subseteq Nat
  /\ Specs \subseteq [endpoint : BOOLEAN, hashes : {"none", "valid", "malformed"}]
  /\ Attempts \in Nat \ {0} /\ MaxInfo \in Nat \ {0}

VARIABLES
  info,     \* kube-public/cluster-info: its version, and whether it is usable
  cache,    \* Discovery's endpoint and hashes
  classes,  \* each class's overrides, and its status
  pass,     \* the sub-reconciler's run over each class
  claims,   \* each NodeClaim: the Create in flight, its server and what that booted with
  tokens,   \* the bootstrap token Secrets that have not expired, and how long they have left
  minted, faults

vars == <<info, cache, classes, pass, claims, tokens, minted, faults>>
discoveryVars == <<info, cache, classes, pass>>
launchVars == <<claims, tokens, minted>>

Override == MaxInfo + 1
Value == 0 .. Override
NoPair == [endpoint |-> 0, hashes |-> 0]
Pair == [endpoint : Value, hashes : Value]

Token == [id : 1 .. MaxTokens, claim : Claim, left : Nat]

\* join, token: what the Create in flight rendered.  server: the token the claim's
\* server booted with, 0 without a server.  spent: the time since the phase began.
InCreate == {"ordering", "cleanup", "rereading"}
NodeClaim ==
  [phase : {"new", "launched", "gone"} \cup InCreate, join : Pair, token : 0 .. MaxTokens,
   server : 0 .. MaxTokens, attempt : 0 .. Attempts, spent : Nat]

TypeOK ==
  /\ info \in [version : 1 .. MaxInfo, usable : BOOLEAN] /\ cache \in Pair
  /\ classes \in [Class -> [spec : Specs, status : Pair, ready : {"True", "False", "Unknown"}]]
  /\ pass \in [Class -> [pc : {"idle", "store", "resolve"}, read : 0 .. MaxInfo]]
  /\ claims \in [Claim -> NodeClaim]
  /\ tokens \subseteq Token /\ minted \in 0 .. MaxTokens
  /\ faults \in 0 .. MaxFaults

-----------------------------------------------------------------------------
NoRun == [pc |-> "idle", read |-> 0]
NewClaim == [phase |-> "new", join |-> NoPair, token |-> 0, server |-> 0, attempt |-> 0, spent |-> 0]

Init ==
  /\ info \in [version : {1}, usable : BOOLEAN] /\ cache = NoPair
  /\ classes \in [Class -> [spec : Specs, status : {NoPair}, ready : {"Unknown"}]]
  /\ pass = [k \in Class |-> NoRun] /\ claims = [c \in Claim |-> NewClaim]
  /\ tokens = {} /\ minted = 0 /\ faults = 0

Fault == faults < MaxFaults /\ faults' = faults + 1

-----------------------------------------------------------------------------
misconfigured(class) == [class EXCEPT !.status = NoPair, !.ready = "False"]

SelfContained(k) == classes[k].spec.endpoint /\ classes[k].spec.hashes # "none"

\* Variant: cluster-info is read only while nothing is cached.
ReadOnce(k) ==
  /\ pass[k].pc = "idle"
  /\ \/ /\ SelfContained(k) \/ cache # NoPair
        /\ pass' = [pass EXCEPT ![k].pc = "resolve"] /\ UNCHANGED <<classes, faults>>
     \/ /\ ~SelfContained(k) /\ cache = NoPair /\ info.usable
        /\ pass' = [pass EXCEPT ![k] = [pc |-> "store", read |-> info.version]] /\ UNCHANGED <<classes, faults>>
     \/ /\ ~SelfContained(k) /\ cache = NoPair /\ ~info.usable
        /\ classes' = [classes EXCEPT ![k] = misconfigured(@)] /\ UNCHANGED <<pass, faults>>
     \/ ~SelfContained(k) /\ cache = NoPair /\ Fault /\ UNCHANGED <<classes, pass>>
  /\ UNCHANGED <<info, cache, launchVars>>

\* Reconcile up to Refresh's read of the ConfigMap, which a class that overrides
\* both values skips.  A ConfigMap that is absent, forbidden or unusable is a
\* misconfiguration; any other failure leaves the class as it is, but for the
\* diagnosis noteUnreachable gives one that never resolved.
Read(k) ==
  /\ pass[k].pc = "idle"
  /\ \/ SelfContained(k) /\ pass' = [pass EXCEPT ![k].pc = "resolve"] /\ UNCHANGED <<classes, faults>>
     \/ /\ ~SelfContained(k) /\ info.usable
        /\ pass' = [pass EXCEPT ![k] = [pc |-> "store", read |-> info.version]] /\ UNCHANGED <<classes, faults>>
     \/ /\ ~SelfContained(k) /\ ~info.usable
        /\ classes' = [classes EXCEPT ![k] = misconfigured(@)] /\ UNCHANGED <<pass, faults>>
     \/ ~SelfContained(k) /\ Fault /\ UNCHANGED <<classes, pass>>
  /\ UNCHANGED <<info, cache, launchVars>>

\* Variant: a read stores the pins but keeps an endpoint that is already known.
StoreHashes(k) ==
  /\ pass[k].pc = "store"
  /\ cache' = [endpoint |-> IF cache.endpoint = 0 THEN pass[k].read ELSE cache.endpoint, hashes |-> pass[k].read]
  /\ pass' = [pass EXCEPT ![k] = [pc |-> "resolve", read |-> 0]]
  /\ UNCHANGED <<info, classes, launchVars, faults>>

\* Refresh stores what it read, both values under one lock.
Store(k) ==
  /\ pass[k].pc = "store"
  /\ cache' = [endpoint |-> pass[k].read, hashes |-> pass[k].read]
  /\ pass' = [pass EXCEPT ![k] = [pc |-> "resolve", read |-> 0]]
  /\ UNCHANGED <<info, classes, launchVars, faults>>

\* Discovery.Resolve: the overrides first, then the pair Get returns.
Resolve(spec) ==
  [endpoint |-> IF spec.endpoint THEN Override ELSE cache.endpoint,
   hashes |-> IF spec.hashes # "none" THEN Override ELSE cache.hashes]

\* The rest of Reconcile, and the status patch, which may fail.
Publish(k) ==
  /\ pass[k].pc = "resolve"
  /\ LET pair == Resolve(classes[k].spec)
         whole == pair.endpoint # 0 /\ pair.hashes # 0
     IN \/ /\ classes' = [classes EXCEPT ![k] = IF whole /\ classes[k].spec.hashes # "malformed"
                                                THEN [@ EXCEPT !.status = pair, !.ready = "True"]
                                                ELSE misconfigured(@)]
           /\ UNCHANGED faults
        \/ Fault /\ UNCHANGED classes
  /\ pass' = [pass EXCEPT ![k] = NoRun]
  /\ UNCHANGED <<info, cache, launchVars>>

\* The control plane (external): a CA rotation or a moved endpoint; cluster-info
\* deleted, forbidden or broken, and repaired.
Rotate ==
  /\ info.version < MaxInfo
  /\ info' = [info EXCEPT !.version = @ + 1]
  /\ UNCHANGED <<cache, classes, pass, launchVars, faults>>

Break ==
  /\ Fault
  /\ info' = [info EXCEPT !.usable = ~@]
  /\ UNCHANGED <<cache, classes, pass, launchVars>>

Renderable(k) == classes[k].status.endpoint # 0 /\ classes[k].status.hashes # 0

\* Variant: the token lives as long as core waits, counted from the Mint.
LifetimeAtRegistration == RegistrationTTL

Lifetime == TokenTTL

\* Render, called once by every Create of core's retries: refused without join
\* parameters, else it mints a token for the NodeClaim.  A failed Mint fails the
\* Create and changes nothing.
Render(c) ==
  /\ claims[c].phase = "new" /\ minted < MaxTokens
  /\ \E k \in {x \in Class : Renderable(x)} :
       claims' = [claims EXCEPT ![c] = [@ EXCEPT !.phase = "ordering", !.join = classes[k].status, !.token = minted + 1,
                                                 !.attempt = 1, !.spent = 0]]
  /\ minted' = minted + 1
  /\ tokens' = tokens \cup {[id |-> minted + 1, claim |-> c, left |-> Lifetime]}
  /\ UNCHANGED <<discoveryVars, faults>>

\* What a Create that ends without a server for core leaves: core calls it again.
Over(server) == [NewClaim EXCEPT !.server = server]

\* The next candidate, if the loop has an attempt left.
NextAttempt(nc) ==
  IF nc.attempt < Attempts THEN [nc EXCEPT !.phase = "ordering", !.attempt = @ + 1, !.spent = 0] ELSE Over(nc.server)

\* One order of Create's loop (the module Fleet has it in full), all of them with the
\* one userdata: the POST, which has no deadline, and the wait for its actions, which
\* has.  It ends in a server; in a name taken by the server of an earlier order; in no
\* capacity at once; in actions that fail or time out, with a server to clean up; in a
\* failure; or in a server whose answer is lost.
Order(c) ==
  /\ claims[c].phase = "ordering"
  /\ LET nc == claims[c]
         fresh == nc.server = 0
         becomes(new) == claims' = [claims EXCEPT ![c] = new]
     IN \/ /\ UNCHANGED faults
           /\ becomes([nc EXCEPT !.phase = "rereading", !.server = IF fresh THEN nc.token ELSE @, !.spent = 0])
        \/ fresh /\ UNCHANGED faults /\ becomes(NextAttempt(nc))
        \/ fresh /\ UNCHANGED faults /\ becomes([nc EXCEPT !.phase = "cleanup", !.server = nc.token, !.spent = 0])
        \/ Fault /\ becomes(Over(nc.server))
        \/ fresh /\ Fault /\ becomes(Over(nc.token))
  /\ UNCHANGED <<discoveryVars, tokens, minted>>

\* deleteQuietly, under its own deadline, removes the server or, when it fails, leaves
\* it; then the loop goes on, or Create ends if what failed was not for capacity.
Cleanup(c) ==
  /\ claims[c].phase = "cleanup"
  /\ \E left \in {0, claims[c].server} :
       /\ IF left = 0 THEN UNCHANGED faults ELSE Fault
       /\ \E new \in {NextAttempt([claims[c] EXCEPT !.server = left]), Over(left)} : claims' = [claims EXCEPT ![c] = new]
  /\ UNCHANGED <<discoveryVars, tokens, minted>>

\* The read that ends a Create, without a deadline: of the server it made, for its
\* private address, or of the one it adopts, which booted with the userdata it was
\* ordered with.  If it fails the server stays for the next Create.
Reread(c) ==
  /\ claims[c].phase = "rereading"
  /\ \/ claims' = [claims EXCEPT ![c].phase = "launched", ![c].spent = 0] /\ UNCHANGED faults
     \/ Fault /\ claims' = [claims EXCEPT ![c] = Over(@.server)]
  /\ UNCHANGED <<discoveryVars, tokens, minted>>

\* Core (external) deletes a NodeClaim, and the Secrets it owns are collected.
Delete(c) ==
  /\ claims[c].phase # "gone"
  /\ claims' = [claims EXCEPT ![c] = [NewClaim EXCEPT !.phase = "gone"]]
  /\ tokens' = {t \in tokens : t.claim # c}
  /\ UNCHANGED <<discoveryVars, minted, faults>>

\* Time passes: the waits end at their deadlines and the requests when they are
\* answered; core gives up on a NodeClaim that does not register in time, which is
\* counted here from the latest instant it could be, Create's return; and an expired
\* token is collected (kube-controller-manager's tokencleaner).
Tick ==
  /\ \A c \in Claim :
       /\ claims[c].phase = "ordering" => claims[c].spent < RequestTime + CreateTimeout
       /\ claims[c].phase = "cleanup" => claims[c].spent < CleanupTimeout
       /\ claims[c].phase = "rereading" => claims[c].spent < RequestTime
       /\ claims[c].phase = "launched" => claims[c].spent < RegistrationTTL
  /\ claims' = [c \in Claim |-> IF claims[c].phase \in InCreate \cup {"launched"}
                                THEN [claims[c] EXCEPT !.spent = @ + 1] ELSE claims[c]]
  /\ tokens' = {[t EXCEPT !.left = @ - 1] : t \in {x \in tokens : x.left > 1}}
  /\ UNCHANGED <<discoveryVars, minted, faults>>

Run(k) == Read(k) \/ Store(k) \/ Publish(k)
Launch(c) == Render(c) \/ Order(c) \/ Cleanup(c) \/ Reread(c) \/ Delete(c)
Next == Rotate \/ Break \/ Tick \/ (\E k \in Class : Run(k)) \/ (\E c \in Claim : Launch(c))

Spec == Init /\ [][Next]_vars

\* Every class is reconciled again and again: each outcome asks for a requeue.
FairSpec == Spec /\ \A k \in Class : WF_vars(Run(k))

-----------------------------------------------------------------------------
FromOneRead(pair) == pair.endpoint # Override /\ pair.hashes # Override => pair.endpoint = pair.hashes
Whole(pair) == pair.endpoint # 0 /\ pair.hashes # 0

\* "they are consumed as a pair, and half a pair is a server that boots and never
\* joins": no status and no userdata ever holds half a pair, or an endpoint and
\* pins that cluster-info did not publish together, whichever way the passes over
\* several classes share the one cache (Refresh, Get, misconfigured, Render).
JoinParametersArePaired ==
  /\ \A k \in Class : LET st == classes[k].status IN FromOneRead(st) /\ (Whole(st) \/ st = NoPair)
  /\ \A c \in Claim : claims[c].phase \in InCreate \cup {"launched"} => Whole(claims[c].join) /\ FromOneRead(claims[c].join)

\* How long after its Mint a Create of so many attempts may return: every attempt but
\* the last cost an order, its wait and a cleanup.
Elapsed(attempts) ==
  (attempts - 1) * (RequestTime + CreateTimeout + CleanupTimeout) + RequestTime + CreateTimeout + RequestTime

\* The token a server boots with was minted before the first order of its Create.  It
\* still outlives the time core gives the node to register ("a token expiring before
\* core gives up produces a silent replacement loop"), if Create returned on an attempt
\* the TTL has room for.  With the code's values (30 minutes; 90 and 30 seconds, 8
\* attempts; core's 15 minutes) and requests that take no time that is the first seven:
\* the eighth may return 15 minutes and a half after the Mint.  A server adopted from
\* an earlier Create is not covered either.
TokenOutlivesRegistration ==
  \A c \in Claim :
    /\ claims[c].phase = "launched" /\ claims[c].server = claims[c].token
    /\ TokenTTL > Elapsed(claims[c].attempt) + RegistrationTTL
    => \E t \in tokens : t.id = claims[c].token /\ t.claim = c /\ t.left + claims[c].spent > RegistrationTTL

\* Once cluster-info stops changing and is usable, and calls stop failing, every class
\* that relies on it ends up with what it says, and keeps it, though passes that read an
\* older version may still store theirs over a newer one.
Converges ==
  \A k \in Class :
    <>[](info.version = MaxInfo /\ info.usable /\ faults = MaxFaults /\ classes[k].spec.hashes = "none")
      => <>[](classes[k].ready = "True" /\ classes[k].status.hashes = info.version)
=============================================================================
