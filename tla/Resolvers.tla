------------------------------ MODULE Resolvers ------------------------------
(***************************************************************************)
(* The five sub-reconcilers that resolve an HCloudNodeClass's selectors    *)
(* against the Hetzner API (controllers/nodeclass: image, network,         *)
(* firewall, sshkey, placementgroup), on top of the lookups of             *)
(* hcloudapi/resources.go and the error classes of hcloudapi/errors.go.    *)
(* NodeClass.tla models when they run and how their result is stored; this *)
(* module models what each makes of the answers it gets.                   *)
(*                                                                         *)
(* A selector is a number, and so is the resource it names.  An answer is  *)
(* "found", "nil" (hcloud-go's way to report a miss), the code of an API   *)
(* error, or "dial", an error without a code.                              *)
(***************************************************************************)
EXTENDS Naturals, Sequences, Functions

CONSTANTS
  Kinds,        \* the sub-reconcilers of this instance, in their order
  Answers,      \* per sub-reconciler: the answers a lookup may get
  MaxSelectors  \* bound: selectors in a list

KindNames == {"Image", "Network", "Firewalls", "SSHKeys", "PlacementGroup"}

ASSUME InstanceIsSane ==
  /\ MaxSelectors \in Nat \ {0}
  /\ Kinds \in Seq(KindNames)
  /\ \A k \in Range(Kinds) : "found" \in Answers[k] /\ "NotFoundError" \notin Answers[k]

VARIABLES
  pc,    \* the sub-reconciler to run next; beyond the last: the pass is over
  res,   \* per kind: its condition, what it published, and the answers of the
         \* last run that came to a conclusion
  loop   \* the loop over a list of selectors: their number (0: none runs), the
         \* answers so far, what was resolved, the most severe reason, and
         \* whether some failure was other than a miss

resolverVars == <<pc, res, loop>>

Kind == Range(Kinds)

-----------------------------------------------------------------------------
(* Errors. *)

\* classes: the reaction to each code.
Capacity == {"resource_unavailable", "placement_error", "no_space_left_in_location", "maintenance"}
Quota == {"resource_limit_exceeded"}
Transient == {"rate_limit_exceeded", "service_error", "server_error", "bad_gateway", "timeout", "conflict",
              "locked", "resource_locked", "protected", "json_error", "robot_unavailable", "unknown_error"}
Config == {"invalid_input", "not_found", "unsupported_error", "invalid_server_type", "uniqueness_error",
           "networks_overlap", "server_already_attached"}
Fatal == {"forbidden", "unauthorized"}

\* Classify: codes the table does not name, and errors without one, are transient.
Classify(code) ==
  CASE code \in Capacity -> "capacity" [] code \in Quota -> "quota" [] code \in Config -> "config"
    [] code \in Fatal -> "fatal" [] OTHER -> "transient"

\* lookup: a miss becomes a NotFoundError.
lookup(a) == IF a = "nil" THEN "NotFoundError" ELSE a

\* configFailure: the reason a failure is published under, "" when it is worth
\* a retry instead.
configFailure(err) ==
  CASE err = "NotFoundError" -> "NotFound"
    [] Classify(err) = "config" -> "InvalidConfiguration"
    [] Classify(err) = "fatal" -> "CredentialRejected"
    [] OTHER -> ""

-----------------------------------------------------------------------------
(* Results. *)

Nothing == <<>>
Unset(answers) == [st |-> "True", reason |-> "", value |-> Nothing, of |-> answers]
Done(reason, value, answers) == [st |-> "True", reason |-> reason, value |-> value, of |-> answers]
Refused(reason, answers) == [st |-> "False", reason |-> reason, value |-> Nothing, of |-> answers]

\* noteUnreachable: only a condition that never resolved is touched.
noteUnreachable(r) == IF r.st = "Unknown" THEN [r EXCEPT !.reason = "Unreachable"] ELSE r

\* A selector of its own: an image, a network, a placement group.  f is what a
\* resource that was found becomes.
One(r, answers, f) ==
  LET err == lookup(answers[1])
  IN IF err = "found" THEN f
     ELSE IF configFailure(err) # "" THEN Refused(configFailure(err), answers)
     ELSE noteUnreachable(r)

Image(r, answers) == One(r, answers, Done("", <<1>>, answers))

\* The zone of a network is that of its first subnet that has one; a network
\* without a subnet is refused.
Network(r, answers, zone) ==
  IF answers = <<>> THEN Unset(answers)
  ELSE One(r, answers, IF zone = "" THEN Refused("HasNoSubnet", answers) ELSE Done("", <<zone>>, answers))

PlacementGroupMaxServers == 10
PlacementGroupWarnServers == PlacementGroupMaxServers - 2

\* Variant: a full group is reported as a failure.
PlacementGroupFalse(r, answers, count) ==
  IF answers = <<>> THEN Unset(answers)
  ELSE One(r, answers, IF count >= PlacementGroupMaxServers THEN [Done("AtCapacity", <<count>>, answers) EXCEPT !.st = "False"]
                       ELSE Done("", <<count>>, answers))

\* True at the cap as well: the reason alone warns.
PlacementGroup(r, answers, count) ==
  IF answers = <<>> THEN Unset(answers)
  ELSE One(r, answers, Done(CASE count >= PlacementGroupMaxServers -> "AtCapacity"
                              [] count >= PlacementGroupWarnServers -> "NearCapacity"
                              [] OTHER -> "", <<count>>, answers))

\* The loop over n selectors, in their order, one lookup at a time.
Start(n) == [n |-> n, of |-> <<>>, resolved |-> <<>>, reason |-> "", closed |-> FALSE]
NoLoop == Start(0)

Ends(a) == a # "found" /\ configFailure(lookup(a)) = ""

Visit(l, a) ==
  LET r == configFailure(lookup(a))
  IN IF a = "found" THEN [l EXCEPT !.of = Append(@, a), !.resolved = Append(@, Len(l.of) + 1)]
     ELSE [l EXCEPT !.of = Append(@, a), !.closed = @ \/ r # "NotFound",
                    !.reason = IF @ = "" \/ (r # "NotFound" /\ @ = "NotFound") THEN r ELSE @]

\* Variant: the firewalls that were found are published though others are missing.
FirewallsPartial(l) == IF l.closed THEN Refused(l.reason, l.of) ELSE Done("", l.resolved, l.of)

\* Firewalls: all of them or none.
Firewalls(l) == IF l.reason # "" THEN Refused(l.reason, l.of) ELSE Done("", l.resolved, l.of)

\* SSHKeys: a key that is gone is left out, anything else fails closed.
SSHKeys(l) ==
  IF l.closed THEN Refused(l.reason, l.of)
  ELSE Done(IF l.reason # "" THEN "Narrowed" ELSE "", l.resolved, l.of)

-----------------------------------------------------------------------------
Listed == {"Firewalls", "SSHKeys"}

\* How many selectors a class may have of a kind that has no list.
Selectors(k) == IF k = "Image" THEN {1} ELSE {0, 1}

Zones(k) == IF k = "Network" THEN {"", "eu-central"} ELSE {""}
Counts(k) == IF k = "PlacementGroup" THEN PlacementGroupWarnServers - 1 .. PlacementGroupMaxServers ELSE {0}

\* A condition that was never set reads Unknown.
Initial == [st |-> "Unknown", reason |-> "", value |-> Nothing, of |-> <<>>]

ResolverInit == pc = 1 /\ res = [k \in Kind |-> Initial] /\ loop = NoLoop

\* The sub-reconciler of kind k leaves r, and the next one runs.
Leave(k, r) == res' = [res EXCEPT ![k] = r] /\ loop' = NoLoop /\ pc' = pc + 1

\* A sub-reconciler with at most one selector, as the spec has it at the time.
ResolveOne ==
  /\ pc <= Len(Kinds) /\ Kinds[pc] \notin Listed
  /\ LET k == Kinds[pc]
     IN \E n \in Selectors(k), zone \in Zones(k), count \in Counts(k) : \E answers \in [1 .. n -> Answers[k]] :
          Leave(k, CASE k = "Image" -> Image(res[k], answers)
                     [] k = "Network" -> Network(res[k], answers, zone)
                     [] k = "PlacementGroup" -> PlacementGroup(res[k], answers, count))

\* One with a list of them: without a selector there is nothing to look up.
Enter ==
  /\ pc <= Len(Kinds) /\ Kinds[pc] \in Listed /\ loop = NoLoop
  /\ \/ Leave(Kinds[pc], Unset(<<>>))
     \/ \E n \in 1 .. MaxSelectors : loop' = Start(n) /\ UNCHANGED <<pc, res>>

\* The next selector is looked up; a failure worth a retry ends the reconciler.
Look ==
  /\ pc <= Len(Kinds) /\ Len(loop.of) < loop.n
  /\ \E a \in Answers[Kinds[pc]] :
       \/ Ends(a) /\ Leave(Kinds[pc], noteUnreachable(res[Kinds[pc]]))
       \/ ~Ends(a) /\ loop' = Visit(loop, a) /\ UNCHANGED <<pc, res>>

\* All have been looked up.
Finish ==
  /\ pc <= Len(Kinds) /\ loop.n > 0 /\ Len(loop.of) = loop.n
  /\ Leave(Kinds[pc], IF Kinds[pc] = "Firewalls" THEN Firewalls(loop) ELSE SSHKeys(loop))

\* The pass has stored its result; a later one starts from it.
Again == pc > Len(Kinds) /\ pc' = 1 /\ UNCHANGED <<res, loop>>

ResolverNext == ResolveOne \/ Enter \/ Look \/ Finish \/ Again
ResolverSpec == ResolverInit /\ [][ResolverNext]_resolverVars

\* The roll-up.
Root ==
  IF \E k \in Kind : res[k].st = "False" THEN "False"
  ELSE IF \A k \in Kind : res[k].st = "True" THEN "True" ELSE "Unknown"

-----------------------------------------------------------------------------
(* Properties, on the answers of the last run that came to a conclusion. *)

Found(k) == {i \in DOMAIN res[k].of : res[k].of[i] = "found"}
Missed(k) == {i \in DOMAIN res[k].of : res[k].of[i] = "nil"}
Judged(k) == res[k].st # "Unknown"

\* "The resolvers NIL the status fields they cannot resolve": what is published is
\* whole.  A Ready class has an image, every firewall its selectors named, and a
\* network with a zone if one is selected: no server is ordered, nor an existing
\* one found drifted, against a part of it.  SSH keys do not depend on the order of
\* their selectors: those that were found, in spec order, if every other one is a
\* miss, and none if some other answer was a refusal.
ReadyMeansWhole ==
  /\ Root = "True" =>
       \A k \in Kind \ {"SSHKeys"} :
         /\ Found(k) = DOMAIN res[k].of
         /\ Len(res[k].value) = Len(res[k].of)
         /\ k = "Network" => "" \notin Range(res[k].value)
  /\ "SSHKeys" \in Kind /\ Judged("SSHKeys") =>
       LET r == res["SSHKeys"]
           open == Found("SSHKeys") \cup Missed("SSHKeys") = DOMAIN r.of
       IN /\ r.st = IF open THEN "True" ELSE "False"
          /\ Range(r.value) = IF open THEN Found("SSHKeys") ELSE {}
          /\ \A i, j \in DOMAIN r.value : i < j => r.value[i] < r.value[j]

\* A class is only ever refused over an answer that names its own configuration: a
\* miss, a code of the config or the fatal class, or a network without subnet, and
\* never over a full placement group, an outage or a code nobody knows.  "A
\* rejected credential alongside a missing firewall": the reason is a missing
\* resource only if nothing but misses caused the refusal.
RefusedForCause ==
  \A k \in Kind :
    /\ res[k].st = "False" =>
         \/ \E i \in DOMAIN res[k].of : res[k].of[i] \in {"nil"} \cup Config \cup Fatal
         \/ k = "Network" /\ res[k].reason = "HasNoSubnet"
    /\ res[k].reason = "NotFound" => Missed(k) # {} /\ Found(k) \cup Missed(k) = DOMAIN res[k].of
=============================================================================
