------------------------------- MODULE Packing -------------------------------
(***************************************************************************)
(* What karpenter believes a node can hold, and what it can.               *)
(*                                                                         *)
(* One kubelet block of the NodeClass feeds two computations that never    *)
(* meet: the instance type provider subtracts its reservations from an     *)
(* ESTIMATE of the machine to publish an allocatable on the NodeClaim, and *)
(* the bootstrap provider renders it into the flags the kubelet is started *)
(* with, which subtracts them from what the machine REALLY has. Core packs *)
(* pods against the first; the scheduler admits them against the second.   *)
(* Memory is in MiB, disk in units of 100 MB, cpu in thousandths of a core.*)
(***************************************************************************)
EXTENDS Integers, Sequences, FiniteSets

CONSTANTS
    ServerTypes,  \* the catalog: name -> [cores, memoryGiB, diskGB]
    Kubelets,     \* the spec.kubelet blocks an operator may write
    MaxLost,      \* create answers lost
    MaxEdits,     \* edits of spec.kubelet
    MaxWithdrawn  \* server types withdrawn from the catalog

\* spec.kubelet.maxPods left out: nil in the code.
Unset == -1

ASSUME BoundsAreNatural == {MaxLost, MaxEdits, MaxWithdrawn} \subseteq Nat

ASSUME TypesAreSane ==
    ServerTypes \in [DOMAIN ServerTypes -> [cores : Nat, memoryGiB : Nat, diskGB : Nat]]

\* spec.kubelet's quantities are natural, and two eviction signals bear on a node's
\* allocatable.
ASSUME KubeletsAreSane ==
    \A k \in Kubelets :
        /\ \A list \in {k.kubeReserved, k.systemReserved} : \A r \in DOMAIN list : list[r] \in Nat
        /\ DOMAIN k.evictionHard \subseteq {"memory", "ephemeral-storage"}
        /\ \A r \in DOMAIN k.evictionHard :
              k.evictionHard[r] \in [form : {"quantity", "percent", "garbage"}, value : Nat]
        /\ k.maxPods \in (Nat \ {0}) \cup {Unset}
        /\ k.extraArgs \in Seq({k.extraArgs[i] : i \in DOMAIN k.extraArgs})

VARIABLES
    kubelet,  \* spec.kubelet of the NodeClass
    catalog,  \* the names of the server types on offer
    server,   \* the one server of this NodeClaim's name
    claim,    \* what Create published on the NodeClaim
    node,     \* the Node, once its kubelet has registered
    lost, edits

vars == <<kubelet, catalog, server, claim, node, lost, edits>>

Resource == {"cpu", "memory", "ephemeral-storage", "pods"}

\* A threshold of spec.kubelet.evictionHard: an absolute quantity, a
\* percentage, or text that parses as neither.
Quantity(q) == [form |-> "quantity", value |-> q]
Percent(p) == [form |-> "percent", value |-> p]
Garbage == [form |-> "garbage", value |-> 0]

\* Resource lists and eviction maps are partial: a key may be absent.
Empty == [k \in {} |-> 0]
At(list, k) == IF k \in DOMAIN list THEN list[k] ELSE 0

(***************************************************************************)
(* The defaults stand in for a map that is EMPTY; a map with one key       *)
(* replaces all of them.                                                   *)
(***************************************************************************)
DefaultReserved == [k \in {"cpu", "memory"} |-> IF k = "cpu" THEN 200 ELSE 512]
DefaultEvictionHard == [k \in {"memory", "ephemeral-storage"} |->
                           IF k = "memory" THEN Quantity(500) ELSE Percent(10)]
DefaultMaxPods == 110

OrDefault(list, default) == IF DOMAIN list = {} THEN default ELSE list

MaxPodsOrDefault(k) == IF k.maxPods = Unset THEN DefaultMaxPods ELSE k.maxPods

----------------------------------------------------------------------------
(* The estimate: instancetype.Capacity and Overhead. *)

\* The figures Hetzner advertises for a type, before any correction for what
\* the hypervisor and the filesystem keep.
Advertised(t, maxPods) ==
    [r \in Resource |->
        CASE r = "cpu" -> ServerTypes[t].cores * 1000
          [] r = "memory" -> ServerTypes[t].memoryGiB * 1024
          [] r = "ephemeral-storage" -> ServerTypes[t].diskGB * 10
          [] r = "pods" -> maxPods]

\* 7% of memory and 2% of disk are taken off, rounding down.
Capacity(t, maxPods) ==
    [Advertised(t, maxPods) EXCEPT
        !["memory"] = (@ * 93) \div 100,
        !["ephemeral-storage"] = (@ * 98) \div 100]

Ceil(n, d) == (n + d - 1) \div d

\* A percentage is taken of the ESTIMATED capacity, rounding up; a threshold
\* that does not parse, or a percentage out of range, is dropped.
parseThreshold(v, total) ==
    CASE v.form = "percent" /\ v.value <= 100 -> Ceil(total * v.value, 100)
      [] v.form = "quantity" -> v.value
      [] OTHER -> 0

evictionThreshold(evictionHard, capacity) ==
    [r \in DOMAIN evictionHard \cap {"memory", "ephemeral-storage"} |->
        parseThreshold(evictionHard[r], capacity[r])]

Overhead(k, capacity) ==
    <<OrDefault(k.kubeReserved, DefaultReserved),
      OrDefault(k.systemReserved, DefaultReserved),
      evictionThreshold(OrDefault(k.evictionHard, DefaultEvictionHard), capacity)>>

\* Core subtracts the overhead from the capacity of an instance type (external).
Allocatable(capacity, overhead) ==
    [r \in Resource |->
        capacity[r] - At(overhead[1], r) - At(overhead[2], r) - At(overhead[3], r)]

\* newInstanceType, as far as resources go.
InstanceType(t, k) ==
    LET capacity == Capacity(t, MaxPodsOrDefault(k))
    IN  [allocatable |-> Allocatable(capacity, Overhead(k, capacity))]

----------------------------------------------------------------------------
(* The flags: bootstrap.kubeletArgs. *)

Arg(name, value) == [name |-> name, value |-> value]

\* The operator's own arguments come last, whatever they name.
kubeletArgs(k) ==
    <<Arg("kube-reserved", OrDefault(k.kubeReserved, DefaultReserved)),
      Arg("system-reserved", OrDefault(k.systemReserved, DefaultReserved)),
      Arg("eviction-hard", OrDefault(k.evictionHard, DefaultEvictionHard)),
      Arg("max-pods", [p \in {"pods"} |-> MaxPodsOrDefault(k)])>>
    \o k.extraArgs

----------------------------------------------------------------------------
(* The machine, which is outside this repository. *)

\* What a machine of type t reports: memory less its loss, in hundredths of a
\* percent (6.58% on the smallest type measured, 4.66% on the largest), and a
\* disk that delivers what it advertises, less up to 2% for the filesystem.
Machine(t, loss, disk, maxPods) ==
    [Advertised(t, maxPods) EXCEPT
        !["memory"] = (@ * (10000 - loss)) \div 10000,
        !["ephemeral-storage"] = (@ * disk) \div 100]

\* The kubelet folds repeated map flags together key by key, the last winning.
Effective(args, name, key) ==
    LET given == {i \in DOMAIN args : args[i].name = name /\ key \in DOMAIN args[i].value}
    IN  IF given = {} THEN Quantity(0)
        ELSE LET v == args[CHOOSE i \in given : \A j \in given : j <= i].value[key]
             IN  IF name = "eviction-hard" THEN v ELSE Quantity(v)

Starts(args) ==
    \A r \in {"memory", "ephemeral-storage"} :
        LET v == Effective(args, "eviction-hard", r)
        IN  v.form # "garbage" /\ (v.form = "percent" => v.value <= 100)

\* The kubelet's own reading of a threshold: a percentage of the REAL
\* capacity, rounding down; 0% and 100% switch the signal off.
Withheld(v, total) ==
    CASE v.form = "quantity" -> v.value
      [] v.form = "percent" /\ v.value \in {0, 100} -> 0
      [] OTHER -> (total * v.value) \div 100

NodeAllocatable(capacity, args) ==
    [r \in Resource |->
        capacity[r] - Effective(args, "kube-reserved", r).value
                    - Effective(args, "system-reserved", r).value
                    - Withheld(Effective(args, "eviction-hard", r), capacity[r])]

----------------------------------------------------------------------------
NoServer == [exists |-> FALSE]
Unlaunched == [launched |-> FALSE, published |-> FALSE]
NoNode == [registered |-> FALSE]

Init ==
    /\ kubelet \in Kubelets
    /\ catalog = DOMAIN ServerTypes
    /\ server = NoServer
    /\ claim = Unlaunched
    /\ node = NoNode
    /\ lost = 0 /\ edits = 0

\* toNodeClaim publishes the instance type's figures; `from` remembers the
\* kubelet block they were computed from.
toNodeClaim(t, k) ==
    [launched |-> TRUE, published |-> TRUE, from |-> k,
     allocatable |-> InstanceType(t, k).allocatable]

\* A server whose type has left the catalog is published with no capacity.
Bare == [launched |-> TRUE, published |-> FALSE]

\* VARIANT: an adopted server is published as the candidate being tried.
AdoptedAsCandidate(t) == toNodeClaim(t, kubelet)

\* findInstanceType: the type the server HAS, not the candidate being tried.
Adopted(t) ==
    IF server.type \in catalog THEN toNodeClaim(server.type, kubelet) ELSE Bare

\* Create orders candidate t. The answer may be lost after the server was
\* made; the next Create then finds its name taken and adopts it.
Create(t) ==
    /\ ~claim.launched
    /\ \/ /\ ~server.exists
          /\ server' = [exists |-> TRUE, type |-> t, from |-> kubelet,
                        args |-> kubeletArgs(kubelet)]
          /\ \/ claim' = toNodeClaim(t, kubelet) /\ UNCHANGED lost
             \/ lost < MaxLost /\ lost' = lost + 1 /\ UNCHANGED claim
       \/ /\ server.exists
          /\ claim' = Adopted(t)
          /\ UNCHANGED <<server, lost>>
    /\ UNCHANGED <<kubelet, catalog, node, edits>>

Edit(k) ==
    /\ edits < MaxEdits /\ k # kubelet
    /\ kubelet' = k /\ edits' = edits + 1
    /\ UNCHANGED <<catalog, server, claim, node, lost>>

\* The catalog refresh no longer carries t.
Withdraw(t) ==
    /\ Cardinality(DOMAIN ServerTypes \ catalog) < MaxWithdrawn
    /\ t \in catalog /\ catalog # {t}
    /\ catalog' = catalog \ {t}
    /\ UNCHANGED <<kubelet, server, claim, node, lost, edits>>

\* The server boots and its kubelet registers a Node, unless the kubelet
\* rejects its flags: such a server never joins.
Join(loss, disk) ==
    /\ server.exists /\ ~node.registered
    /\ Starts(server.args)
    /\ LET capacity == Machine(server.type, loss, disk,
                               Effective(server.args, "max-pods", "pods").value)
       IN  node' = [registered |-> TRUE, allocatable |-> NodeAllocatable(capacity, server.args)]
    /\ UNCHANGED <<kubelet, catalog, server, claim, lost, edits>>

Next ==
    \/ \E t \in catalog : Create(t) \/ Withdraw(t)
    \/ \E k \in Kubelets : Edit(k)
    \/ \E loss \in {466, 658}, disk \in {98, 100} : Join(loss, disk)

Spec == Init /\ [][Next]_vars

----------------------------------------------------------------------------
Judged == node.registered /\ claim.published

\* An operator argument that touches none of the flags the block also sets.
Clean(k) == \A i \in DOMAIN k.extraArgs :
                k.extraArgs[i].name \notin {"kube-reserved", "system-reserved",
                                            "eviction-hard", "max-pods"}

(***************************************************************************)
(* For every resource, what Create published (Allocatable over the         *)
(* estimated Capacity) is at most what the kubelet lets pods use on the    *)
(* machine it started on, whichever create attempt made the server and     *)
(* however thresholds round: as long as the block published from is the    *)
(* block rendered, and no operator argument repeats a reservation.         *)
(***************************************************************************)
NeverOverPacks ==
    Judged /\ claim.from = server.from /\ Clean(server.from) =>
        \A r \in Resource : claim.allocatable[r] <= node.allocatable[r]
=============================================================================
