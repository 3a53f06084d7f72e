---------------------------- MODULE PackingProofs ----------------------------
(***************************************************************************)
(* What is published never exceeds what the kubelet lets pods use, for any *)
(* catalog, any kubelet block and any sequence of creates, edits and       *)
(* withdrawals.  And a class parked on the catalog of server types is      *)
(* woken, for any number of classes, refreshes and failures.  The two have *)
(* no state in common and are proved one after the other.                  *)
(***************************************************************************)
EXTENDS Packing, CatalogWake, TLAPS

\* A machine the model lets a server boot on.
Losses == {466, 658}
Disks == {98, 100}

\* The server was rendered from a block an operator wrote; what was published is
\* the estimate for the server's own type; the node is that server's.
ServerInv ==
    server.exists => /\ server.type \in DOMAIN ServerTypes /\ server.from \in Kubelets
                     /\ server.args = kubeletArgs(server.from)

ClaimInv ==
    /\ claim.launched => server.exists
    /\ claim.published => /\ claim.launched /\ claim.from \in Kubelets
                          /\ claim.allocatable = InstanceType(server.type, claim.from).allocatable

NodeInv ==
    node.registered =>
        /\ server.exists /\ Starts(server.args)
        /\ \E loss \in Losses, disk \in Disks :
              node.allocatable = NodeAllocatable(Machine(server.type, loss, disk,
                                                         Effective(server.args, "max-pods", "pods").value),
                                                 server.args)

Inv == /\ kubelet \in Kubelets /\ catalog \subseteq DOMAIN ServerTypes
       /\ ServerInv /\ ClaimInv /\ NodeInv

----------------------------------------------------------------------------
\* The operator's arguments follow the four the block sets.
LEMMA ArgsLayout ==
    ASSUME NEW k \in Kubelets
    PROVE  LET args == kubeletArgs(k)
           IN  /\ DOMAIN args = 1 .. 4 + Len(k.extraArgs) /\ Len(k.extraArgs) \in Nat
               /\ args[1] = Arg("kube-reserved", OrDefault(k.kubeReserved, DefaultReserved))
               /\ args[2] = Arg("system-reserved", OrDefault(k.systemReserved, DefaultReserved))
               /\ args[3] = Arg("eviction-hard", OrDefault(k.evictionHard, DefaultEvictionHard))
               /\ args[4] = Arg("max-pods", [p \in {"pods"} |-> MaxPodsOrDefault(k)])
               /\ \A i \in 5 .. 4 + Len(k.extraArgs) : args[i] = k.extraArgs[i - 4] /\ i - 4 \in DOMAIN k.extraArgs
<1> DEFINE a == Arg("kube-reserved", OrDefault(k.kubeReserved, DefaultReserved))
           b == Arg("system-reserved", OrDefault(k.systemReserved, DefaultReserved))
           c == Arg("eviction-hard", OrDefault(k.evictionHard, DefaultEvictionHard))
           d == Arg("max-pods", [p \in {"pods"} |-> MaxPodsOrDefault(k)])
           x == k.extraArgs
           T == {x[i] : i \in DOMAIN x}
<1>1. x \in Seq(T)
  BY KubeletsAreSane
<1>2. kubeletArgs(k) = <<a, b, c, d>> \o x
  BY DEF kubeletArgs
<1> HIDE DEF a, b, c, d, x, T
<1> DEFINE U == T \cup {a, b, c, d}
<1>3. x \in Seq(U) /\ <<a, b, c, d>> \in Seq(U)
  BY <1>1
<1> HIDE DEF U
<1>4. /\ DOMAIN (<<a, b, c, d>> \o x) = 1 .. 4 + Len(x) /\ Len(x) \in Nat
      /\ (<<a, b, c, d>> \o x)[1] = a /\ (<<a, b, c, d>> \o x)[2] = b
      /\ (<<a, b, c, d>> \o x)[3] = c /\ (<<a, b, c, d>> \o x)[4] = d
      /\ \A i \in 5 .. 4 + Len(x) : (<<a, b, c, d>> \o x)[i] = x[i - 4] /\ i - 4 \in DOMAIN x
  BY <1>3
<1> QED BY <1>2, <1>4 DEF a, b, c, d, x

\* Without arguments that repeat a flag, the kubelet reads each of the block's maps
\* as the block has it.
LEMMA EffectiveIsGiven ==
    ASSUME NEW k \in Kubelets, Clean(k), NEW key,
           NEW n \in {"kube-reserved", "system-reserved", "eviction-hard", "max-pods"}
    PROVE  LET list == CASE n = "kube-reserved" -> OrDefault(k.kubeReserved, DefaultReserved)
                         [] n = "system-reserved" -> OrDefault(k.systemReserved, DefaultReserved)
                         [] n = "eviction-hard" -> OrDefault(k.evictionHard, DefaultEvictionHard)
                         [] n = "max-pods" -> [p \in {"pods"} |-> MaxPodsOrDefault(k)]
           IN  Effective(kubeletArgs(k), n, key) =
                  IF key \notin DOMAIN list THEN Quantity(0)
                  ELSE IF n = "eviction-hard" THEN list[key] ELSE Quantity(list[key])
<1> DEFINE args == kubeletArgs(k)
           list == CASE n = "kube-reserved" -> OrDefault(k.kubeReserved, DefaultReserved)
                     [] n = "system-reserved" -> OrDefault(k.systemReserved, DefaultReserved)
                     [] n = "eviction-hard" -> OrDefault(k.evictionHard, DefaultEvictionHard)
                     [] n = "max-pods" -> [p \in {"pods"} |-> MaxPodsOrDefault(k)]
           given == {i \in DOMAIN args : args[i].name = n /\ key \in DOMAIN args[i].value}
           place == CASE n = "kube-reserved" -> 1 [] n = "system-reserved" -> 2
                      [] n = "eviction-hard" -> 3 [] n = "max-pods" -> 4
<1>0. /\ args[1].name = "kube-reserved" /\ args[1].value = OrDefault(k.kubeReserved, DefaultReserved)
      /\ args[2].name = "system-reserved" /\ args[2].value = OrDefault(k.systemReserved, DefaultReserved)
      /\ args[3].name = "eviction-hard" /\ args[3].value = OrDefault(k.evictionHard, DefaultEvictionHard)
      /\ args[4].name = "max-pods" /\ args[4].value = [p \in {"pods"} |-> MaxPodsOrDefault(k)]
  <2>1. \A m, v : Arg(m, v).name = m /\ Arg(m, v).value = v
    BY DEF Arg
  <2>2. /\ args[1] = Arg("kube-reserved", OrDefault(k.kubeReserved, DefaultReserved))
        /\ args[2] = Arg("system-reserved", OrDefault(k.systemReserved, DefaultReserved))
        /\ args[3] = Arg("eviction-hard", OrDefault(k.evictionHard, DefaultEvictionHard))
        /\ args[4] = Arg("max-pods", [p \in {"pods"} |-> MaxPodsOrDefault(k)])
    BY ArgsLayout
  <2> HIDE DEF args
  <2>3. args[1].name = "kube-reserved" /\ args[1].value = OrDefault(k.kubeReserved, DefaultReserved)
    BY <2>1, <2>2
  <2>4. args[2].name = "system-reserved" /\ args[2].value = OrDefault(k.systemReserved, DefaultReserved)
    BY <2>1, <2>2
  <2>5. args[3].name = "eviction-hard" /\ args[3].value = OrDefault(k.evictionHard, DefaultEvictionHard)
    BY <2>1, <2>2
  <2>6. args[4].name = "max-pods" /\ args[4].value = [p \in {"pods"} |-> MaxPodsOrDefault(k)]
    BY <2>1, <2>2
  <2> QED BY <2>3, <2>4, <2>5, <2>6
<1>a. 1 \in DOMAIN args /\ 2 \in DOMAIN args /\ 3 \in DOMAIN args /\ 4 \in DOMAIN args
  BY ArgsLayout
<1>b. \A i \in DOMAIN args : i \in {1, 2, 3, 4} \/ args[i].name # n
  <2> SUFFICES ASSUME NEW i \in DOMAIN args, i \notin {1, 2, 3, 4} PROVE args[i].name # n
    OBVIOUS
  <2>1. i \in 5 .. 4 + Len(k.extraArgs)
    BY ArgsLayout
  <2> QED BY <2>1, ArgsLayout DEF Clean
<1> HIDE DEF args
<1>1. place \in DOMAIN args /\ args[place].name = n /\ args[place].value = list /\ place \in Nat
  <2>1. CASE n = "kube-reserved"
    BY <2>1, <1>0, <1>a
  <2>2. CASE n = "system-reserved"
    BY <2>2, <1>0, <1>a
  <2>3. CASE n = "eviction-hard"
    BY <2>3, <1>0, <1>a
  <2>4. CASE n = "max-pods"
    BY <2>4, <1>0, <1>a
  <2> QED BY <2>1, <2>2, <2>3, <2>4
<1>2. \A i \in DOMAIN args : args[i].name = n => i = place
  BY <1>0, <1>b
<1> HIDE DEF list, place
<1>3. given = IF key \in DOMAIN list THEN {place} ELSE {}
  BY <1>1, <1>2
<1>4. key \in DOMAIN list => (CHOOSE i \in given : \A j \in given : j <= i) = place
  BY <1>1, <1>3
<1>5. Effective(args, n, key) = IF given = {} THEN Quantity(0)
        ELSE LET v == args[CHOOSE i \in given : \A j \in given : j <= i].value[key]
             IN  IF n = "eviction-hard" THEN v ELSE Quantity(v)
  BY DEF Effective
<1> HIDE DEF given
<1>6. Effective(args, n, key) = IF key \notin DOMAIN list THEN Quantity(0)
        ELSE IF n = "eviction-hard" THEN list[key] ELSE Quantity(list[key])
  BY <1>1, <1>3, <1>4, <1>5
<1> QED BY <1>6 DEF args, list

\* A percentage, rounded up on the smaller estimate and down on the larger machine,
\* leaves the estimate the smaller.
LEMMA PercentRounds ==
    ASSUME NEW est \in Nat, NEW real \in Nat, est <= real, NEW p \in 0 .. 100
    PROVE  est - Ceil(est * p, 100) <= real - ((real * p) \div 100)
<1> DEFINE d == real - est
           x == est * p
           y == real * p
           z == d * p
<1>1. d \in Nat /\ real = est + d
  OBVIOUS
<1>2. x \in Nat /\ z \in Nat /\ y = x + z /\ z <= 100 * d
  <2>1. x \in Nat /\ z \in Nat
    BY <1>1
  <2>2. y = x + z
    BY <1>1
  <2>3. (100 - p) * d \in Nat /\ (100 - p) * d = 100 * d - z
    BY <1>1
  <2> QED BY <2>1, <2>2, <2>3, <1>1
<1> HIDE DEF x, y, z, d
<1>3. est - ((x + 99) \div 100) <= real - (y \div 100)
  BY <1>1, <1>2
<1> QED BY <1>3, <1>2 DEF x, y, Ceil

\* 7% of memory and 2% of disk are at least what any machine loses.
LEMMA EstimateIsLow ==
    ASSUME NEW t \in DOMAIN ServerTypes, NEW loss \in Losses, NEW disk \in Disks, NEW pods \in Nat, NEW r \in Resource
    PROVE  LET est == Capacity(t, pods)[r]
               real == Machine(t, loss, disk, pods)[r]
           IN  est \in Nat /\ real \in Nat /\ est <= real
<1> DEFINE adv == Advertised(t, pods)
<1>1. ServerTypes[t].cores \in Nat /\ ServerTypes[t].memoryGiB \in Nat /\ ServerTypes[t].diskGB \in Nat
  BY TypesAreSane
<1>2. adv \in [Resource -> Nat]
  <2> DEFINE e(q) == CASE q = "cpu" -> ServerTypes[t].cores * 1000
                       [] q = "memory" -> ServerTypes[t].memoryGiB * 1024
                       [] q = "ephemeral-storage" -> ServerTypes[t].diskGB * 10
                       [] q = "pods" -> pods
  <2>1. e("cpu") \in Nat /\ e("memory") \in Nat /\ e("ephemeral-storage") \in Nat /\ e("pods") \in Nat
    BY <1>1
  <2>2. adv = [q \in Resource |-> e(q)]
    BY DEF Advertised
  <2> HIDE DEF e, adv
  <2> QED BY <2>1, <2>2 DEF Resource
<1> HIDE DEF adv
<1>3. \A m \in Nat : /\ (m * 93) \div 100 \in Nat /\ (m * (10000 - loss)) \div 10000 \in Nat
                     /\ (m * 93) \div 100 <= (m * (10000 - loss)) \div 10000
                     /\ (m * 98) \div 100 \in Nat /\ (m * disk) \div 100 \in Nat
                     /\ (m * 98) \div 100 <= (m * disk) \div 100
  BY DEF Losses, Disks
<1>4. Capacity(t, pods) = [adv EXCEPT !["memory"] = (adv["memory"] * 93) \div 100,
                                      !["ephemeral-storage"] = (adv["ephemeral-storage"] * 98) \div 100]
  BY <1>2 DEF Capacity, adv, Resource
<1>5. Machine(t, loss, disk, pods) = [adv EXCEPT !["memory"] = (adv["memory"] * (10000 - loss)) \div 10000,
                                                 !["ephemeral-storage"] = (adv["ephemeral-storage"] * disk) \div 100]
  BY <1>2 DEF Machine, adv, Resource
<1> DEFINE est == Capacity(t, pods)
           real == Machine(t, loss, disk, pods)
<1>6. /\ est["memory"] = (adv["memory"] * 93) \div 100
      /\ real["memory"] = (adv["memory"] * (10000 - loss)) \div 10000
  BY <1>2, <1>4, <1>5 DEF Resource
<1>7. /\ est["ephemeral-storage"] = (adv["ephemeral-storage"] * 98) \div 100
      /\ real["ephemeral-storage"] = (adv["ephemeral-storage"] * disk) \div 100
  BY <1>2, <1>4, <1>5 DEF Resource
<1>8. est["cpu"] = adv["cpu"] /\ real["cpu"] = adv["cpu"] /\ est["pods"] = adv["pods"] /\ real["pods"] = adv["pods"]
  BY <1>2, <1>4, <1>5 DEF Resource
<1>9. adv["cpu"] \in Nat /\ adv["memory"] \in Nat /\ adv["ephemeral-storage"] \in Nat /\ adv["pods"] \in Nat
  BY <1>2 DEF Resource
<1> HIDE DEF est, real
<1>10. CASE r = "memory"
  <2> DEFINE m == adv["memory"]
             low == (m * 93) \div 100
             high == (m * (10000 - loss)) \div 10000
  <2>1. m \in Nat
    BY <1>9
  <2> HIDE DEF m
  <2>2. low \in Nat /\ high \in Nat /\ low <= high
    BY <2>1, <1>3
  <2>3. est[r] = low /\ real[r] = high
    BY <1>6, <1>10 DEF m
  <2> HIDE DEF low, high
  <2> QED BY <2>2, <2>3 DEF est, real
<1>11. CASE r = "ephemeral-storage"
  <2> DEFINE m == adv["ephemeral-storage"]
             low == (m * 98) \div 100
             high == (m * disk) \div 100
  <2>1. m \in Nat
    BY <1>9
  <2> HIDE DEF m
  <2>2. low \in Nat /\ high \in Nat /\ low <= high
    BY <2>1, <1>3
  <2>3. est[r] = low /\ real[r] = high
    BY <1>7, <1>11 DEF m
  <2> HIDE DEF low, high
  <2> QED BY <2>2, <2>3 DEF est, real
<1>12. CASE r \in {"cpu", "pods"}
  <2>1. est[r] \in Nat /\ real[r] \in Nat /\ est[r] <= real[r]
    BY <1>8, <1>9, <1>12
  <2> QED BY <2>1 DEF est, real
<1> QED BY <1>10, <1>11, <1>12 DEF Resource

\* What a reservation takes off the estimate is what the kubelet takes off the machine.
LEMMA ReservedAlike ==
    ASSUME NEW k \in Kubelets, Clean(k), NEW r \in Resource
    PROVE  LET kube == At(OrDefault(k.kubeReserved, DefaultReserved), r)
               system == At(OrDefault(k.systemReserved, DefaultReserved), r)
           IN  /\ kube \in Nat /\ kube = Effective(kubeletArgs(k), "kube-reserved", r).value
               /\ system \in Nat /\ system = Effective(kubeletArgs(k), "system-reserved", r).value
<1> DEFINE a == OrDefault(k.kubeReserved, DefaultReserved)
           b == OrDefault(k.systemReserved, DefaultReserved)
<1>1. /\ \A x \in DOMAIN a : a[x] \in Nat
      /\ \A x \in DOMAIN b : b[x] \in Nat
  <2>1. \A x \in DOMAIN DefaultReserved : DefaultReserved[x] \in Nat
    BY DEF DefaultReserved
  <2>2. /\ \A x \in DOMAIN k.kubeReserved : k.kubeReserved[x] \in Nat
        /\ \A x \in DOMAIN k.systemReserved : k.systemReserved[x] \in Nat
    BY KubeletsAreSane
  <2> QED BY <2>1, <2>2 DEF OrDefault
<1>2. /\ Effective(kubeletArgs(k), "kube-reserved", r) = IF r \notin DOMAIN a THEN Quantity(0) ELSE Quantity(a[r])
      /\ Effective(kubeletArgs(k), "system-reserved", r) = IF r \notin DOMAIN b THEN Quantity(0) ELSE Quantity(b[r])
  BY EffectiveIsGiven
<1>3. \A q : Quantity(q).value = q
  BY DEF Quantity
<1> HIDE DEF a, b
<1>4. At(a, r) \in Nat /\ At(a, r) = Effective(kubeletArgs(k), "kube-reserved", r).value
  BY <1>1, <1>2, <1>3 DEF At
<1>5. At(b, r) \in Nat /\ At(b, r) = Effective(kubeletArgs(k), "system-reserved", r).value
  BY <1>1, <1>2, <1>3 DEF At
<1> QED BY <1>4, <1>5 DEF a, b

\* An eviction threshold leaves the estimate the smaller, if the kubelet starts with it.
LEMMA ThresholdsRound ==
    ASSUME NEW k \in Kubelets, Clean(k), NEW r \in Resource, Starts(kubeletArgs(k)),
           NEW capacity, capacity[r] \in Nat, NEW real \in Nat, capacity[r] <= real
    PROVE  LET took == At(evictionThreshold(OrDefault(k.evictionHard, DefaultEvictionHard), capacity), r)
               keeps == Withheld(Effective(kubeletArgs(k), "eviction-hard", r), real)
           IN  took \in Int /\ keeps \in Int /\ capacity[r] - took <= real - keeps
<1> DEFINE hard == OrDefault(k.evictionHard, DefaultEvictionHard)
           eff == Effective(kubeletArgs(k), "eviction-hard", r)
           took == At(evictionThreshold(hard, capacity), r)
<1>1. /\ DOMAIN hard \subseteq {"memory", "ephemeral-storage"}
      /\ \A x \in DOMAIN hard : hard[x].form \in {"quantity", "percent", "garbage"} /\ hard[x].value \in Nat
  <2>1. /\ DOMAIN DefaultEvictionHard \subseteq {"memory", "ephemeral-storage"}
        /\ \A x \in DOMAIN DefaultEvictionHard : /\ DefaultEvictionHard[x].form \in {"quantity", "percent", "garbage"}
                                                /\ DefaultEvictionHard[x].value \in Nat
    BY DEF DefaultEvictionHard, Quantity, Percent
  <2>2. /\ DOMAIN k.evictionHard \subseteq {"memory", "ephemeral-storage"}
        /\ \A x \in DOMAIN k.evictionHard : /\ k.evictionHard[x].form \in {"quantity", "percent", "garbage"}
                                            /\ k.evictionHard[x].value \in Nat
    BY KubeletsAreSane
  <2> QED BY <2>1, <2>2 DEF OrDefault
<1>2. eff = IF r \notin DOMAIN hard THEN Quantity(0) ELSE hard[r]
  BY EffectiveIsGiven
<1>3. r \in DOMAIN hard => eff.form # "garbage" /\ (eff.form = "percent" => eff.value <= 100)
  BY <1>1 DEF Starts
<1>4. took = IF r \in DOMAIN hard THEN parseThreshold(hard[r], capacity[r]) ELSE 0
  BY <1>1 DEF At, evictionThreshold
<1> HIDE DEF hard, eff, took
<1> DEFINE Goal == took \in Int /\ Withheld(eff, real) \in Int /\ capacity[r] - took <= real - Withheld(eff, real)
<1>5. ASSUME r \notin DOMAIN hard PROVE Goal
  <2>1. took = 0 /\ Withheld(eff, real) = 0
    BY <1>2, <1>4, <1>5 DEF Withheld, Quantity
  <2> QED BY <2>1
<1>6. ASSUME r \in DOMAIN hard, hard[r].form = "quantity" PROVE Goal
  <2>1. took = hard[r].value /\ Withheld(eff, real) = hard[r].value /\ hard[r].value \in Nat
    BY <1>1, <1>2, <1>4, <1>6 DEF Withheld, parseThreshold
  <2>2. ASSUME NEW v \in Nat PROVE capacity[r] - v <= real - v
    OBVIOUS
  <2> QED BY <2>1, <2>2
<1>7. ASSUME r \in DOMAIN hard, hard[r].form = "percent" PROVE Goal
  <2> DEFINE p == hard[r].value
             up == Ceil(capacity[r] * p, 100)
             down == (real * p) \div 100
  <2>1. p \in 0 .. 100 /\ eff = hard[r]
    BY <1>1, <1>2, <1>3, <1>7
  <2>2. took = up
    BY <1>4, <1>7, <2>1 DEF parseThreshold
  <2>3. capacity[r] - up <= real - down /\ capacity[r] - up <= real /\ up \in Int /\ down \in Int
    <3>1. capacity[r] * p \in Nat /\ real * p \in Nat
      BY <2>1
    <3>2. up \in Nat /\ down \in Nat
      BY <3>1 DEF Ceil
    <3>3. capacity[r] - up <= real - down
      BY <2>1, PercentRounds
    <3> HIDE DEF up, down
    <3> QED BY <3>2, <3>3
  <2>4. Withheld(eff, real) = IF p \in {0, 100} THEN 0 ELSE down
    BY <1>7, <2>1 DEF Withheld
  <2> HIDE DEF up, down, p
  <2> QED BY <2>2, <2>3, <2>4
<1>8. Goal
  BY <1>1, <1>2, <1>3, <1>5, <1>6, <1>7
<1> QED BY <1>8 DEF hard, eff, took

\* The estimate for a block is at most what the kubelet started with that block
\* offers, on any machine of the type.
LEMMA EstimateFits ==
    ASSUME NEW k \in Kubelets, Clean(k), NEW t \in DOMAIN ServerTypes, NEW loss \in Losses, NEW disk \in Disks,
           Starts(kubeletArgs(k)), NEW r \in Resource
    PROVE  InstanceType(t, k).allocatable[r] <=
             NodeAllocatable(Machine(t, loss, disk, Effective(kubeletArgs(k), "max-pods", "pods").value),
                             kubeletArgs(k))[r]
<1> DEFINE pods == MaxPodsOrDefault(k)
           est == Capacity(t, pods)
           real == Machine(t, loss, disk, pods)
           kube == At(OrDefault(k.kubeReserved, DefaultReserved), r)
           system == At(OrDefault(k.systemReserved, DefaultReserved), r)
           took == At(evictionThreshold(OrDefault(k.evictionHard, DefaultEvictionHard), est), r)
           keeps == Withheld(Effective(kubeletArgs(k), "eviction-hard", r), real[r])
<1>1. pods \in Nat
  BY KubeletsAreSane DEF MaxPodsOrDefault, DefaultMaxPods, Unset
<1>2. Effective(kubeletArgs(k), "max-pods", "pods").value = pods
  <2>1. Effective(kubeletArgs(k), "max-pods", "pods") = Quantity([p \in {"pods"} |-> MaxPodsOrDefault(k)]["pods"])
    BY EffectiveIsGiven
  <2> QED BY <2>1 DEF Quantity
<1> HIDE DEF pods
<1>3. est[r] \in Nat /\ real[r] \in Nat /\ est[r] <= real[r]
  BY <1>1, EstimateIsLow
<1> HIDE DEF est, real
<1>4. /\ kube \in Nat /\ kube = Effective(kubeletArgs(k), "kube-reserved", r).value
      /\ system \in Nat /\ system = Effective(kubeletArgs(k), "system-reserved", r).value
  BY ReservedAlike
<1>5. took \in Int /\ keeps \in Int /\ est[r] - took <= real[r] - keeps
  BY <1>3, ThresholdsRound
<1>6. InstanceType(t, k).allocatable[r] = est[r] - kube - system - took
  <2>1. InstanceType(t, k).allocatable = Allocatable(est, Overhead(k, est))
    BY DEF InstanceType, est, pods
  <2> QED BY <2>1 DEF Allocatable, Overhead
<1>7. NodeAllocatable(real, kubeletArgs(k))[r] = real[r] - kube - system - keeps
  BY <1>4 DEF NodeAllocatable
<1> HIDE DEF kube, system, took, keeps
<1>8. est[r] - kube - system - took <= real[r] - kube - system - keeps
  BY <1>3, <1>4, <1>5
<1> QED BY <1>2, <1>6, <1>7, <1>8 DEF real

----------------------------------------------------------------------------
\* Nothing exists at first.
LEMMA InitEstablishes == Init => Inv
  BY DEF Init, Inv, ServerInv, ClaimInv, NodeInv, NoServer, Unlaunched, NoNode

\* A new server carries the flags of the block its claim is published from, and an
\* adopted one is published as the type it has.
LEMMA CreatePreserves == ASSUME Inv, NEW t \in catalog, Create(t) PROVE Inv'
<1>0. t \in DOMAIN ServerTypes /\ kubelet \in Kubelets /\ ServerInv /\ ClaimInv /\ NodeInv
  BY DEF Inv
<1>1. CASE ~server.exists
  <2>1. ~node.registered /\ ~claim.launched /\ ~claim.published
    BY <1>0, <1>1 DEF Create, ClaimInv, NodeInv
  <2>2. server' = [exists |-> TRUE, type |-> t, from |-> kubelet,
                   args |-> kubeletArgs(kubelet)]
    BY <1>1 DEF Create
  <2>3. ServerInv'
    BY <1>0, <2>2 DEF ServerInv
  <2>4. ClaimInv'
    <3>1. CASE claim' = toNodeClaim(t, kubelet)
      BY <1>0, <2>2, <3>1 DEF ClaimInv, toNodeClaim
    <3>2. CASE claim' = claim
      BY <2>1, <3>2 DEF ClaimInv
    <3> QED BY <1>1, <3>1, <3>2 DEF Create
  <2>5. NodeInv'
    BY <2>1 DEF NodeInv, Create
  <2> QED BY <2>3, <2>4, <2>5 DEF Inv, Create
<1>2. CASE server.exists
  <2>1. server' = server /\ claim' = Adopted(t) /\ node' = node
    BY <1>2 DEF Create
  <2>2. ServerInv' /\ NodeInv'
    BY <1>0, <2>1 DEF ServerInv, NodeInv
  <2>3. ClaimInv'
    BY <1>0, <1>2, <2>1 DEF ClaimInv, Adopted, toNodeClaim, Bare
  <2> QED BY <2>2, <2>3 DEF Inv, Create
<1> QED BY <1>1, <1>2

\* A node registers with the flags of its server.
LEMMA JoinPreserves == ASSUME Inv, NEW loss \in Losses, NEW disk \in Disks, Join(loss, disk) PROVE Inv'
<1> DEFINE capacity == Machine(server.type, loss, disk, Effective(server.args, "max-pods", "pods").value)
<1>1. node' = [registered |-> TRUE, allocatable |-> NodeAllocatable(capacity, server.args)]
  BY DEF Join
<1>2. server.exists /\ Starts(server.args) /\ UNCHANGED <<kubelet, catalog, server, claim>>
  BY DEF Join
<1>3. node'.allocatable = NodeAllocatable(capacity, server.args)
  BY <1>1
<1>4. NodeInv'
  BY <1>2, <1>3 DEF NodeInv
<1> QED BY <1>2, <1>4 DEF Inv, ServerInv, ClaimInv

\* Inv is inductive.
LEMMA Inductive == Inv /\ [Next]_vars => Inv'
<1> SUFFICES ASSUME Inv, [Next]_vars PROVE Inv'
  OBVIOUS
<1>1. ASSUME NEW t \in catalog, Withdraw(t) PROVE Inv'
  BY <1>1 DEF Withdraw, Inv, ServerInv, ClaimInv, NodeInv
<1>2. ASSUME NEW k \in Kubelets, Edit(k) PROVE Inv'
  BY <1>2 DEF Edit, Inv, ServerInv, ClaimInv, NodeInv
<1>3. CASE UNCHANGED vars
  BY <1>3 DEF vars, Inv, ServerInv, ClaimInv, NodeInv
<1>4. ASSUME NEW loss \in {466, 658}, NEW disk \in {98, 100}, Join(loss, disk) PROVE Inv'
  BY <1>4, JoinPreserves DEF Losses, Disks
<1> QED BY <1>1, <1>2, <1>3, <1>4, CreatePreserves DEF Next

----------------------------------------------------------------------------
\* Allocatable as published on the NodeClaim never exceeds what the kubelet offers,
\* for every server type, every kubelet block whose extra arguments repeat no
\* reservation, and whichever create attempt made the server (Capacity, Overhead,
\* kubeletArgs, toNodeClaim).
THEOREM EstimateNeverExceedsNode == Spec => []NeverOverPacks
<1>1. Inv => NeverOverPacks
  <2> SUFFICES ASSUME Inv, node.registered, claim.published, claim.from = server.from, Clean(server.from),
                      NEW r \in Resource
               PROVE  claim.allocatable[r] <= node.allocatable[r]
    BY DEF NeverOverPacks, Judged
  <2>1. /\ server.exists /\ server.type \in DOMAIN ServerTypes /\ server.from \in Kubelets
        /\ server.args = kubeletArgs(server.from) /\ Starts(server.args)
        /\ claim.allocatable = InstanceType(server.type, server.from).allocatable
    BY DEF Inv, ServerInv, ClaimInv, NodeInv
  <2>2. PICK loss \in Losses, disk \in Disks :
          node.allocatable = NodeAllocatable(Machine(server.type, loss, disk,
                                                     Effective(server.args, "max-pods", "pods").value), server.args)
    BY DEF Inv, NodeInv
  <2> QED BY <2>1, <2>2, EstimateFits
<1> QED BY <1>1, InitEstablishes, Inductive, PTL DEF Spec

-----------------------------------------------------------------------------
(* CatalogWake: a class parked on the catalog is woken.                      *)

\* A pass works on what the informer shows, or its key is queued again: an event
\* that changes the informer's copy under a pass queues the class.
PassInv == \A c \in Class : pass[c].pc # "idle" => seen[c] = pass[c].base \/ c \in queue

IInv == TypeOK /\ PassInv /\ ParkedIsWoken

\* What ParkedIsWoken promises of one class.
Awake(c) ==
  \/ OnItsWay
  \/ c \in queue \cup retry
  \/ seen[c] # stored[c]
  \/ pass[c].pc = "resolve"
  \/ pass[c].pc = "patch" /\ pass[c].verdict # pass[c].base

\* A process starts without a catalog, and so with nobody to be woken by it.
LEMMA WakeStarts == WakeInit => IInv
<1> SUFFICES ASSUME WakeInit PROVE IInv
  OBVIOUS
<1>1. snapshot \in [gen : 0 .. MaxRefresh, holds : Holds] /\ snapshot.gen = 0 /\ snapshot.holds = "nothing"
  BY RefreshesAreNatural DEF WakeInit, NoSnapshot, Holds
<1>2. Idle \in [pc : {"idle", "resolve", "patch"}, base : Condition, verdict : Condition] /\ Idle.pc = "idle"
  BY DEF Idle, Condition
<1>3. TypeOK
  <2>1. stored \in [Class -> Condition] /\ seen \in [Class -> Condition]
    BY DEF WakeInit, Condition
  <2>2. pass \in [Class -> [pc : {"idle", "resolve", "patch"}, base : Condition, verdict : Condition]]
    BY <1>2 DEF WakeInit
  <2>3. faults \in 0 .. MaxFaults
    BY RefreshesAreNatural DEF WakeInit
  <2> QED BY <1>1, <2>1, <2>2, <2>3 DEF WakeInit, TypeOK
<1> QED BY <1>1, <1>2, <1>3 DEF WakeInit, IInv, PassInv, ParkedIsWoken

\* Neither is there one after a restart.
LEMMA StartOverPreserves == ASSUME IInv, StartOver, faults' \in 0 .. MaxFaults PROVE IInv'
<1>1. snapshot' \in [gen : 0 .. MaxRefresh, holds : Holds] /\ snapshot'.gen = 0 /\ snapshot'.holds = "nothing"
  BY RefreshesAreNatural DEF StartOver, NoSnapshot, Holds
<1>2. Idle \in [pc : {"idle", "resolve", "patch"}, base : Condition, verdict : Condition] /\ Idle.pc = "idle"
  BY DEF Idle, Condition
<1>3. TypeOK'
  BY <1>1, <1>2 DEF StartOver, IInv, TypeOK
<1> QED BY <1>1, <1>2, <1>3 DEF StartOver, IInv, PassInv, ParkedIsWoken

\* A fault is within its bound.
LEMMA FaultBound == ASSUME TypeOK, Fault PROVE faults' \in 0 .. MaxFaults
  BY RefreshesAreNatural DEF TypeOK, Fault

\* A snapshot that lands leaves the loop about to send its signal.
LEMMA RefreshPreserves == ASSUME IInv, Refresh PROVE IInv'
<1>1. CASE snapshot.gen < MaxRefresh /\ loop' = "signal" /\ UNCHANGED <<wakeVars, classVars, faults>>
           /\ stale' = FALSE /\ \E h \in Holds \ {"nothing"} : snapshot' = [gen |-> snapshot.gen + 1, holds |-> h]
  <2>1. TypeOK'
    <3>1. PICK h \in Holds \ {"nothing"} : snapshot' = [gen |-> snapshot.gen + 1, holds |-> h]
      BY <1>1
    <3>2. snapshot.gen \in 0 .. MaxRefresh
      BY DEF IInv, TypeOK
    <3>3. snapshot.gen + 1 \in 0 .. MaxRefresh /\ snapshot.gen + 1 # 0
      BY <3>2, <1>1, RefreshesAreNatural
    <3>4. snapshot' \in [gen : 0 .. MaxRefresh, holds : Holds] /\ snapshot'.gen # 0 /\ snapshot'.holds # "nothing"
      BY <3>1, <3>3
    <3> QED BY <1>1, <3>4 DEF IInv, TypeOK, wakeVars, classVars
  <2> QED BY <1>1, <2>1 DEF IInv, PassInv, ParkedIsWoken, OnItsWay, wakeVars, classVars
<1>2. CASE Fault /\ stale' = TRUE /\ loop' = "wait" /\ UNCHANGED <<snapshot, wakeVars, classVars>>
  <2>1. TypeOK'
    BY <1>2, FaultBound DEF IInv, TypeOK, wakeVars, classVars
  <2>2. loop # "signal"
    BY DEF Refresh
  <2> QED BY <1>2, <2>1, <2>2 DEF IInv, PassInv, ParkedIsWoken, OnItsWay, Parked, wakeVars, classVars
<1>3. CASE Fault /\ StartOver
  BY <1>3, FaultBound, StartOverPreserves DEF IInv
<1> QED BY <1>1, <1>2, <1>3 DEF Refresh

\* The signal, the pump and the watch hand the wake-up on and do not lose it.
LEMMA HandOverPreserves == ASSUME IInv, Send \/ PumpTake \/ PumpGive \/ ManagerStarts PROVE IInv'
<1>1. TypeOK'
  BY DEF Send, PumpTake, PumpGive, ManagerStarts, IInv, TypeOK, catalogVars, classVars
<1>2. PassInv'
  BY DEF Send, PumpTake, PumpGive, ManagerStarts, IInv, PassInv, catalogVars, classVars
<1>3. ParkedIsWoken'
  BY DEF Send, PumpTake, PumpGive, ManagerStarts, IInv, ParkedIsWoken, OnItsWay, Parked, catalogVars, classVars
<1> QED BY <1>1, <1>2, <1>3 DEF IInv

\* The listing queues every class the informer shows as waiting; of the others the
\* informer has yet to hear that they wait.
LEMMA EnqueuePreserves == ASSUME IInv, enqueueCatalogWaiters PROVE IInv'
<1>1. TypeOK'
  BY FaultBound DEF enqueueCatalogWaiters, IInv, TypeOK, catalogVars
<1>2. PassInv'
  BY DEF enqueueCatalogWaiters, IInv, PassInv, catalogVars
<1>3. ParkedIsWoken'
  BY DEF enqueueCatalogWaiters, IInv, ParkedIsWoken, OnItsWay, Parked, waitingOnCatalog, catalogVars
<1> QED BY <1>1, <1>2, <1>3 DEF IInv

\* A pass that begins has yet to read the catalog.
LEMMA BeginPreserves == ASSUME IInv, NEW c \in Class, Begin(c) PROVE IInv'
<1>1. TypeOK'
  BY DEF Begin, IInv, TypeOK, Idle, Condition, catalogVars, wakeVars
<1>2. PassInv'
  BY DEF Begin, IInv, TypeOK, PassInv, Idle, catalogVars, wakeVars
<1>3. ParkedIsWoken'
  BY DEF Begin, IInv, TypeOK, ParkedIsWoken, OnItsWay, Parked, Idle, catalogVars, wakeVars
<1> QED BY <1>1, <1>2, <1>3 DEF IInv

\* With locations in the catalog the verdict is not one that parks: either it
\* differs from what the pass started on, or the informer is behind.
LEMMA ValidatePreserves == ASSUME IInv, NEW c \in Class, Validate(c) PROVE IInv'
<1>1. PICK v \in Condition : /\ pass' = [pass EXCEPT ![c].pc = "patch", ![c].verdict = v]
                             /\ snapshot.holds = "locations" => v \in {"valid", "blocked"}
  BY DEF Validate, CatalogVerdict, Condition, IInv, TypeOK, Holds
<1>2. TypeOK'
  <2>1. faults' \in 0 .. MaxFaults
    BY FaultBound DEF Validate, IInv, TypeOK
  <2>2. pass' \in [Class -> [pc : {"idle", "resolve", "patch"}, base : Condition, verdict : Condition]]
    BY <1>1 DEF IInv, TypeOK
  <2> QED BY <2>1, <2>2 DEF Validate, IInv, TypeOK, catalogVars, wakeVars
<1>3. /\ pass'[c].base = pass[c].base /\ pass'[c].pc = "patch" /\ pass'[c].verdict = v /\ pass[c].pc = "resolve"
      /\ \A d \in Class \ {c} : pass'[d] = pass[d]
  BY <1>1 DEF Validate, IInv, TypeOK
<1>4. PassInv'
  BY <1>3 DEF Validate, IInv, PassInv, catalogVars, wakeVars
<1>5. ParkedIsWoken'
  <2> SUFFICES ASSUME snapshot.holds = "locations", ~missed, NEW d \in Class, Parked(d)' \/ stored'[d] = "absent"
               PROVE  Awake(d)'
    BY DEF Validate, ParkedIsWoken, Awake, catalogVars, wakeVars
  <2>1. UNCHANGED <<loop, signal, pump, event, queue, retry, seen, stored>>
    BY DEF Validate, catalogVars, wakeVars
  <2>2. CASE d # c
    BY <2>1, <2>2, <1>3 DEF IInv, ParkedIsWoken, Awake, OnItsWay, Parked
  <2>3. CASE d = c
    <3>1. CASE v # pass[c].base
      BY <2>3, <3>1, <1>3 DEF Awake
    <3>2. CASE v = pass[c].base
      <4>1. stored[c] # v
        BY <2>1, <2>3, <1>1 DEF Parked
      <4>2. seen[c] = v \/ c \in queue
        BY <3>2, <1>3 DEF IInv, PassInv
      <4> QED BY <2>1, <2>3, <4>1, <4>2 DEF Awake
    <3> QED BY <3>1, <3>2
  <2> QED BY <2>2, <2>3
<1> QED BY <1>2, <1>4, <1>5 DEF IInv

\* A verdict that is stored is news to the informer; one that is not is retried.
LEMMA PatchPreserves == ASSUME IInv, NEW c \in Class, Patch(c) PROVE IInv'
<1>1. TypeOK'
  <2>1. faults' \in 0 .. MaxFaults
    BY FaultBound DEF Patch, IInv, TypeOK
  <2>2. pass' \in [Class -> [pc : {"idle", "resolve", "patch"}, base : Condition, verdict : Condition]]
    BY DEF Patch, IInv, TypeOK, Idle, Condition
  <2>3. stored' \in [Class -> Condition] /\ backstop' \subseteq Class /\ retry' \subseteq Class
    BY DEF Patch, IInv, TypeOK, Requeued
  <2> QED BY <2>1, <2>2, <2>3 DEF Patch, IInv, TypeOK, catalogVars, wakeVars
<1>2. pass'[c].pc = "idle" /\ pass[c].pc = "patch" /\ \A d \in Class \ {c} : pass'[d] = pass[d] /\ stored'[d] = stored[d]
  BY DEF Patch, IInv, TypeOK, Idle
<1>3. PassInv'
  BY <1>2 DEF Patch, IInv, PassInv, catalogVars, wakeVars
<1>4. ParkedIsWoken'
  <2> SUFFICES ASSUME snapshot.holds = "locations", ~missed, NEW d \in Class, Parked(d)' \/ stored'[d] = "absent"
               PROVE  Awake(d)'
    BY DEF Patch, ParkedIsWoken, Awake, catalogVars, wakeVars
  <2>1. CASE d # c
    BY <2>1, <1>2 DEF Patch, IInv, ParkedIsWoken, Awake, OnItsWay, Parked, catalogVars, wakeVars
  <2>2. CASE d = c /\ pass[c].verdict = pass[c].base
    BY <2>2, <1>2 DEF Patch, IInv, ParkedIsWoken, Awake, OnItsWay, Parked, catalogVars, wakeVars
  <2>3. CASE d = c /\ pass[c].verdict # pass[c].base
    <3>1. seen[c] = pass[c].base \/ c \in queue
      BY <1>2 DEF IInv, PassInv
    <3>2. c \in retry' \/ stored'[c] = pass[c].verdict
      BY <2>3 DEF Patch, IInv, TypeOK
    <3> QED BY <2>3, <3>1, <3>2 DEF Patch, Awake, catalogVars, wakeVars
  <2> QED BY <2>1, <2>2, <2>3
<1> QED BY <1>1, <1>3, <1>4 DEF IInv

\* What the informer learns, and what a delay ends with, queues the class.
LEMMA QueueingPreserves == ASSUME IInv, NEW c \in Class, InformerSyncs(c) \/ Requeue(c) PROVE IInv'
<1>1. TypeOK'
  BY DEF InformerSyncs, Requeue, IInv, TypeOK, catalogVars, wakeVars
<1>2. PassInv'
  BY DEF InformerSyncs, Requeue, IInv, TypeOK, PassInv, catalogVars, wakeVars
<1>3. ParkedIsWoken'
  BY DEF InformerSyncs, Requeue, IInv, TypeOK, ParkedIsWoken, OnItsWay, Parked, catalogVars, wakeVars
<1> QED BY <1>1, <1>2, <1>3 DEF IInv

\* Every step keeps the wake-up on its way.
LEMMA WakeStep == IInv /\ [WakeNext]_refreshVars => IInv'
<1> SUFFICES ASSUME IInv, [WakeNext]_refreshVars PROVE IInv'
  OBVIOUS
<1>1. CASE UNCHANGED refreshVars
  BY <1>1 DEF refreshVars, IInv, TypeOK, PassInv, ParkedIsWoken, OnItsWay, Parked
<1>2. CASE Restart
  BY <1>2, FaultBound, StartOverPreserves DEF Restart, IInv
<1> QED
  BY <1>1, <1>2, RefreshPreserves, HandOverPreserves, EnqueuePreserves, BeginPreserves, ValidatePreserves,
     PatchPreserves, QueueingPreserves DEF WakeNext, Wake, Reconcile

\* The catalog, its signal, the classes and the passes keep their types.
THEOREM TypeCorrect == WakeSpec => []TypeOK
<1>1. IInv => TypeOK
  BY DEF IInv
<1> QED
  BY <1>1, WakeStarts, WakeStep, PTL DEF WakeSpec

\* Once the catalog has locations no parked class is left to the backstop, unless
\* a listing of the waiters failed.
THEOREM NobodySleepsOn == WakeSpec => []ParkedIsWoken
<1>1. IInv => ParkedIsWoken
  BY DEF IInv
<1> QED
  BY <1>1, WakeStarts, WakeStep, PTL DEF WakeSpec
=============================================================================
