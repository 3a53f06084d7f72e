------------------------------ MODULE MCPacking ------------------------------
(* Instances of Packing: two server types of the catalog, and kubelet       *)
(* blocks at the edges of what spec.kubelet admits.                         *)
EXTENDS Packing

Two == [t \in {"cx23", "cx43"} |->
           IF t = "cx23" THEN [cores |-> 2, memoryGiB |-> 4, diskGB |-> 40]
                         ELSE [cores |-> 8, memoryGiB |-> 16, diskGB |-> 160]]

One(k, v) == [x \in {k} |-> v]

Block(kube, system, hard, pods, extra) ==
    [kubeReserved |-> kube, systemReserved |-> system, evictionHard |-> hard,
     maxPods |-> pods, extraArgs |-> extra]

\* Omitted and partial reservations with absolute, fractional, extreme,
\* out-of-range and unparsable thresholds; an extra argument that touches no
\* reservation, and one that repeats a reservation's flag.
Clear ==
    {Block(r[1], r[2], hard, pods, <<>>) :
        r \in {<<Empty, Empty>>, <<One("memory", 1024), One("cpu", 100)>>},
        hard \in {Empty} \union
                 {One(s, v) : s \in {"memory", "ephemeral-storage"},
                              v \in {Quantity(333), Percent(0), Percent(7),
                                     Percent(100), Percent(150), Garbage}},
        pods \in {Unset, 64}}

Extra ==
    {Block(Empty, Empty, Empty, 64, <<arg>>) :
        arg \in {Arg("v", One("level", 4)), Arg("kube-reserved", One("memory", 1024))}}

Blocks == Clear \union Extra
=============================================================================
