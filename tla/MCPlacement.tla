----------------------------- MODULE MCPlacement -----------------------------
EXTENDS Placement

At(loc, zone, deprecated) == [loc |-> loc, zone |-> zone, deprecated |-> deprecated]
Type(name, arch, size, locs, price) ==
  [name |-> name, deprecated |-> FALSE, arch |-> arch, size |-> size, locs |-> locs, price |-> price]

\* Locations 1 and 2 are in the network's zone, 3 is not.
Small == Type(1, "x86", 1, <<At(2, "eu", FALSE), At(1, "eu", FALSE), At(3, "us", FALSE)>>,
              [l \in {1, 2, 3} |-> IF l = 3 THEN 4 ELSE 5])
Large == Type(2, "x86", 2, <<At(1, "eu", FALSE), At(3, "us", FALSE)>>, [l \in {1} |-> 5])

Full == <<Small, Large>>
\* The zone of location 1 is not reported; one type is too small, and phased out
\* there; an ARM type is of no use.
Thin == <<[Large EXCEPT !.locs = <<At(1, "", FALSE)>>],
          Type(3, "x86", 0, <<At(2, "eu", FALSE), At(1, "eu", TRUE)>>, [l \in {1, 2} |-> 1]),
          Type(4, "arm", 1, <<At(2, "eu", FALSE)>>, [l \in {2} |-> 1])>>
Empty == <<[Small EXCEPT !.deprecated = TRUE]>>

MCCatalogs == {Full, Thin, Empty}

SpecOf(locations, ipv4, policy) ==
  [locations |-> locations, ipv4 |-> ipv4, ipv6 |-> ~ipv4 \/ locations = <<>>, imageDriftPolicy |-> policy]
MCSpecs == {SpecOf(<<>>, TRUE, "Replace"), SpecOf(<<2, 1, 2>>, FALSE, "Ignore"), SpecOf(<<3>>, TRUE, "Replace")}

RefsOf(net, zone, fws, pg, image, arch) ==
  [net |-> net, zone |-> zone, fws |-> fws, pg |-> pg, image |-> image, arch |-> arch]
\* A network in the zone, none, one that is not resolved, and an image of no use.
MCRefs == {RefsOf(<<1>>, "eu", <<2, 1, 2>>, 1, 1, "x86"), RefsOf(<<>>, "", <<1>>, 0, 2, ""),
           RefsOf(<<0>>, "", <<1>>, 0, 1, ""), RefsOf(<<1>>, "eu", <<>>, 0, 2, "arm")}

MCWants == {[types |-> 1 .. 4, locs |-> {1, 2, 3}, size |-> 1]}
=============================================================================
