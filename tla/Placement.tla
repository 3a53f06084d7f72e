------------------------------ MODULE Placement ------------------------------
(***************************************************************************)
(* Where a node may be placed, where it is ordered, and whether it is      *)
(* still where it should be: the validation of an HCloudNodeClass          *)
(* (validation.go), the instance types built from the catalog              *)
(* (instancetype/types.go), the candidates of a create and its request     *)
(* (instance.go, request.go) and the comparison of a server with its class *)
(* (drift.go).  One class, one catalog, and the servers ordered from them. *)
(*                                                                         *)
(* Names of server types and locations are numbers, so that they have the  *)
(* order the code sorts them by.  A price is in whole units.               *)
(***************************************************************************)
EXTENDS Naturals, FiniteSets, Sequences, Functions

CONSTANTS
  Catalogs,     \* the snapshots the catalog may hold: sequences of server types
  Specs,        \* the specs the class may have
  Refs,         \* what its other selectors may resolve to
  Wants,        \* what a NodeClaim may ask for
  IPv4Price,    \* primaryIPv4Monthly
  MaxAttempts,  \* maxAttempts of a create
  MaxServers    \* bound: servers of one state of the class

ASSUME LimitsAreSane == IPv4Price \in Nat /\ MaxAttempts \in Nat \ {0} /\ MaxServers \in Nat

\* ServerTypeLocation.
Location == [loc : Nat, zone : STRING, deprecated : BOOLEAN]

\* Hetzner lists a server type once, and a location once per type.
WellFormed(types) ==
  /\ types \in Seq(Range(types))
  /\ \A i \in DOMAIN types :
       /\ DOMAIN types[i] = {"name", "arch", "deprecated", "size", "locs", "price"}
       /\ types[i].name \in Nat /\ types[i].size \in Nat
       /\ types[i].locs \in Seq(Location)
       /\ \A l \in DOMAIN types[i].price : types[i].price[l] \in Nat
       /\ \A k \in DOMAIN types : types[i].name = types[k].name => i = k
       /\ \A j, k \in DOMAIN types[i].locs : types[i].locs[j].loc = types[i].locs[k].loc => j = k

ASSUME CatalogsAreSane == \A types \in Catalogs : WellFormed(types)
ASSUME SpecsAreSane ==
  \A sp \in Specs : sp.locations \in Seq(Nat) /\ sp.ipv4 \in BOOLEAN /\ sp.ipv6 \in BOOLEAN

VARIABLES
  catalog,      \* [fetched, types, ipv4]: the surcharge is 0 where it could not be read
  spec,         \* spec.locations, spec.publicNet and spec.imageDriftPolicy
  status,       \* what the last pass of the controller has published
  unavailable,  \* the (type, location) pairs a capacity failure has suppressed
  servers,      \* what was ordered, and where, from the class as it now stands and
                \* is validated
  last          \* the create that has just run: what was wanted, and the (type,
                \* location) pairs it ordered, in order

placementVars == <<catalog, spec, status, unavailable, servers, last>>

SupportedArchitecture == "x86"

-----------------------------------------------------------------------------
\* X in the order R: the n-th element is the one that n - 1 others precede.
InOrder(X, R) ==
  [n \in 1 .. Cardinality(X) |-> CHOOSE x \in X : Cardinality({y \in X : <<y, x>> \in R}) = n - 1]

Ascending(S) == InOrder(S, {p \in S \X S : p[1] < p[2]})

\* The order of two nested loops.
Precedes(p, q) == p[1] < q[1] \/ (p[1] = q[1] /\ p[2] < q[2])

\* What a loop over s keeps: the entries at the positions in I.
Kept(s, I) == LET at == Ascending(I) IN [n \in DOMAIN at |-> s[at[n]]]

Supported(st) == ~st.deprecated /\ st.arch = SupportedArchitecture

-----------------------------------------------------------------------------
(* validation.go *)

\* The locations some supported server type is sold in, with their zone: the
\* last entry of the catalog that names one decides.
Entries(types) ==
  UNION {{i} \X {j \in DOMAIN types[i].locs : ~types[i].locs[j].deprecated} : i \in {i \in DOMAIN types : Supported(types[i])}}

LocationAt(types, e) == types[e[1]].locs[e[2]]

Offered(types) == {LocationAt(types, e).loc : e \in Entries(types)}

ZoneOf(types, loc) ==
  LET at == {e \in Entries(types) : LocationAt(types, e).loc = loc}
      latest == CHOOSE e \in at : \A d \in at : d = e \/ Precedes(d, e)
  IN LocationAt(types, latest).zone

\* The names that are in S, each where it is first listed.
Once(names, S) == Kept(names, {i \in DOMAIN names : names[i] \in S /\ \A j \in 1 .. i - 1 : names[j] # names[i]})

\* Variant: a location whose zone is not known counts as outside.
OutsideStrict(zone, networkZone) == networkZone # "" /\ zone # networkZone

\* A location is excluded only when its zone is known and differs.
Outside(zone, networkZone) == zone # "" /\ networkZone # "" /\ zone # networkZone

\* locationScope: spec.locations, or else all that is offered, split into what
\* is usable, what the network cannot reach and what nobody sells.
locationScope(types, locations, networkZone) ==
  LET names == IF locations = <<>> THEN Ascending(Offered(types)) ELSE locations
      outside == {n \in Offered(types) : Outside(ZoneOf(types, n), networkZone)}
  IN [inScope |-> Once(names, Offered(types) \ outside),
      outsideZone |-> Once(names, outside),
      unknown |-> Once(names, Range(names) \ Offered(types)),
      catalogEmpty |-> Offered(types) = {},
      explicit |-> locations # <<>>]

emptyFailure(s) ==
  CASE s.outsideZone # <<>> /\ s.unknown # <<>> -> "NoUsableLocations"
    [] s.outsideZone # <<>> /\ s.unknown = <<>> -> "LocationsOutsideNetworkZone"
    [] s.outsideZone = <<>> /\ s.unknown # <<>> -> "UnknownLocations"
    [] OTHER -> "NoLocationsAvailable"

Narrowed(s) == s.explicit /\ (s.outsideZone # <<>> \/ s.unknown # <<>>)

\* Validation.Reconcile of a class whose selectors have all resolved.
Validated(cat, sp, refs) ==
  LET s == locationScope(cat.types, sp.locations, refs.zone)
      verdict(st, reason, locs) == [refs |-> refs, st |-> st, reason |-> reason, locations |-> locs]
  IN CASE refs.arch \notin {"", SupportedArchitecture} -> verdict("False", "ImageArchitectureUnsupported", <<>>)
       [] refs.arch \in {"", SupportedArchitecture} /\ ~cat.fetched -> verdict("Unknown", "CatalogNotFetched", <<>>)
       [] refs.arch \in {"", SupportedArchitecture} /\ cat.fetched /\ s.catalogEmpty -> verdict("Unknown", "CatalogEmpty", <<>>)
       [] OTHER -> IF s.inScope = <<>> THEN verdict("False", emptyFailure(s), <<>>)
                   ELSE verdict("True", IF Narrowed(s) THEN "LocationsNarrowed" ELSE "", s.inScope)

-----------------------------------------------------------------------------
(* instancetype/types.go *)

locationFilter(locations, loc) == locations = <<>> \/ loc \in Range(locations)

\* Variant: a location without a price is offered for nothing.
OfferingsFree(st, sp, gone) ==
  LET sold == Kept(st.locs, {j \in DOMAIN st.locs : locationFilter(sp.locations, st.locs[j].loc) /\ ~st.locs[j].deprecated})
  IN [i \in DOMAIN sold |->
        [loc |-> sold[i].loc, zone |-> sold[i].zone,
         price |-> (IF sold[i].loc \in DOMAIN st.price THEN st.price[sold[i].loc] ELSE 0) + (IF sp.ipv4 THEN catalog.ipv4 ELSE 0),
         available |-> <<st.name, sold[i].loc>> \notin gone]]

\* newInstanceType: one offering per location the class allows, that the type is
\* not being phased out in, and that it has a price for.
Offerings(st, sp, gone) ==
  LET sold == Kept(st.locs, {j \in DOMAIN st.locs : /\ locationFilter(sp.locations, st.locs[j].loc) /\ ~st.locs[j].deprecated
                                                  /\ st.locs[j].loc \in DOMAIN st.price})
  IN [i \in DOMAIN sold |->
        [loc |-> sold[i].loc, zone |-> sold[i].zone,
         price |-> st.price[sold[i].loc] + (IF sp.ipv4 THEN catalog.ipv4 ELSE 0),
         available |-> <<st.name, sold[i].loc>> \notin gone]]

\* Build: the supported types that are left with an offering, by name.
Build(types, sp, gone) ==
  LET sellable == {i \in DOMAIN types : Supported(types[i]) /\ Offerings(types[i], sp, gone) # <<>>}
      order == InOrder(sellable, {p \in sellable \X sellable : types[p[1]].name < types[p[2]].name})
  IN [n \in DOMAIN order |->
        LET st == types[order[n]] IN [name |-> st.name, size |-> st.size, offerings |-> Offerings(st, sp, gone)]]

-----------------------------------------------------------------------------
(* instance.go and request.go *)

\* Variant: the price alone orders the candidates.
CheaperOnly(a, b) == a.price < b.price

\* The order of candidates: by price, then by type, then by location.
Cheaper(a, b) ==
  \/ a.price < b.price
  \/ a.price = b.price /\ a.name < b.name
  \/ a.price = b.price /\ a.name = b.name /\ a.loc < b.loc

\* orderedCandidates: the available offerings that satisfy the NodeClaim, of the
\* types that are large enough for it.  The sort is stable: those it does not tell
\* apart stay as they were listed.
orderedCandidates(want, its) ==
  LET fitting == {i \in DOMAIN its : its[i].name \in want.types /\ its[i].size >= want.size}
      open == UNION {{i} \X {j \in DOMAIN its[i].offerings : its[i].offerings[j].available /\ its[i].offerings[j].loc \in want.locs}
                     : i \in fitting}
      cand(p) == LET o == its[p[1]].offerings[p[2]] IN [name |-> its[p[1]].name, loc |-> o.loc, price |-> o.price]
      before == {r \in open \X open : \/ Cheaper(cand(r[1]), cand(r[2]))
                                      \/ ~Cheaper(cand(r[2]), cand(r[1])) /\ Precedes(r[1], r[2])}
      order == InOrder(open, before)
  IN [n \in DOMAIN order |-> cand(order[n])]

Candidates(want) == orderedCandidates(want, Build(catalog.types, spec, unavailable))

\* baseRequest: the ids come from the status, the public net from the spec.  A
\* network is <<>> where the class has none and <<0>> where it is not resolved.
baseRequest(sp, st) ==
  [nets |-> Range(st.refs.net) \ {0}, fws |-> Range(st.refs.fws), pg |-> st.refs.pg,
   ipv4 |-> sp.ipv4, ipv6 |-> sp.ipv6, image |-> st.refs.image]

-----------------------------------------------------------------------------
(* hcloudapi/servers.go and drift.go *)

\* What Hetzner may answer about a server (external): it has what was ordered, a
\* public address has an id, and the location or the image may be left out, the
\* image for instance once Hetzner has withdrawn it.
PrimaryIP(enabled) == IF enabled THEN 1 ELSE 0
Responses(srv) ==
  {[loc |-> l, image |-> i, nets |-> srv.req.nets, fws |-> srv.req.fws, pg |-> srv.req.pg,
    ipv4 |-> PrimaryIP(srv.req.ipv4), ipv6 |-> PrimaryIP(srv.req.ipv6)] : l \in {srv.loc, 0}, i \in {srv.req.image, 0}}

\* serverFromHcloud: a part the response leaves out is 0, a public address is there
\* if it has an id.
serverFromHcloud(h) ==
  [loc |-> h.loc, image |-> h.image, nets |-> h.nets, fws |-> h.fws, pg |-> h.pg,
   ipv4 |-> h.ipv4 # 0, ipv6 |-> h.ipv6 # 0]

\* Variant: a location that is not reported is not one of the class's.
ElsewhereUnreported(sp, st, srv) == sp.locations # <<>> /\ st.locations # <<>> /\ srv.loc \notin Range(st.locations)

\* The location counts only where the operator wrote the list down, the list is
\* resolved and the server's location is reported.
Elsewhere(sp, st, srv) ==
  sp.locations # <<>> /\ st.locations # <<>> /\ srv.loc # 0 /\ srv.loc \notin Range(st.locations)

\* Nothing is concluded from a network that is not resolved.
OtherNetwork(st, srv) ==
  \/ st.refs.net = <<>> /\ srv.nets # {}
  \/ \E id \in Range(st.refs.net) \ {0} : id \notin srv.nets

OtherImage(sp, st, srv) ==
  sp.imageDriftPolicy = "Replace" /\ st.refs.image # 0 /\ srv.image # 0 /\ st.refs.image # srv.image

\* serverDrift: the first field, in this order, that the class would now give
\* another value.  sameSet is equality of the sets of ids.
serverDrift(sp, st, srv) ==
  IF Elsewhere(sp, st, srv) THEN "LocationDrift"
  ELSE IF OtherNetwork(st, srv) THEN "NetworkDrift"
  ELSE IF Range(st.refs.fws) # srv.fws THEN "FirewallDrift"
  ELSE IF st.refs.pg # srv.pg THEN "PlacementGroupDrift"
  ELSE IF sp.ipv4 # srv.ipv4 \/ sp.ipv6 # srv.ipv6 THEN "PublicNetDrift"
  ELSE IF OtherImage(sp, st, srv) THEN "ImageDrift"
  ELSE ""

\* IsDrifted beyond the hash: declines unless the class is Ready.
Drift(srv) == IF status.st = "True" THEN serverDrift(spec, status, srv) ELSE ""

-----------------------------------------------------------------------------
NoOrder == [want |-> [types |-> {}, locs |-> {}, size |-> 0], pairs |-> <<>>]
NotFetched == [fetched |-> FALSE, types |-> <<>>, ipv4 |-> 0]

PlacementInit ==
  /\ catalog = NotFetched /\ spec \in Specs
  /\ \E refs \in Refs : status = [refs |-> refs, st |-> "Unknown", reason |-> "", locations |-> <<>>]
  /\ unavailable = {} /\ servers = {} /\ last = NoOrder

\* Refresh: a surcharge that cannot be read is taken as nothing.
CatalogLands ==
  /\ \E types \in Catalogs, ipv4 \in {0, IPv4Price} : catalog' = [fetched |-> TRUE, types |-> types, ipv4 |-> ipv4]
  /\ last' = NoOrder
  /\ UNCHANGED <<spec, status, unavailable, servers>>

\* Servers of another state of the class are left out of account.
Forget(changed) == servers' = IF changed THEN {} ELSE servers

Edit ==
  /\ spec' \in Specs /\ Forget(spec' # spec) /\ last' = NoOrder
  /\ UNCHANGED <<catalog, status, unavailable>>

\* A pass of the controller: the selectors resolve, validation runs last.
Pass ==
  /\ \E refs \in Refs : status' = Validated(catalog, spec, refs)
  /\ Forget(status' # status) /\ last' = NoOrder
  /\ UNCHANGED <<catalog, spec, unavailable>>

\* Whether the server can attach to the class's network there (external).
Attaches(loc) == ~Outside(ZoneOf(catalog.types, loc), status.refs.zone)

\* Create: the Ready gate, the resolved image, the candidates, and the walk along
\* them.  n orders are placed; all but the last found no capacity and are
\* suppressed; the last one makes a server where the network reaches, is the last
\* attempt to find no capacity, or fails for another reason, as it must where the
\* network does not reach.
Create ==
  /\ status.st = "True" /\ catalog.fetched /\ status.refs.image # 0
  /\ \E want \in Wants :
       LET cands == Candidates(want)
           attempts == IF Len(cands) < MaxAttempts THEN Len(cands) ELSE MaxAttempts
           pair(i) == <<cands[i].name, cands[i].loc>>
       IN \E n \in 1 .. attempts :
            /\ \A i \in 1 .. n - 1 : Attaches(cands[i].loc)
            /\ last' = [want |-> want, pairs |-> [i \in 1 .. n |-> pair(i)]]
            /\ \/ /\ Attaches(cands[n].loc) /\ Cardinality(servers) < MaxServers
                  /\ servers' = IF status = Validated(catalog, spec, status.refs)
                                THEN servers \cup {[req |-> baseRequest(spec, status), loc |-> cands[n].loc]} ELSE servers
                  /\ unavailable' = unavailable \cup {pair(i) : i \in 1 .. n - 1}
               \/ /\ unavailable' = unavailable \cup {pair(i) : i \in 1 .. n - 1} /\ UNCHANGED servers
               \/ /\ n = attempts /\ Attaches(cands[n].loc)
                  /\ unavailable' = unavailable \cup {pair(i) : i \in 1 .. n} /\ UNCHANGED servers
  /\ UNCHANGED <<catalog, spec, status>>

\* A suppression runs out.
Expire ==
  /\ \E p \in unavailable : unavailable' = unavailable \ {p}
  /\ last' = NoOrder
  /\ UNCHANGED <<catalog, spec, status, servers>>

PlacementNext == CatalogLands \/ Edit \/ Pass \/ Create \/ Expire
PlacementSpec == PlacementInit /\ [][PlacementNext]_placementVars

-----------------------------------------------------------------------------
(* Properties. *)

\* What validation promises of a location, without the order of the loop.
Usable(loc) ==
  /\ spec.locations # <<>> => loc \in Range(spec.locations)
  /\ loc \in Offered(catalog.types)
  /\ ZoneOf(catalog.types, loc) \in {"", status.refs.zone} \/ status.refs.zone = ""

\* A pass publishes exactly the usable locations, each once, whatever spec.locations
\* repeats; while there is one, the class is not taken down over the others, and
\* "neither way of knowing nothing about the catalog is a fact about this
\* NodeClass": no pass turns a class False over a catalog that offers nothing.
ScopeIsExact ==
  [][status' # status =>
       /\ catalog.fetched /\ status'.refs.arch \in {"", SupportedArchitecture} =>
            LET usable == {l \in Offered(catalog.types) : Usable(l)'}
            IN /\ Range(status'.locations) = usable
               /\ Len(status'.locations) = Cardinality(usable)
               /\ status'.st = "True" <=> usable # {}
       /\ status'.st = "False" => Offered(catalog.types) # {} \/ status'.refs.arch \notin {"", SupportedArchitecture}]_placementVars

\* The pairs a create may order, and what each costs, straight from the catalog.
\* The class has its say through spec.locations alone.  The network's zone and
\* status.locations have none: with spec.locations empty a pair outside the zone is
\* as acceptable as any, though the field's comment reads "Empty means every
\* location in the network's zone" and the pair can only be refused.
Sold(st) == {l.loc : l \in {e \in Range(st.locs) : ~e.deprecated}} \cap DOMAIN st.price
Acceptable(want) ==
  {p \in want.types \X want.locs :
     /\ p \notin unavailable
     /\ spec.locations # <<>> => p[2] \in Range(spec.locations)
     /\ \E st \in Range(catalog.types) :
          st.name = p[1] /\ Supported(st) /\ st.size >= want.size /\ p[2] \in Sold(st)}
Price(p) == (CHOOSE st \in Range(catalog.types) : st.name = p[1]).price[p[2]]

\* A create orders only what the NodeClaim, spec.locations and the catalog allow and
\* no failure has suppressed, no pair twice, and never passes over a cheaper one,
\* whether or not the snapshot has the IPv4 surcharge.  It does not keep to the
\* network's zone, nor to the locations validation has published: see Acceptable.
CheapestFirst ==
  [][last'.pairs # <<>> =>
       LET ps == last'.pairs
           ok == Acceptable(last'.want)
       IN \A i \in DOMAIN ps :
            LET left == ok \ {ps[j] : j \in 1 .. i - 1}
            IN ps[i] \in left /\ \A q \in left : Price(ps[i]) <= Price(q)]_placementVars

\* The catalog as the API might list it just as well: types and locations the other
\* way round.
Backwards(s) == [i \in 1 .. Len(s) |-> s[Len(s) - i + 1]]
Mirrored(types) == Backwards([i \in DOMAIN types |-> [types[i] EXCEPT !.locs = Backwards(@)]])

\* "Without the tiebreaks ... the fleet never settles": the candidates do not
\* depend on the order in which the API lists types and locations.
OrderSettles ==
  \A want \in Wants : Candidates(want) = orderedCandidates(want, Build(Mirrored(catalog.types), spec, unavailable))

\* What a create asks for is what drift compares with: a server of a class that
\* has not changed since, and was validated then, is not drifted, whatever Hetzner
\* leaves out when it reports the server and whatever of the class is unresolved.
FreshIsNotDrifted ==
  \A srv \in servers : \A h \in Responses(srv) : Drift(serverFromHcloud(h)) = ""
=============================================================================
