--------------------------- MODULE ListCacheProofs ---------------------------
(***************************************************************************)
(* Proofs about ListCache, for every number of callers, mutators and       *)
(* servers and every TTL and timeout.                                      *)
(***************************************************************************)
EXTENDS ListCache, TLAPS

\* A stored listing shows a real version and was computed at most Timeout
\* before it was stored.
CacheInv ==
  cached # NoListing =>
    /\ cached.ver \in 1 .. Version
    /\ fetchedAt <= now /\ fetchedAt <= cached.readAt + Timeout

\* The clock has not passed the deadline of an upstream call; a listing in
\* transit was computed inside that call; a listing about to be handed out is
\* young enough for whoever joins the flight now.
FlightInv ==
  /\ flight.phase \in {"fetching", "fetched"} => now <= flight.deadline
  /\ flight.phase = "fetching" => flight.deadline <= now + Timeout
  /\ flight.phase = "fetched" =>
       flight.listing.ver \in 1 .. Version /\ flight.deadline <= flight.listing.readAt + Timeout
  /\ flight.phase = "done" /\ ~flight.failed =>
       flight.listing.ver \in 1 .. Version /\ now < flight.listing.readAt + TTL + Timeout

CallInv ==
  \A c \in Caller :
    /\ call[c].began <= now /\ call[c].news <= settled
    /\ call[c].pc \in {"miss", "waiting", "point"} =>
         call[c].ver0 \in 1 .. Version /\ call[c].listing = NoListing
    /\ call[c].pc = "done" /\ call[c].res = "gone" => call[c].ver0 \in 1 .. Version

\* Every announced version exists, and what is cached or in transit shows the
\* settled one.
NewsInv ==
  /\ settled <= Version /\ \A m \in Mutator : pending[m] <= Version
  /\ flight.failed => flight.phase = "done"
  /\ cached # NoListing => cached.ver >= settled
  /\ flight.phase \in {"fetched", "done"} /\ ~flight.failed => flight.listing.ver >= settled

IInv ==
  /\ TypeOK /\ CacheInv /\ FlightInv /\ CallInv /\ NewsInv
  /\ StalenessBounded /\ NoCallWhileFresh /\ GoneIsTrue
  /\ AnnouncedIsListed

-----------------------------------------------------------------------------
\* A change to the project adds a version and rewrites none.
LEMMA HistoryGrows ==
  ASSUME TypeOK, NEW S \in SUBSET Server, history' = Append(history, S)
  PROVE  /\ history' \in Seq(SUBSET Server) /\ history' # <<>>
         /\ Version' = Version + 1
         /\ \A v \in 1 .. Version : history'[v] = history[v]
BY DEF TypeOK, Version

\* There is always a current version.
LEMMA OwnedType == TypeOK => Version \in Nat \ {0} /\ Owned \subseteq Server
BY DEF TypeOK, Version, Owned

\* list() hands a call either an answer or a point read, and touches nothing
\* else of it.
LEMMA DeliverType ==
  ASSUME NEW r \in Call, NEW l \in Listing
  PROVE  /\ Deliver(r, l) \in Call
         /\ Deliver(r, l).op = r.op /\ Deliver(r, l).began = r.began
         /\ Deliver(r, l).ver0 = r.ver0 /\ Deliver(r, l).news = r.news
         /\ \/ Deliver(r, l).pc = "done" /\ Deliver(r, l).res \in {"listed", "found"}
               /\ Deliver(r, l).listing = l
            \/ Deliver(r, l).pc = "point" /\ Deliver(r, l).listing = r.listing
BY ZenonT(60) DEF Deliver, Call, PC, Result

\* A new cache satisfies the invariant.
LEMMA InitInv == Init => IInv
<1> SUFFICES ASSUME Init PROVE IInv
  OBVIOUS
<1> USE CacheAssumption DEF Init
<1>1. Version = 1
  BY DEF Version
<1>2. TypeOK
  <2>0. PICK S \in SUBSET Server : history = <<S>>
    OBVIOUS
  <2>1. history \in Seq(SUBSET Server) /\ history # <<>>
    BY <2>0
  <2>2. flight \in Flight /\ Idle \in Call
    BY DEF Listing, NoListing, Flight, NoFlight, Phase, Call, Idle, PC, Result
  <2> QED
    BY <2>1, <2>2 DEF TypeOK, Listing, NoListing
<1>3. CacheInv /\ FlightInv /\ CallInv /\ NewsInv
  BY <1>1 DEF CacheInv, FlightInv, CallInv, NewsInv, NoFlight, Idle
<1>4. StalenessBounded /\ NoCallWhileFresh /\ GoneIsTrue /\ AnnouncedIsListed
  BY DEF StalenessBounded, NoCallWhileFresh, GoneIsTrue, AnnouncedIsListed,
         HasListing, Idle, NoFlight
<1> QED
  BY <1>2, <1>3, <1>4 DEF IInv

\* A step of one caller that leaves everything else alone preserves the
\* invariant if the new frame is well formed.
FrameOK(r) ==
  /\ r \in Call /\ r.began <= now /\ r.news <= settled
  /\ r.pc \in {"miss", "waiting", "point"} => r.ver0 \in 1 .. Version /\ r.listing = NoListing
  /\ r.pc = "done" /\ r.res \in {"listed", "found"} /\ r.listing # NoListing =>
       r.listing.readAt + TTL + Timeout > r.began /\ r.listing.ver >= r.news
  /\ r.pc = "done" /\ r.res = "gone" =>
       r.ver0 \in 1 .. Version /\ \E v \in r.ver0 .. Version : r.op \notin history[v]

\* The invariant, read as a fact about each caller's frame.
LEMMA FrameOfInv == IInv => \A c \in Caller : FrameOK(call[c])
BY ZenonT(60) DEF IInv, TypeOK, CallInv, StalenessBounded, GoneIsTrue, AnnouncedIsListed, HasListing, FrameOK

\* A step of one caller's frame, everything else unchanged, keeps the invariant.
LEMMA CallerStep ==
  ASSUME IInv, NEW c \in Caller, NEW r, FrameOK(r),
         call' = [call EXCEPT ![c] = r],
         UNCHANGED <<now, history, cached, fetchedAt, flight, pending, settled>>
  PROVE  IInv'
<1>1. \A d \in Caller : FrameOK(call'[d])
  BY FrameOfInv DEF IInv, TypeOK
<1>2. TypeOK'
  BY DEF IInv, TypeOK, FrameOK
<1>3. CacheInv' /\ FlightInv' /\ NewsInv' /\ NoCallWhileFresh'
  BY DEF IInv, CacheInv, FlightInv, NewsInv, NoCallWhileFresh, Fresh, Version
<1>4. CallInv' /\ StalenessBounded' /\ GoneIsTrue' /\ AnnouncedIsListed'
  BY <1>1 DEF CallInv, StalenessBounded, GoneIsTrue, AnnouncedIsListed, HasListing, FrameOK, Version
<1> QED
  BY <1>2, <1>3, <1>4 DEF IInv

\* A fresh listing is young enough for a call that begins now.
LEMMA FreshListing ==
  ASSUME IInv, Fresh
  PROVE  cached.ver \in 1 .. Version /\ cached.ver >= settled /\ now < cached.readAt + TTL + Timeout
BY CacheAssumption DEF IInv, TypeOK, CacheInv, NewsInv, Fresh, Listing

-----------------------------------------------------------------------------
(* One lemma per group of actions                                          *)

\* A call starts with a hit or a miss.
LEMMA BeginInv == ASSUME IInv, NEW c \in Caller, NEW op \in Server \cup {"List"}, Begin(c, op) PROVE IInv'
<1> DEFINE r == [Idle EXCEPT !.op = op, !.began = now, !.ver0 = Version, !.news = settled]
<1>1. /\ r \in Call /\ r.began = now /\ r.ver0 = Version /\ r.news = settled /\ r.listing = NoListing
      /\ settled \in Nat
      /\ Version \in Nat \ {0} /\ now \in Nat /\ cached \in Listing
  BY ZenonT(60), OwnedType DEF IInv, TypeOK, Call, Idle, PC, Result, Listing, NoListing
<1>0. IInv /\ Begin(c, op) /\ call' = [call EXCEPT ![c] = IF Fresh THEN Deliver(r, cached) ELSE [r EXCEPT !.pc = "miss"]]
  BY DEF Begin
<1> HIDE DEF r
<1>2. CASE Fresh
  <2>1. FrameOK(Deliver(r, cached))
    BY <1>1, <1>2, DeliverType, FreshListing DEF FrameOK
  <2> QED
    BY ZenonT(60), <1>0, <1>2, <2>1, CallerStep DEF Begin
<1>3. CASE ~Fresh
  <2>1. FrameOK([r EXCEPT !.pc = "miss"])
    BY <1>1 DEF FrameOK, Call, PC
  <2> QED
    BY ZenonT(60), <1>0, <1>3, <2>1, CallerStep DEF Begin
<1> QED
  BY <1>2, <1>3

\* A failed call claims nothing about servers.
LEMMA FailedOK ==
  ASSUME TypeOK
  PROVE  FrameOK(Failed("upstream")) /\ FrameOK(Failed("canceled"))
<1> DEFINE u == Failed("upstream")
           x == Failed("canceled")
<1>1. u \in Call /\ u.began = 0 /\ u.news = 0 /\ u.pc = "done" /\ u.res = "upstream"
  BY ZenonT(60) DEF Failed, Idle, Call, PC, Result, Listing, NoListing
<1>2. x \in Call /\ x.began = 0 /\ x.news = 0 /\ x.pc = "done" /\ x.res = "canceled"
  BY ZenonT(60) DEF Failed, Idle, Call, PC, Result, Listing, NoListing
<1> HIDE DEF u, x
<1> QED
  BY <1>1, <1>2 DEF TypeOK, FrameOK, u, x

\* A caller gives up, reads the one server, or returns.
LEMMA CallInvStep ==
  ASSUME IInv, NEW c \in Caller, GiveUp(c) \/ PointRead(c) \/ Return(c)
  PROVE  IInv'
<1> USE FailedOK
<1>0. TypeOK /\ FrameOK(call[c]) /\ call[c] \in Call /\ Version \in Nat \ {0}
  BY FrameOfInv, OwnedType DEF IInv, TypeOK
<1>1. CASE GiveUp(c)
  BY ZenonT(60), <1>0, <1>1, CallerStep DEF GiveUp
<1>2. CASE Return(c)
  <2>1. FrameOK(Idle)
    BY <1>0, CacheAssumption DEF TypeOK, FrameOK, Idle, Call, PC, Result, Listing, NoListing
  <2> QED
    BY ZenonT(60), <1>2, <2>1, CallerStep DEF Return
<1>3. CASE PointRead(c)
  <2> DEFINE r == [call[c] EXCEPT !.pc = "done", !.res = IF call[c].op \in Owned THEN "found" ELSE "gone"]
  <2>1. CASE call' = [call EXCEPT ![c] = r]
    <3>1. /\ r \in Call /\ r.began = call[c].began /\ r.ver0 = call[c].ver0 /\ r.news = call[c].news /\ r.op = call[c].op
          /\ r.listing = NoListing /\ r.pc = "done"
          /\ r.res = IF r.op \in Owned THEN "found" ELSE "gone"
      BY ZenonT(60), <1>0, <1>3 DEF FrameOK, PointRead, Call, PC, Result
    <3>2. call[c].began <= now /\ call[c].news <= settled /\ r.ver0 \in 1 .. Version /\ Version \in r.ver0 .. Version
      BY <1>0, <1>3, <3>1 DEF FrameOK, PointRead
    <3> HIDE DEF r
    <3>3. FrameOK(r)
      BY <3>1, <3>2 DEF FrameOK, Owned
    <3> QED
      BY ZenonT(60), <1>3, <2>1, <3>3, CallerStep DEF PointRead
  <2>2. CASE call' = [call EXCEPT ![c] = Failed("upstream")]
    BY ZenonT(60), <1>0, <1>3, <2>2, CallerStep DEF PointRead
  <2>3. CASE call' = [call EXCEPT ![c] = Failed("canceled")]
    BY ZenonT(60), <1>0, <1>3, <2>3, CallerStep DEF PointRead
  <2> QED
    BY <1>3, <2>1, <2>2, <2>3 DEF PointRead
<1> QED
  BY <1>1, <1>2, <1>3

\* A caller starts the flight or joins it.
LEMMA DoChanInv == ASSUME IInv, NEW c \in Caller, DoChan(c) PROVE IInv'
<1> DEFINE r == [call[c] EXCEPT !.pc = "waiting"]
<1>0. call[c].pc = "miss" /\ call' = [call EXCEPT ![c] = r]
      /\ UNCHANGED <<now, history, cached, fetchedAt, pending, settled>>
  BY DEF DoChan
<1>1. FrameOK(r)
  BY <1>0, FrameOfInv DEF FrameOK, Call, PC
<1> HIDE DEF r
<1>2. \A d \in Caller : FrameOK(call'[d])
  BY <1>0, <1>1, FrameOfInv DEF IInv, TypeOK
<1>3. flight' \in Flight /\ (flight' = flight \/ (flight'.phase = "started" /\ ~flight'.failed))
  <2>1. flight.phase = "none" => ~flight.failed
    BY ZenonT(60) DEF IInv, NewsInv
  <2>2. flight \in Flight
    BY DEF IInv, TypeOK
  <2>3. CASE flight.phase = "none"
    BY <2>1, <2>2, <2>3 DEF DoChan, Flight, Phase
  <2>4. CASE flight.phase # "none"
    <3>1. flight' = flight
      BY <2>4 DEF DoChan
    <3> QED
      BY Zenon, <2>2, <3>1
  <2> QED
    BY <2>3, <2>4
<1>4. TypeOK'
  BY <1>0, <1>1, <1>3 DEF IInv, TypeOK, FrameOK
<1>5. CacheInv' /\ FlightInv' /\ NewsInv' /\ NoCallWhileFresh'
  BY <1>0, <1>3 DEF IInv, CacheInv, FlightInv, NewsInv, NoCallWhileFresh, Fresh, Version
<1>6. CallInv' /\ StalenessBounded' /\ GoneIsTrue' /\ AnnouncedIsListed'
  BY <1>0, <1>2 DEF CallInv, StalenessBounded, GoneIsTrue, AnnouncedIsListed, HasListing, FrameOK, Version
<1> QED
  BY <1>4, <1>5, <1>6 DEF IInv

\* The steps of the flight that no caller's frame is part of.
LEMMA FlightInvStep ==
  ASSUME IInv, FlightRecheck \/ UpstreamList \/ FlightFail \/ FlightStore
  PROVE  IInv'
<1> USE CacheAssumption
<1>0. UNCHANGED <<now, history, call, pending, settled>>
  BY DEF FlightRecheck, UpstreamList, FlightFail, FlightStore
<1>1. CallInv' /\ StalenessBounded' /\ GoneIsTrue' /\ AnnouncedIsListed'
  BY <1>0 DEF IInv, CallInv, StalenessBounded, GoneIsTrue, AnnouncedIsListed, HasListing, Version
<1>2. Version \in Nat \ {0}
  BY OwnedType DEF IInv
<1>3. CASE FlightRecheck
  <2>0. flight' \in Flight
    <3>1. CASE Fresh
      BY ZenonT(60), <1>3, <3>1 DEF FlightRecheck, IInv, TypeOK, Flight, Phase
    <3>2. CASE ~Fresh
      <4>1. now + Timeout \in Nat
        BY DEF IInv, TypeOK
      <4> QED
        BY ZenonT(60), <1>3, <3>2, <4>1 DEF FlightRecheck, IInv, TypeOK, Flight, Phase
    <3> QED
      BY <3>1, <3>2
  <2>1. TypeOK'
    BY <1>0, <1>3, <2>0 DEF FlightRecheck, IInv, TypeOK
  <2>2. FlightInv'
    <3>1. CASE Fresh
      <4>1. flight'.phase = "done" /\ flight'.listing = cached
        BY <1>3, <3>1 DEF FlightRecheck, IInv, TypeOK, Flight
      <4> QED
        BY <1>0, <3>1, <4>1, FreshListing DEF FlightInv, Version
    <3>2. CASE ~Fresh
      <4>1. flight'.phase = "fetching" /\ flight'.deadline = now + Timeout
        BY <1>3, <3>2 DEF FlightRecheck, IInv, TypeOK, Flight
      <4> QED
        BY <1>0, <4>1 DEF FlightInv, IInv, TypeOK
    <3> QED
      BY <3>1, <3>2
  <2>4. NewsInv'
    <3>1. CASE Fresh
      <4>1. flight'.phase = "done" /\ flight'.listing = cached /\ cached' = cached /\ flight'.failed = flight.failed
        BY <1>3, <3>1 DEF FlightRecheck, IInv, TypeOK, Flight
      <4> QED
        BY <1>0, <3>1, <4>1 DEF NewsInv, IInv, Fresh, Version
    <3>2. CASE ~Fresh
      <4>1. flight'.phase = "fetching" /\ cached' = cached /\ flight'.failed = flight.failed
        BY <1>3, <3>2 DEF FlightRecheck, IInv, TypeOK, Flight
      <4> QED
        BY <1>0, <1>3, <4>1 DEF NewsInv, IInv, FlightRecheck, Version
    <3> QED
      BY <3>1, <3>2
  <2>3. CacheInv' /\ NoCallWhileFresh'
    BY <1>0, <1>3 DEF FlightRecheck, IInv, TypeOK, Flight, CacheInv, NoCallWhileFresh, Fresh, Version
  <2> QED
    BY <1>1, <2>1, <2>2, <2>3, <2>4 DEF IInv
<1>4. CASE UpstreamList
  <2>1. TypeOK'
    BY ZenonT(60), <1>0, <1>2, <1>4 DEF UpstreamList, IInv, TypeOK, Flight, Phase, Listing
  <2>2. FlightInv'
    BY <1>0, <1>2, <1>4 DEF UpstreamList, IInv, TypeOK, Flight, FlightInv, Version
  <2>4. NewsInv'
    BY <1>0, <1>2, <1>4 DEF UpstreamList, IInv, TypeOK, Flight, NewsInv, Version
  <2>3. CacheInv' /\ NoCallWhileFresh'
    BY <1>0, <1>4 DEF UpstreamList, IInv, TypeOK, Flight, CacheInv, NoCallWhileFresh, Fresh, Version
  <2> QED
    BY <1>1, <2>1, <2>2, <2>3, <2>4 DEF IInv
<1>5. CASE FlightFail
  <2>1. TypeOK'
    BY ZenonT(60), <1>0, <1>5 DEF FlightFail, IInv, TypeOK, Flight, NoFlight, Phase, Listing, NoListing
  <2>2. FlightInv'
    BY <1>0, <1>5 DEF FlightFail, NoFlight, FlightInv
  <2>4. NewsInv'
    BY <1>0, <1>5 DEF FlightFail, NoFlight, IInv, NewsInv, Version
  <2>3. CacheInv' /\ NoCallWhileFresh'
    BY <1>0, <1>5 DEF FlightFail, NoFlight, IInv, CacheInv, NoCallWhileFresh, Fresh, Version
  <2> QED
    BY <1>1, <2>1, <2>2, <2>3, <2>4 DEF IInv
<1>6. CASE FlightStore
  <2>1. TypeOK'
    BY ZenonT(60), <1>0, <1>6 DEF FlightStore, IInv, TypeOK, Flight, Phase
  <2>2. FlightInv' /\ CacheInv'
    <3>1. flight'.phase = "done" /\ flight'.listing = flight.listing /\ fetchedAt' = now /\ cached' = flight.listing
      BY <1>6 DEF FlightStore, IInv, TypeOK, Flight
    <3>2. /\ flight.listing.ver \in 1 .. Version /\ now <= flight.deadline
          /\ flight.deadline <= flight.listing.readAt + Timeout
          /\ now \in Nat /\ flight.deadline \in Nat /\ flight.listing.readAt \in Nat
      BY <1>6 DEF FlightStore, IInv, TypeOK, Flight, Listing, FlightInv
    <3>3. now <= flight.listing.readAt + Timeout /\ now < flight.listing.readAt + TTL + Timeout
      BY <3>2
    <3> QED
      BY <1>0, <3>1, <3>2, <3>3 DEF FlightInv, CacheInv, Version
  <2>4. NewsInv'
    BY <1>0, <1>6 DEF FlightStore, IInv, TypeOK, Flight, NewsInv, Version
  <2>3. NoCallWhileFresh'
    <3>1. flight'.phase = "done" /\ fetchedAt' = now
      BY <1>6 DEF FlightStore, IInv, TypeOK, Flight
    <3> QED
      BY <1>0, <3>1 DEF IInv, TypeOK, NoCallWhileFresh, NewsInv
  <2> QED
    BY <1>1, <2>1, <2>2, <2>3, <2>4 DEF IInv
<1> QED
  BY <1>3, <1>4, <1>5, <1>6

\* Every waiter gets the flight's result.
LEMMA FlightDoneInv == ASSUME IInv, FlightDone PROVE IInv'
<1>0. /\ UNCHANGED <<now, history, cached, fetchedAt, pending, settled>>
      /\ flight' = NoFlight /\ flight.phase = "done"
  BY DEF FlightDone
<1>1. \A d \in Caller : FrameOK(call'[d])
  <2> SUFFICES ASSUME NEW d \in Caller PROVE FrameOK(call'[d])
    OBVIOUS
  <2>1. FrameOK(call[d]) /\ TypeOK /\ now \in Nat /\ flight.listing \in Listing
    BY FrameOfInv DEF IInv, TypeOK, Flight
  <2>2. CASE call[d].pc # "waiting"
    BY <2>1, <2>2 DEF FlightDone
  <2>3. CASE call[d].pc = "waiting" /\ flight.failed
    BY <2>1, <2>3, FailedOK DEF FlightDone
  <2>4. CASE call[d].pc = "waiting" /\ ~flight.failed
    <3>1. call'[d] = Deliver(call[d], flight.listing)
      BY <2>4 DEF FlightDone
    <3>2. now < flight.listing.readAt + TTL + Timeout /\ flight.listing.ver >= settled
      BY <1>0, <2>4 DEF IInv, FlightInv, NewsInv
    <3>3. /\ call[d] \in Call /\ call[d].began <= now /\ call[d].news <= settled
          /\ call[d].news \in Nat /\ flight.listing.ver \in Nat /\ call[d].ver0 \in 1 .. Version
          /\ call[d].listing = NoListing /\ call[d].began \in Nat /\ flight.listing.readAt \in Nat
      BY <2>1, <2>4 DEF FrameOK, Call, Listing
    <3>4. flight.listing.readAt + TTL + Timeout > call[d].began /\ flight.listing.ver >= call[d].news
      <4>1. now \in Nat /\ settled \in Nat /\ TTL \in Nat /\ Timeout \in Nat
        BY <2>1, CacheAssumption DEF TypeOK
      <4> QED
        BY <3>2, <3>3, <4>1
    <3> QED
      BY <2>1, <3>1, <3>3, <3>4, DeliverType DEF FrameOK
  <2> QED
    BY <2>2, <2>3, <2>4
<1>2. TypeOK'
  <2>1. call' \in [Caller -> Call]
    BY <1>1 DEF FlightDone, FrameOK
  <2>2. NoFlight \in Flight
    BY DEF NoFlight, Flight, Phase, Listing, NoListing
  <2> QED
    BY <1>0, <2>1, <2>2 DEF IInv, TypeOK
<1>3. CacheInv' /\ FlightInv' /\ NewsInv' /\ NoCallWhileFresh'
  BY <1>0 DEF IInv, CacheInv, FlightInv, NewsInv, NoCallWhileFresh, NoFlight, Version
<1>4. CallInv' /\ StalenessBounded' /\ GoneIsTrue' /\ AnnouncedIsListed'
  BY <1>0, <1>1 DEF CallInv, StalenessBounded, GoneIsTrue, AnnouncedIsListed, HasListing, FrameOK, Version
<1> QED
  BY <1>2, <1>3, <1>4 DEF IInv

-----------------------------------------------------------------------------
(* The project, the announcements and the clock                            *)

\* A new version of the project disturbs nothing that refers to an old one.
LEMMA ProjectInv ==
  ASSUME IInv, NEW S \in SUBSET Server, history' = Append(history, S),
         pending' \in [Mutator -> Nat], \A m \in Mutator : pending'[m] <= Version + 1,
         UNCHANGED <<now, cached, fetchedAt, flight, call, settled>>
  PROVE  IInv'
<1>0. TypeOK /\ Version \in Nat \ {0}
  BY OwnedType DEF IInv
<1>1. /\ history' \in Seq(SUBSET Server) /\ history' # <<>>
      /\ Version' = Version + 1 /\ \A v \in 1 .. Version : history'[v] = history[v]
  BY ZenonT(60), <1>0, HistoryGrows
<1>2. 1 .. Version \subseteq 1 .. Version'
  BY <1>0, <1>1
<1>3. TypeOK'
  BY <1>1 DEF IInv, TypeOK
<1>4. CacheInv' /\ FlightInv' /\ CallInv'
  BY <1>2 DEF IInv, CacheInv, FlightInv, CallInv
<1>7. NewsInv'
  BY <1>0, <1>1 DEF IInv, TypeOK, NewsInv
<1>5. StalenessBounded' /\ NoCallWhileFresh' /\ AnnouncedIsListed'
  BY DEF IInv, StalenessBounded, NoCallWhileFresh, AnnouncedIsListed, HasListing, Fresh
<1>6. GoneIsTrue'
  <2> SUFFICES ASSUME NEW c \in Caller, call[c].pc = "done", call[c].res = "gone"
               PROVE  \E v \in call[c].ver0 .. Version' : call[c].op \notin history'[v]
    BY ZenonT(60) DEF GoneIsTrue
  <2>1. PICK v \in call[c].ver0 .. Version : call[c].op \notin history[v]
    BY DEF IInv, GoneIsTrue
  <2>2. call[c].ver0 \in 1 .. Version
    BY DEF IInv, CallInv
  <2>3. v \in 1 .. Version /\ v \in call[c].ver0 .. Version'
    BY <1>0, <1>1, <2>2
  <2> QED
    BY ZenonT(60), <1>1, <2>1, <2>3
<1> QED
  BY <1>3, <1>4, <1>5, <1>6, <1>7 DEF IInv

\* invalidate() leaves no listing behind.
LEMMA InvalidateInv == ASSUME IInv, NEW m \in Mutator, Invalidate(m) PROVE IInv'
<1>1. TypeOK'
  BY DEF Invalidate, Announce, IInv, TypeOK, Listing, NoListing
<1>2. CacheInv' /\ FlightInv'
  BY DEF Invalidate, IInv, TypeOK, CacheInv, FlightInv, Version
<1>4. settled' >= settled /\ CallInv'
  <2>1. settled' \in Nat /\ settled' >= settled
    BY DEF Invalidate, Announce, IInv, TypeOK
  <2> QED
    BY <2>1 DEF Invalidate, IInv, TypeOK, Call, CallInv, Version
<1>5. NewsInv'
  <2>1. CASE settled' = settled
    BY <2>1 DEF Invalidate, IInv, TypeOK, NewsInv, Version
  <2>2. CASE settled' = pending[m] /\ ~InTransitBefore(pending[m])
    BY <2>2 DEF Invalidate, InTransitBefore, IInv, TypeOK, Flight, Listing, NewsInv, Version
  <2> QED
    BY <2>1, <2>2 DEF Invalidate, Announce
<1>3. StalenessBounded' /\ NoCallWhileFresh' /\ GoneIsTrue' /\ AnnouncedIsListed'
  BY DEF Invalidate, IInv, StalenessBounded, NoCallWhileFresh, GoneIsTrue, AnnouncedIsListed,
         HasListing, Fresh, Version
<1> QED
  BY <1>1, <1>2, <1>3, <1>4, <1>5 DEF IInv

\* Time passes, within the flight's deadline.
LEMMA TickInv == ASSUME IInv, Tick PROVE IInv'
<1> USE CacheAssumption
<1>0. now \in Nat /\ now' = now + 1 /\ UNCHANGED <<history, cached, fetchedAt, flight, call, pending, settled>>
  BY DEF Tick, IInv, TypeOK
<1>1. TypeOK'
  BY <1>0 DEF IInv, TypeOK
<1>2. FlightInv'
  BY <1>0 DEF Tick, IInv, TypeOK, Flight, FlightInv, Version
<1>3. CacheInv' /\ NewsInv' /\ NoCallWhileFresh'
  BY <1>0 DEF IInv, TypeOK, CacheInv, NewsInv, NoCallWhileFresh, Fresh, Version
<1>4. CallInv'
  BY <1>0 DEF IInv, TypeOK, Call, CallInv, Version
<1>5. StalenessBounded' /\ GoneIsTrue' /\ AnnouncedIsListed'
  BY <1>0 DEF IInv, StalenessBounded, GoneIsTrue, AnnouncedIsListed, HasListing, Version
<1> QED
  BY <1>1, <1>2, <1>3, <1>4, <1>5 DEF IInv

-----------------------------------------------------------------------------
\* Every step preserves the invariant.
LEMMA NextInv == IInv /\ [Next]_vars => IInv'
<1> SUFFICES ASSUME IInv, [Next]_vars PROVE IInv'
  OBVIOUS
<1>1. CASE \E c \in Caller : CallStep(c) \/ GiveUp(c)
  BY <1>1, DoChanInv, CallInvStep DEF CallStep
<1>2. CASE \E c \in Caller, op \in Server \cup {"List"} : Begin(c, op)
  BY <1>2, BeginInv
<1>3. CASE FlightStep
  BY <1>3, FlightInvStep, FlightDoneInv DEF FlightStep
<1>4. ASSUME NEW m \in Mutator, NEW s \in Server, CreateServer(m, s) \/ DeleteServer(m, s)
      PROVE  IInv'
  <2>1. Owned \subseteq Server /\ Version + 1 \in Nat /\ pending \in [Mutator -> Nat]
        /\ Version + 1 <= Version + 1 /\ \A n \in Mutator : pending[n] <= Version + 1
    BY OwnedType DEF IInv, TypeOK, NewsInv
  <2>2. CASE CreateServer(m, s)
    BY ZenonT(60), <2>1, <2>2, ProjectInv DEF CreateServer
  <2>3. CASE DeleteServer(m, s)
    BY ZenonT(60), <2>1, <2>3, ProjectInv DEF DeleteServer
  <2> QED
    BY <1>4, <2>2, <2>3
<1>5. ASSUME NEW s \in Server, ProjectChanges(s)
      PROVE  IInv'
  <2>1. Owned \subseteq Server /\ pending \in [Mutator -> Nat]
        /\ \A n \in Mutator : pending[n] <= Version + 1
    BY OwnedType DEF IInv, TypeOK, NewsInv
  <2> QED
    BY ZenonT(60), <1>5, <2>1, ProjectInv DEF ProjectChanges
<1>6. CASE Tick
  BY <1>6, TickInv
<1>7. CASE UNCHANGED vars
  BY <1>7 DEF vars, IInv, TypeOK, CacheInv, FlightInv, CallInv, NewsInv, StalenessBounded, NoCallWhileFresh,
              GoneIsTrue, AnnouncedIsListed, HasListing, Fresh, Version
<1> QED
  BY <1>1, <1>2, <1>3, <1>4, <1>5, <1>6, <1>7, InvalidateInv DEF Next

\* The variables of the cache, of the shared flight, of the callers' frames and
\* of the announcements keep their types through every step of list(),
\* invalidate(), List, Get, Create and Delete; and the facts that make the
\* properties below inductive hold with them.
THEOREM TypeCorrect == Spec => []TypeOK
BY InitInv, NextInv, PTL DEF Spec, IInv

\* No call is answered from a listing that was already TTL + listTimeout old
\* when the call began, for any number of callers.
THEOREM StalenessIsBounded == Spec => []StalenessBounded
BY InitInv, NextInv, PTL DEF Spec, IInv

\* The re-check at list.go:83-91 keeps the flight from calling Hetzner while the
\* cache is fresh.
THEOREM OneCallPerWindow == Spec => []NoCallWhileFresh
BY InitInv, NextInv, PTL DEF Spec, IInv

\* Get's "not found" is never concluded from a listing: the server was not this
\* cluster's at some moment of the call.
THEOREM GoneMeansGone == Spec => []GoneIsTrue
BY InitInv, NextInv, PTL DEF Spec, IInv

\* A call that begins after an announcement is answered with the change, for any
\* number of callers and mutators; only a listing that was already in transit at
\* the announcement can bring the older project back (list.go:95-107, 118-126).
THEOREM AnnouncementsAreSeen == Spec => []AnnouncedIsListed
BY InitInv, NextInv, PTL DEF Spec, IInv
=============================================================================
