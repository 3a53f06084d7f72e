-------------------------- MODULE SuppressionProofs --------------------------
(***************************************************************************)
(* The memory of failed launches suppresses a pair exactly for a TTL after *)
(* its last capacity failure, and the gauge tells so, for every catalog,   *)
(* number of Creates and of attempts, TTL and interval.                    *)
(***************************************************************************)
EXTENDS Suppression, TLAPS

\* An entry of the map ends a TTL after the pair's last failure, and a pair
\* without entry has no failure younger than that: Mark writes the first, and
\* Snapshot, the only step that removes entries, tests for the second.
LinkOf(e, age) ==
  /\ e # NoEntry => e.left <= TTL /\ age = (IF e.left > 0 THEN TTL - e.left ELSE TTL)
  /\ e = NoEntry => age = TTL
Link == \A o \in Pair : LinkOf(items[o], failed[o])

\* The ticker is on time: a rebuild starts when its interval is over and ends
\* before the clock moves on.
TickerInv ==
  /\ sync.pc # "wait" => sync.left = 0
  /\ sync.pc # "set" => sync.todo = {}

\* A Create about to set the gauge has marked its pair at this instant, or another
\* Create has done so since.
Marked(p) ==
  creates[p].pc = "gauge" =>
    /\ creates[p].at # 0 /\ creates[p].code \in Codes
    /\ items[Order[creates[p].at]] # NoEntry /\ items[Order[creates[p].at]].left = TTL

\* The next rebuild reaps every entry within an interval of its end, and the one
\* under way has reaped those that have run out.
EntryInv ==
  \A o \in Pair : items[o] # NoEntry =>
    /\ sync.left <= items[o].left + Interval
    /\ sync.pc = "set" => 0 < items[o].left

\* How long the map still justifies a series: while it has the series' code, to the
\* entry's end; under another code, to the instant the entry was made.
Vouched(s) == IF items[s[1]].code = s[2] THEN items[s[1]].left ELSE items[s[1]].left - TTL

\* Every series that stands, or is about to be set by the rebuild, was justified less
\* than an interval before the next rebuild; during a rebuild, still is.
SeriesInv ==
  \A s \in gauge \cup sync.todo :
    /\ items[s[1]] # NoEntry
    /\ sync.left <= Interval + Vouched(s)
    /\ sync.pc # "wait" => 0 <= Vouched(s) /\ 0 < items[s[1]].left

\* What is suppressed is shown, or someone is about to show it: the rebuild, before
\* or after its snapshot, or the Create that marked it.
Shown(o) ==
  \/ sync.pc = "snapshot"
  \/ <<o, items[o].code>> \in gauge \cup sync.todo
  \/ \E p \in Creator : creates[p].pc = "gauge" /\ Order[creates[p].at] = o /\ creates[p].code = items[o].code

GaugeInv == TickerInv /\ EntryInv /\ SeriesInv /\ (\A p \in Creator : Marked(p)) /\ (\A o \in Pair : Has(o) => Shown(o))

IInv == TypeOK /\ Link /\ GaugeInv

\* The parameters, and the places of the order.
LEMMA Sane ==
  /\ TTL \in Nat \ {0} /\ Interval \in Nat \ {0} /\ Limit \in Nat \ {0} /\ MaxFaults \in Nat
  /\ "none" \notin Codes /\ \A i \in DOMAIN Order : Order[i] \in Pair /\ i # 0
<1>1. DOMAIN Order = 1 .. Len(Order) /\ Len(Order) \in Nat
  BY ParametersAreSane
<1> QED BY <1>1, ParametersAreSane DEF Pair

\* What the type invariant says of one entry.
LEMMA EntryFacts ==
  ASSUME TypeOK, NEW o \in Pair
  PROVE  /\ items[o].left \in Int
         /\ items[o] # NoEntry => items[o].code \in Codes
<1>1. items[o] \in Entry
  BY DEF TypeOK
<1> QED BY <1>1, Sane DEF Entry, NoEntry

\* A fresh Create is well formed.
LEMMA NoCreateType == \A got \in {"error", "server"} : NoCreate(got) \in CreateRec /\ NoCreate(got).pc = "idle"
  BY Sane DEF NoCreate, CreateRec

\* A process starts with an empty map and an empty gauge.
LEMMA InitEstablishes == Init => IInv
<1> SUFFICES ASSUME Init PROVE IInv
  OBVIOUS
<1>1. /\ sync.pc = "wait" /\ sync.todo = {} /\ sync.left = Interval /\ gauge = {}
      /\ \A o \in Pair : items[o] = NoEntry /\ failed[o] = TTL
      /\ \A p \in Creator : creates[p] = NoCreate("error")
  BY DEF Init
<1>2. TypeOK
  <2>1. sync \in [pc : {"wait", "snapshot", "set"}, todo : SUBSET Series, left : 0 .. Interval]
    BY Sane DEF Init
  <2>2. creates \in [Creator -> CreateRec]
    BY NoCreateType DEF Init
  <2>3. items \in [Pair -> Entry] /\ failed \in [Pair -> 0 .. TTL]
    BY Sane DEF Init, Entry
  <2> QED BY <2>1, <2>2, <2>3, Sane DEF Init, TypeOK
<1>3. Link
  BY <1>1 DEF Link, LinkOf
<1>4. GaugeInv
  BY <1>1, Sane, NoCreateType DEF GaugeInv, TickerInv, EntryInv, SeriesInv, Marked, Shown, Has
<1> QED BY <1>2, <1>3, <1>4 DEF IInv

\* A Create that neither marks nor owes the gauge a series disturbs nothing else.
LEMMA QuietCreate ==
  ASSUME IInv, NEW p \in Creator, NEW c \in CreateRec, creates[p].pc # "gauge", c.pc # "gauge",
         creates' = [creates EXCEPT ![p] = c], faults' \in 0 .. MaxFaults, quota' \in 0 .. TTL,
         UNCHANGED <<stock, items, gauge, sync, failed>>
  PROVE  IInv'
<1>0. /\ stock' = stock /\ items' = items /\ gauge' = gauge /\ sync' = sync /\ failed' = failed
      /\ TypeOK /\ Link /\ GaugeInv
  BY DEF IInv
<1>1. TypeOK'
  BY <1>0 DEF TypeOK
<1>2. Link'
  BY <1>0 DEF Link
<1>3. TickerInv' /\ EntryInv' /\ SeriesInv'
  BY <1>0 DEF GaugeInv, TickerInv, EntryInv, SeriesInv, Vouched
<1>4. \A q \in Creator : /\ q # p => creates'[q] = creates[q]
                         /\ q = p => creates'[q].pc # "gauge"
  BY DEF IInv, TypeOK
<1>5. \A q \in Creator : Marked(q)'
  BY <1>0, <1>4 DEF GaugeInv, Marked
<1>6. ASSUME NEW o \in Pair, Has(o)' PROVE Shown(o)'
  <2>1. Has(o)
    BY <1>0, <1>6 DEF Has
  <2>2. Shown(o)
    BY <1>0, <2>1 DEF GaugeInv
  <2> QED BY <1>0, <1>4, <2>2 DEF Shown
<1> QED BY <1>1, <1>2, <1>3, <1>5, <1>6 DEF IInv, GaugeInv

\* Listing the candidates reads the map and changes nothing but the Create.
LEMMA BeginPreserves == ASSUME IInv, NEW p \in Creator, Begin(p) PROVE IInv'
<1> DEFINE open == {i \in DOMAIN Order : ~Has(Order[i])}
           c == IF open = {} THEN NoCreate("error") ELSE [NoCreate("error") EXCEPT !.pc = "order", !.open = open, !.tries = 1]
<1>1. c \in CreateRec /\ c.pc # "gauge"
  <2>1. 1 \in 0 .. Limit
    BY Sane
  <2> QED BY <2>1, NoCreateType DEF NoCreate, CreateRec
<1>2. creates' = [creates EXCEPT ![p] = c]
  BY DEF Begin
<1> HIDE DEF c
<1> QED BY <1>1, <1>2, QuietCreate DEF Begin, IInv, TypeOK

\* A capacity failure: the map and the history take the pair's new end together.
LEMMA MarkPreserves ==
  ASSUME IInv, NEW p \in Creator, NEW i \in creates[p].open, NEW code \in Codes, creates[p].pc = "order",
         items' = Mark(Order[i], code), failed' = [failed EXCEPT ![Order[i]] = 0],
         creates' = [creates EXCEPT ![p] = [creates[p] EXCEPT !.pc = "gauge", !.open = @ \ {i}, !.at = i, !.code = code, !.spent = 0]],
         UNCHANGED <<stock, gauge, sync, faults, quota>>
  PROVE  IInv'
<1> DEFINE o == Order[i]
           e == [left |-> TTL, code |-> code]
<1>0. /\ stock' = stock /\ gauge' = gauge /\ sync' = sync /\ faults' = faults /\ quota' = quota
      /\ TypeOK /\ Link /\ GaugeInv
  BY DEF IInv
<1>1. i \in DOMAIN Order /\ i # 0 /\ o \in Pair
  BY <1>0, Sane DEF TypeOK, CreateRec
<1>2. TTL \in Nat \ {0} /\ Interval \in Nat /\ 0 \in 0 .. TTL
  BY Sane
<1>3. e \in Entry /\ e # NoEntry /\ e.left = TTL /\ e.code = code
  <2>1. e.left # NoEntry.left
    BY <1>2, Sane DEF NoEntry
  <2> QED BY <1>2, <2>1 DEF Entry
<1> HIDE DEF o, e
<1>4. /\ items' = [items EXCEPT ![o] = e] /\ failed' = [failed EXCEPT ![o] = 0]
  BY DEF Mark, o, e
<1>5. \A x \in Pair : /\ x = o => items'[x] = e /\ failed'[x] = 0
                      /\ x # o => items'[x] = items[x] /\ failed'[x] = failed[x]
  BY <1>0, <1>4 DEF TypeOK
<1>6. /\ creates'[p].pc = "gauge" /\ creates'[p].at = i /\ creates'[p].code = code /\ creates' \in [Creator -> CreateRec]
      /\ \A q \in Creator : q # p => creates'[q] = creates[q]
  <2> DEFINE c == [creates[p] EXCEPT !.pc = "gauge", !.open = @ \ {i}, !.at = i, !.code = code, !.spent = 0]
  <2>1. creates[p] \in CreateRec
    BY <1>0 DEF TypeOK
  <2>2. c \in CreateRec /\ c.pc = "gauge" /\ c.at = i /\ c.code = code
    BY <1>1, <2>1 DEF CreateRec
  <2>3. creates' = [creates EXCEPT ![p] = c]
    OBVIOUS
  <2> HIDE DEF c
  <2> QED BY <1>0, <2>2, <2>3 DEF TypeOK
<1>7. TypeOK'
  <2>1. items' \in [Pair -> Entry]
    BY <1>0, <1>1, <1>3, <1>4 DEF TypeOK
  <2>2. failed' \in [Pair -> 0 .. TTL]
    BY <1>0, <1>1, <1>2, <1>4 DEF TypeOK
  <2> QED BY <1>0, <1>6, <2>1, <2>2 DEF TypeOK
<1>8. Link'
  <2>1. LinkOf(e, 0)
    BY <1>2, <1>3 DEF LinkOf
  <2> QED BY <1>0, <1>5, <2>1 DEF Link
<1>9. TickerInv'
  BY <1>0 DEF GaugeInv, TickerInv
<1>n. sync.left \in Nat /\ sync.left <= Interval
  BY <1>0, Sane DEF TypeOK
<1>10. EntryInv'
  BY <1>0, <1>2, <1>3, <1>5, <1>n, Sane DEF GaugeInv, EntryInv
<1>11. SeriesInv'
  <2> SUFFICES ASSUME NEW s \in gauge \cup sync.todo
               PROVE  /\ items'[s[1]] # NoEntry
                      /\ sync.left <= Interval + Vouched(s)'
                      /\ sync.pc # "wait" => 0 <= Vouched(s)' /\ 0 < items'[s[1]].left
    BY <1>0 DEF SeriesInv
  <2>1. s[1] \in Pair
    BY <1>0 DEF TypeOK, Series
  <2>2. CASE s[1] = o
    <3>1. items'[s[1]] = e
      BY <1>5, <2>1, <2>2
    <3>2. Vouched(s)' = IF e.code = s[2] THEN e.left ELSE e.left - TTL
      BY <3>1 DEF Vouched
    <3>3. Vouched(s)' \in Int /\ 0 <= Vouched(s)'
      BY <3>2, <1>2, <1>3, Sane
    <3> QED BY <3>1, <3>3, <1>2, <1>3, <1>n, Sane
  <2>3. CASE s[1] # o
    BY <1>0, <1>5, <2>1, <2>3 DEF GaugeInv, SeriesInv, Vouched
  <2> QED BY <2>2, <2>3
<1>12. ASSUME NEW q \in Creator PROVE Marked(q)'
  <2>1. CASE q = p
    BY <1>0, <1>1, <1>3, <1>5, <1>6, <2>1 DEF Marked, o
  <2>2. ASSUME q # p, creates[q].pc = "gauge"
        PROVE  Marked(q)'
    <3>1. /\ creates'[q] = creates[q] /\ creates[q].at \in DOMAIN Order
          /\ items[Order[creates[q].at]] # NoEntry /\ items[Order[creates[q].at]].left = TTL
          /\ creates[q].at # 0 /\ creates[q].code \in Codes
      BY <1>0, <1>6, <2>2 DEF GaugeInv, Marked, TypeOK, CreateRec
    <3>2. Order[creates[q].at] \in Pair
      BY <3>1, Sane
    <3> QED BY <1>0, <1>3, <1>5, <3>1, <3>2 DEF Marked
  <2>3. CASE q # p /\ creates[q].pc # "gauge"
    BY <1>6, <2>3 DEF Marked
  <2> QED BY <2>1, <2>2, <2>3
<1>13. ASSUME NEW x \in Pair, Has(x)' PROVE Shown(x)'
  <2>1. CASE x = o
    BY <1>3, <1>5, <1>6, <2>1 DEF Shown, o
  <2>2. CASE x # o
    <3>1. items'[x] = items[x] /\ Has(x)
      BY <1>0, <1>5, <1>13, <2>2 DEF Has
    <3>2. Shown(x)
      BY <1>0, <3>1 DEF GaugeInv
    <3>3. ASSUME NEW q \in Creator, creates[q].pc = "gauge" PROVE creates'[q] = creates[q]
      BY <1>6, <3>3
    <3> QED BY <1>0, <3>1, <3>2, <3>3 DEF Shown
  <2> QED BY <2>1, <2>2
<1> QED BY <1>7, <1>8, <1>9, <1>10, <1>11, <1>12, <1>13 DEF IInv, GaugeInv

\* An order marks its pair at the clock, or leaves the map alone.
LEMMA PlacePreserves == ASSUME IInv, NEW p \in Creator, Place(p) PROVE IInv'
<1>0. creates[p].pc = "order" /\ UNCHANGED <<stock, gauge, sync>>
  BY DEF Place
<1>1. ASSUME NEW got \in {"error", "server"}, creates' = [creates EXCEPT ![p] = NoCreate(got)], UNCHANGED <<items, failed>>,
             faults' = faults \/ (faults < MaxFaults /\ faults' = faults + 1), quota' \in {0, quota}
      PROVE  IInv'
  <2>1. faults' \in 0 .. MaxFaults /\ quota' \in 0 .. TTL
    BY <1>1, Sane DEF IInv, TypeOK
  <2>2. NoCreate(got) \in CreateRec /\ NoCreate(got).pc # "gauge"
    BY <1>1, NoCreateType
  <2> QED BY <1>0, <1>1, <2>1, <2>2, QuietCreate
<1>2. ASSUME NEW i \in creates[p].open, NEW code \in Codes,
             items' = Mark(Order[i], code), failed' = [failed EXCEPT ![Order[i]] = 0],
             creates' = [creates EXCEPT ![p] = [creates[p] EXCEPT !.pc = "gauge", !.open = @ \ {i}, !.at = i, !.code = code, !.spent = 0]],
             faults' = faults, quota' = quota
      PROVE  IInv'
  BY <1>0, <1>2, MarkPreserves
<1> QED
  BY <1>1, <1>2 DEF Place, CapacityCodes

\* The series a Create owes stands, and the next candidate is up, or the Create ends.
LEMMA FallThroughPreserves == ASSUME IInv, NEW p \in Creator, FallThrough(p) PROVE IInv'
<1> DEFINE c == creates[p]
           o == Order[c.at]
           n == IF c.tries < Limit /\ c.open # {} THEN [c EXCEPT !.pc = "order", !.tries = @ + 1] ELSE NoCreate("error")
<1>0. /\ stock' = stock /\ items' = items /\ sync' = sync /\ faults' = faults /\ failed' = failed /\ quota' = quota
      /\ gauge' = gauge \cup {<<o, c.code>>} /\ creates' = [creates EXCEPT ![p] = n] /\ c.pc = "gauge"
      /\ TypeOK /\ Link /\ GaugeInv
  BY DEF IInv, FallThrough
<1>1. n \in CreateRec /\ n.pc # "gauge"
  <2>1. c \in CreateRec
    BY <1>0 DEF TypeOK
  <2>2. CASE c.tries < Limit
    <3>1. c.tries + 1 \in 0 .. Limit
      BY <2>1, <2>2, Sane DEF CreateRec
    <3> HIDE DEF c
    <3> QED BY <2>1, <3>1, NoCreateType DEF CreateRec
  <2>3. CASE ~ (c.tries < Limit)
    BY <2>3, NoCreateType
  <2> QED BY <2>2, <2>3
<1>2. c.at \in DOMAIN Order /\ c.code \in Codes /\ items[o] # NoEntry /\ items[o].left = TTL
  BY <1>0 DEF GaugeInv, Marked, TypeOK, CreateRec
<1>3. o \in Pair /\ <<o, c.code>> \in Series
  BY <1>2, Sane DEF Series
<1>4. \A q \in Creator : /\ q # p => creates'[q] = creates[q]
                         /\ q = p => creates'[q].pc # "gauge"
  BY <1>0, <1>1 DEF TypeOK
<1> HIDE DEF n
<1>5. TypeOK'
  <2>1. gauge' \subseteq Series
    BY <1>0, <1>3 DEF TypeOK
  <2>2. creates' \in [Creator -> CreateRec]
    BY <1>0, <1>1 DEF TypeOK
  <2> QED BY <1>0, <2>1, <2>2 DEF TypeOK
<1> HIDE DEF c, o
<1>6. Link'
  BY <1>0 DEF Link
<1>7. TickerInv' /\ EntryInv'
  BY <1>0 DEF GaugeInv, TickerInv, EntryInv
<1>8. SeriesInv'
  <2> SUFFICES ASSUME NEW s \in gauge' \cup sync.todo
               PROVE  /\ items[s[1]] # NoEntry
                      /\ sync.left <= Interval + Vouched(s)
                      /\ sync.pc # "wait" => 0 <= Vouched(s) /\ 0 < items[s[1]].left
    BY <1>0 DEF SeriesInv, Vouched
  <2>1. CASE s = <<o, c.code>>
    <3>1. sync.left \in Nat /\ sync.left <= Interval
      BY <1>0, Sane DEF TypeOK
    <3>2. s[1] = o
      BY <2>1
    <3>3. Vouched(s) \in Int /\ 0 <= Vouched(s)
      BY <1>2, <3>1, <3>2, Sane DEF Vouched
    <3> QED BY <1>2, <3>1, <3>2, <3>3, Sane
  <2>2. CASE s # <<o, c.code>>
    BY <1>0, <2>2 DEF GaugeInv, SeriesInv
  <2> QED BY <2>1, <2>2
<1>9. \A q \in Creator : Marked(q)'
  BY <1>0, <1>4 DEF GaugeInv, Marked
<1>10. ASSUME NEW x \in Pair, Has(x)' PROVE Shown(x)'
  <2>1. Shown(x)
    BY <1>0, <1>10 DEF GaugeInv, Has
  <2>2. ASSUME creates[p].pc = "gauge" /\ Order[creates[p].at] = x /\ creates[p].code = items[x].code
        PROVE  <<x, items[x].code>> \in gauge'
    BY <1>0, <2>2 DEF c, o
  <2> QED BY <1>0, <1>4, <2>1, <2>2 DEF Shown
<1> QED BY <1>5, <1>6, <1>7, <1>8, <1>9, <1>10 DEF IInv, GaugeInv

\* The reset takes every series away; the snapshot to come makes up for it.
LEMMA SyncResetPreserves == ASSUME IInv, SyncReset PROVE IInv'
<1>0. /\ stock' = stock /\ items' = items /\ creates' = creates /\ faults' = faults /\ failed' = failed /\ quota' = quota
      /\ gauge' = {} /\ sync' = [sync EXCEPT !.pc = "snapshot"] /\ sync.left = 0 /\ sync.pc = "wait"
      /\ TypeOK /\ Link /\ GaugeInv
  BY DEF IInv, SyncReset
<1>1. sync'.pc = "snapshot" /\ sync'.todo = sync.todo /\ sync'.left = sync.left /\ TypeOK'
  BY <1>0 DEF TypeOK
<1>2. sync.todo = {}
  BY <1>0 DEF GaugeInv, TickerInv
<1>3. Link' /\ TickerInv' /\ EntryInv' /\ SeriesInv' /\ \A q \in Creator : Marked(q)'
  BY <1>0, <1>1, <1>2 DEF Link, GaugeInv, TickerInv, EntryInv, SeriesInv, Marked
<1>4. \A o \in Pair : Shown(o)'
  BY <1>1 DEF Shown
<1> QED BY <1>1, <1>3, <1>4 DEF IInv, GaugeInv

\* Snapshot removes the entries that have run out, and no other: none that a series
\* set since the reset, or a Create, relies on.
LEMMA SnapshotPreserves == ASSUME IInv, Snapshot PROVE IInv'
<1> DEFINE todo == {<<o, Reaped[o].code>> : o \in {x \in Pair : Reaped[x] # NoEntry}}
<1>0. /\ stock' = stock /\ gauge' = gauge /\ creates' = creates /\ faults' = faults /\ failed' = failed /\ quota' = quota
      /\ items' = Reaped /\ sync' = [sync EXCEPT !.pc = "set", !.todo = todo] /\ sync.pc = "snapshot"
      /\ TypeOK /\ Link /\ GaugeInv
  BY DEF IInv, Snapshot
<1>1. \A o \in Pair : Reaped[o] = (IF Has(o) THEN items[o] ELSE NoEntry) /\ (Has(o) => items[o] # NoEntry) /\ items'[o] = Reaped[o]
  <2> SUFFICES ASSUME NEW o \in Pair
               PROVE  Reaped[o] = (IF Has(o) THEN items[o] ELSE NoEntry) /\ (Has(o) => items[o] # NoEntry)
    BY <1>0
  <2>1. items[o].left \in Int
    BY <1>0, EntryFacts
  <2> QED BY <2>1 DEF Reaped, Has, Expired
<1>2. todo \subseteq Series
  BY <1>0, <1>1, EntryFacts DEF Series
<1>3. ASSUME NEW s \in todo
      PROVE  s[1] \in Pair /\ Has(s[1]) /\ s[2] = items[s[1]].code
  BY <1>1
<1>4. \A o \in Pair : Has(o) => <<o, items[o].code>> \in todo
  BY <1>1
<1> HIDE DEF todo
<1>5. sync'.pc = "set" /\ sync'.todo = todo /\ sync'.left = sync.left /\ TypeOK'
  <2>1. items' \in [Pair -> Entry]
    BY <1>0 DEF Reaped, TypeOK, Entry
  <2> QED BY <1>0, <1>2, <2>1 DEF TypeOK
<1>6. sync.left = 0
  BY <1>0 DEF TypeOK, GaugeInv, TickerInv
<1>7. Link'
  <2> SUFFICES ASSUME NEW o \in Pair PROVE LinkOf(items'[o], failed[o])
    BY <1>0 DEF Link
  <2>1. LinkOf(items[o], failed[o])
    BY <1>0 DEF Link
  <2>2. items[o].left \in Int /\ items'[o] = (IF Has(o) THEN items[o] ELSE NoEntry)
    BY <1>0, <1>1, EntryFacts
  <2> QED BY <2>1, <2>2 DEF Has, LinkOf
<1>8. TickerInv'
  BY <1>0, <1>5 DEF GaugeInv, TickerInv
<1>9. EntryInv'
  BY <1>0, <1>1, <1>5 DEF GaugeInv, EntryInv, Has
<1>10. SeriesInv'
  <2> SUFFICES ASSUME NEW s \in gauge \cup todo
               PROVE  /\ items'[s[1]] # NoEntry
                      /\ sync.left <= Interval + Vouched(s)'
                      /\ 0 <= Vouched(s)' /\ 0 < items'[s[1]].left
    BY <1>0, <1>5 DEF SeriesInv
  <2>1. s[1] \in Pair
    BY <1>0, <1>3 DEF TypeOK, Series
  <2>2. Has(s[1]) /\ 0 <= Vouched(s) /\ Vouched(s) \in Int
    <3>0. items[s[1]].left \in Int
      BY <1>0, <2>1, EntryFacts
    <3>1. CASE s \in gauge
      BY <1>0, <3>0, <3>1, Sane DEF GaugeInv, SeriesInv, Has, Vouched
    <3>2. CASE s \in todo
      BY <1>3, <1>6, <3>0, <3>2 DEF Has, Vouched
    <3> QED BY <3>1, <3>2
  <2>3. items'[s[1]] = items[s[1]] /\ Vouched(s)' = Vouched(s)
    BY <1>1, <2>1, <2>2 DEF Vouched
  <2> QED BY <1>6, <2>2, <2>3, Sane DEF Has
<1>11. ASSUME NEW q \in Creator PROVE Marked(q)'
  <2> SUFFICES ASSUME creates[q].pc = "gauge" PROVE Marked(q)'
    BY <1>0 DEF Marked
  <2> DEFINE o == Order[creates[q].at]
  <2>1. /\ creates[q].at # 0 /\ creates[q].at \in DOMAIN Order /\ creates[q].code \in Codes
        /\ items[o] # NoEntry /\ items[o].left = TTL
    BY <1>0 DEF GaugeInv, Marked, TypeOK, CreateRec
  <2>2. o \in Pair
    BY <2>1, Sane
  <2>3. Has(o)
    BY <1>6, <2>1, Sane DEF Has
  <2> QED BY <1>0, <1>1, <2>1, <2>2, <2>3 DEF Marked
<1>12. ASSUME NEW o \in Pair, Has(o)' PROVE Shown(o)'
  <2>1. Has(o) /\ items'[o] = items[o]
    BY <1>0, <1>1, <1>12 DEF Has
  <2> QED BY <1>4, <1>5, <2>1 DEF Shown
<1> QED BY <1>5, <1>7, <1>8, <1>9, <1>10, <1>11, <1>12 DEF IInv, GaugeInv

\* Setting the gauge from the snapshot leaves the map alone.
LEMMA SyncSetPreserves == ASSUME IInv, SyncSet PROVE IInv'
<1>0. /\ stock' = stock /\ items' = items /\ creates' = creates /\ faults' = faults /\ failed' = failed /\ quota' = quota
      /\ gauge' = gauge \cup sync.todo /\ sync' = [pc |-> "wait", todo |-> {}, left |-> Interval] /\ sync.pc = "set"
      /\ TypeOK /\ Link /\ GaugeInv
  BY DEF IInv, SyncSet
<1>1. Interval \in 0 .. Interval
  BY Sane
<1>2. sync'.pc = "wait" /\ sync'.todo = {} /\ sync'.left = Interval
  BY <1>0
<1>3. TypeOK'
  <2>1. sync' \in [pc : {"wait", "snapshot", "set"}, todo : SUBSET Series, left : 0 .. Interval]
    BY <1>0, <1>1
  <2>2. gauge' \subseteq Series
    BY <1>0 DEF TypeOK
  <2> QED BY <1>0, <2>1, <2>2 DEF TypeOK
<1>4. Link' /\ TickerInv' /\ \A q \in Creator : Marked(q)'
  BY <1>0, <1>1, <1>2, Sane DEF Link, GaugeInv, TickerInv, Marked
<1>5. EntryInv'
  <2> SUFFICES ASSUME NEW o \in Pair, items[o] # NoEntry PROVE Interval <= items[o].left + Interval
    BY <1>0, <1>2 DEF EntryInv
  <2>1. items[o].left \in Int /\ 0 < items[o].left
    BY <1>0, EntryFacts DEF GaugeInv, EntryInv
  <2> QED BY <1>1, <2>1, Sane
<1>6. SeriesInv'
  <2> SUFFICES ASSUME NEW s \in gauge \cup sync.todo
               PROVE  items[s[1]] # NoEntry /\ Interval <= Interval + Vouched(s)
    BY <1>0, <1>2 DEF SeriesInv, Vouched
  <2>1. s[1] \in Pair
    BY <1>0 DEF TypeOK, Series
  <2>2. Vouched(s) \in Int
    BY <1>0, <2>1, EntryFacts, Sane DEF Vouched
  <2>3. items[s[1]] # NoEntry /\ 0 <= Vouched(s)
    BY <1>0 DEF GaugeInv, SeriesInv
  <2> QED BY <1>1, <2>2, <2>3, Sane
<1>7. ASSUME NEW o \in Pair, Has(o)' PROVE Shown(o)'
  <2>1. Shown(o)
    BY <1>0, <1>7 DEF GaugeInv, Has
  <2> QED BY <1>0, <1>2, <2>1 DEF Shown
<1> QED BY <1>3, <1>4, <1>5, <1>6, <1>7 DEF IInv, GaugeInv

\* A failure and its entry age together.
LEMMA LinkAges ==
  ASSUME NEW e \in Entry, NEW age \in 0 .. TTL, LinkOf(e, age)
  PROVE  LinkOf(IF e = NoEntry THEN NoEntry ELSE [e EXCEPT !.left = @ - 1], Older(age))
<1>1. CASE e = NoEntry
  BY <1>1, Sane DEF LinkOf, Older
<1>2. CASE e # NoEntry
  <2> DEFINE d == [e EXCEPT !.left = @ - 1]
  <2>1. d.left = e.left - 1 /\ d.code = e.code /\ e.code # "none" /\ e.left \in Int
    BY <1>2, Sane DEF Entry
  <2>2. d # NoEntry
    BY <2>1 DEF NoEntry
  <2> HIDE DEF d
  <2>3. LinkOf(d, Older(age))
    BY <1>2, <2>1, <2>2, Sane DEF LinkOf, Older
  <2> QED BY <1>2, <2>3 DEF d
<1> QED BY <1>1, <1>2

\* Time makes failures older, and passes only while nobody owes the gauge anything.
LEMMA TickPreserves == ASSUME IInv, Tick PROVE IInv'
<1>0. /\ stock' = stock /\ faults' = faults /\ gauge' = gauge /\ sync' = [sync EXCEPT !.left = @ - 1]
      /\ sync.pc = "wait" /\ sync.left > 0 /\ quota' = Older(quota)
      /\ items' = [o \in Pair |-> IF items[o] = NoEntry THEN NoEntry ELSE [items[o] EXCEPT !.left = @ - 1]]
      /\ failed' = [o \in Pair |-> Older(failed[o])]
      /\ TypeOK /\ Link /\ GaugeInv
  BY DEF IInv, Tick
<1>1. sync' \in [pc : {"wait", "snapshot", "set"}, todo : SUBSET Series, left : 0 .. Interval]
      /\ sync'.pc = "wait" /\ sync'.todo = {} /\ sync'.left = sync.left - 1 /\ sync.left \in 0 .. Interval /\ sync.todo = {}
  BY <1>0, Sane DEF TypeOK, GaugeInv, TickerInv
<1>2. \A o \in Pair : /\ items[o] = NoEntry => items'[o] = NoEntry
                      /\ items[o] # NoEntry => /\ items'[o] # NoEntry /\ items'[o] \in Entry
                                               /\ items'[o].left = items[o].left - 1 /\ items'[o].code = items[o].code
                                               /\ items[o].left \in Int
  <2> SUFFICES ASSUME NEW o \in Pair, items[o] # NoEntry
               PROVE  /\ items'[o] # NoEntry /\ items'[o] \in Entry
                      /\ items'[o].left = items[o].left - 1 /\ items'[o].code = items[o].code /\ items[o].left \in Int
    BY <1>0
  <2>1. items[o] \in [left : Int, code : Codes]
    BY <1>0 DEF TypeOK, Entry
  <2>2. items'[o] = [items[o] EXCEPT !.left = @ - 1]
    BY <1>0
  <2>3. items'[o].left = items[o].left - 1 /\ items'[o].code = items[o].code /\ items'[o] \in [left : Int, code : Codes]
    BY <2>1, <2>2
  <2> QED BY <2>1, <2>3, Sane DEF Entry, NoEntry
<1>3. \A p \in Creator : creates[p].pc # "gauge" /\ creates'[p].pc = creates[p].pc /\ creates'[p] \in CreateRec
  <2> SUFFICES ASSUME NEW p \in Creator
               PROVE  creates[p].pc # "gauge" /\ creates'[p].pc = creates[p].pc /\ creates'[p] \in CreateRec
    OBVIOUS
  <2>1. creates[p] \in CreateRec /\ creates[p].pc # "gauge"
    BY <1>0 DEF TypeOK, Tick, MayLast
  <2>2. creates'[p] = creates[p] \/ creates'[p] = [creates[p] EXCEPT !.spent = @ + 1]
    BY DEF Tick
  <2>3. creates[p].spent + 1 \in Nat
    BY <2>1 DEF CreateRec
  <2> QED BY <2>1, <2>2, <2>3 DEF CreateRec
<1>4. TypeOK'
  <2>1. items' \in [Pair -> Entry]
    BY <1>0, <1>2 DEF Entry
  <2>2. failed' \in [Pair -> 0 .. TTL] /\ quota' \in 0 .. TTL
    BY <1>0, Sane DEF TypeOK, Older
  <2>3. creates' \in [Creator -> CreateRec]
    BY <1>3 DEF Tick
  <2> QED BY <1>0, <1>1, <2>1, <2>2, <2>3 DEF TypeOK
<1>5. Link'
  BY <1>0, LinkAges DEF Link, TypeOK
<1>6. TickerInv' /\ \A q \in Creator : Marked(q)'
  BY <1>1, <1>3 DEF TickerInv, Marked
<1>7. EntryInv'
  BY <1>0, <1>1, <1>2, Sane DEF GaugeInv, EntryInv
<1>8. SeriesInv'
  <2> SUFFICES ASSUME NEW s \in gauge PROVE items'[s[1]] # NoEntry /\ sync'.left <= Interval + Vouched(s)'
    BY <1>0, <1>1 DEF SeriesInv
  <2>1. s[1] \in Pair
    BY <1>0 DEF TypeOK, Series
  <2>2. items[s[1]] # NoEntry /\ sync.left <= Interval + Vouched(s)
    BY <1>0 DEF GaugeInv, SeriesInv
  <2>3. Vouched(s) \in Int /\ Vouched(s)' = Vouched(s) - 1
    BY <1>2, <2>1, <2>2, Sane DEF Vouched
  <2> QED BY <1>1, <1>2, <2>1, <2>2, <2>3, Sane
<1>9. ASSUME NEW o \in Pair, Has(o)' PROVE Shown(o)'
  <2>1. items[o] # NoEntry /\ items'[o].code = items[o].code /\ Has(o)
    BY <1>2, <1>9 DEF Has
  <2>2. <<o, items[o].code>> \in gauge
    BY <1>0, <1>1, <1>3, <2>1 DEF GaugeInv, Shown
  <2> QED BY <1>0, <2>1, <2>2 DEF Shown
<1> QED BY <1>4, <1>5, <1>6, <1>7, <1>8, <1>9 DEF IInv, GaugeInv

\* Every step keeps map, history and gauge in line.
LEMMA NextPreserves == IInv /\ [Next]_vars => IInv'
<1> SUFFICES ASSUME IInv, [Next]_vars PROVE IInv'
  OBVIOUS
<1>1. CASE UNCHANGED vars
  BY <1>1 DEF vars, IInv, TypeOK, Link, GaugeInv, TickerInv, EntryInv, SeriesInv, Vouched, Marked, Has, Shown
<1> QED
  BY <1>1, BeginPreserves, PlacePreserves, FallThroughPreserves, SyncResetPreserves, SnapshotPreserves,
     SyncSetPreserves, TickPreserves DEF Next, Create, Sync

\* Entries and history say the same of every pair, at any instant.
LEMMA ExactWhenLinked == IInv => SuppressionIsExact
<1> SUFFICES ASSUME TypeOK, Link, NEW o \in Pair PROVE Has(o) <=> Recent(o)
  BY DEF IInv, SuppressionIsExact
<1>1. failed[o] \in Nat /\ items[o].left \in Int /\ LinkOf(items[o], failed[o])
  BY EntryFacts, Sane DEF TypeOK, Link
<1> QED BY <1>1, Sane DEF LinkOf, Has, Recent

\* The map, the rebuild, the history and the Creates keep their types.
THEOREM TypeCorrect == Spec => []TypeOK
<1>1. IInv => TypeOK
  BY DEF IInv
<1> QED
  BY <1>1, InitEstablishes, NextPreserves, PTL DEF Spec

\* A capacity failure suppresses its pair for a TTL and no other failure but those
\* the comments widen does, whichever way Creates mark and the ticker reaps.
THEOREM SuppressedForATTL == Spec => []SuppressionIsExact
  BY InitEstablishes, NextPreserves, ExactWhenLinked, PTL DEF Spec

\* Between rebuilds the gauge shows every suppressed pair under its code, and no
\* series, nor any entry of the map, outlives its reason by more than an interval,
\* however Creates' writes fall between the rebuild's reset, snapshot and sets.
THEOREM GaugeIsRight == Spec => []GaugeFollowsSuppression
<1>1. ASSUME IInv PROVE GaugeFollowsSuppression
  <2>0. TypeOK /\ GaugeInv /\ sync.left \in Nat
    BY <1>1, Sane DEF IInv, TypeOK, GaugeInv, TickerInv
  <2>1. ASSUME Quiet, NEW o \in Pair, Has(o) PROVE <<o, items[o].code>> \in gauge
    BY <2>0, <2>1 DEF Quiet, GaugeInv, Shown, TickerInv
  <2>2. ASSUME NEW o \in Pair, items[o] # NoEntry PROVE items[o].left + Interval >= 0
    <3>1. items[o].left \in Int /\ sync.left <= items[o].left + Interval
      BY <2>0, <2>2, EntryFacts DEF GaugeInv, EntryInv
    <3> QED BY <2>0, <3>1, Sane
  <2>3. ASSUME NEW s \in gauge PROVE items[s[1]] # NoEntry /\ Interval + Vouched(s) >= 0
    <3>1. s[1] \in Pair
      BY <2>0 DEF TypeOK, Series
    <3>2. Vouched(s) \in Int
      BY <2>0, <3>1, EntryFacts, Sane DEF Vouched
    <3>3. items[s[1]] # NoEntry /\ sync.left <= Interval + Vouched(s)
      BY <2>0 DEF GaugeInv, SeriesInv
    <3> QED BY <2>0, <3>2, <3>3, Sane
  <2> QED BY <2>1, <2>2, <2>3 DEF GaugeFollowsSuppression, Vouched
<1> QED
  BY <1>1, InitEstablishes, NextPreserves, PTL DEF Spec
=============================================================================
