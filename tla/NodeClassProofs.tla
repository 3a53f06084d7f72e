--------------------------- MODULE NodeClassProofs ---------------------------
(***************************************************************************)
(* Proofs about NodeClass for any references, NodeClaims and bounds: the   *)
(* state keeps its types, a verdict is about the spec it names, a class    *)
(* outlives the NodeClaims launched from it, the controller implements     *)
(* ClassContract, and no outage takes a class's readiness away.            *)
(***************************************************************************)
EXTENDS NodeClass, TLAPS

Status == {"Unknown", "True", "False"}

\* The names of the references are not those of the two conditions computed
\* from them, and there is at least one reference (requiredConditions).
LEMMA KindFacts ==
  /\ Kind # {} /\ "ValidationSucceeded" \notin Kind /\ "Ready" \notin Kind
  /\ Kind \subseteq Condition /\ "ValidationSucceeded" \in Condition /\ "Ready" \in Condition
  /\ \A i \in 1 .. Len(Kinds) : Kinds[i] \in Kind
<1>1. /\ "ValidationSucceeded" \notin Kind /\ "Ready" \notin Kind
  BY ParametersAreSane DEF Kind
<1>2. Len(Kinds) \in Nat /\ DOMAIN Kinds = 1 .. Len(Kinds) /\ Len(Kinds) # 0
  BY ParametersAreSane
<1>3. 1 \in DOMAIN Kinds
  BY <1>2
<1> QED
  BY <1>1, <1>2, <1>3 DEF Kind, Condition

Same(s, o) ==
  s.exists = o.exists /\ s.rv = o.rv /\ s.gen = o.gen /\ s.fin = o.fin /\ s.deleting = o.deleting

\* Some condition the root depends on is False; all of them are True for the
\* object's generation.
Bad(o) == \E n \in Condition \ {"Ready"} : o.cond[n].st = "False"
Fine(o) == \A n \in Condition \ {"Ready"} : o.cond[n] = [st |-> "True", gen |-> o.gen]

IsSet(s, o, n, st) ==
  /\ s \in Object /\ Same(s, o) /\ s.res = o.res /\ s.loc = o.loc
  /\ s.cond[n] = [st |-> st, gen |-> o.gen]
  /\ \A m \in Condition \ {n, "Ready"} : s.cond[m] = o.cond[m]
  /\ s.cond["Ready"].gen = o.gen /\ s.cond["Ready"].st \in Status
  /\ s.cond["Ready"].st = "True" =>
       \A m \in Condition \ {"Ready"} : s.cond[m] = [st |-> "True", gen |-> o.gen]
  /\ s.cond["Ready"].st = "False" <=> Bad(s)
  /\ Fine(s) => s.cond["Ready"].st = "True"

\* ConditionSet.Set changes the condition it is given and the root, stamps both
\* with the object's generation, and leaves everything else of the object.
LEMMA SetFacts ==
  ASSUME NEW o \in Object, NEW n \in Condition \ {"Ready"}, NEW st \in Status
  PROVE  IsSet(Set(o, n, st), o, n, st)
<1> DEFINE c == [st |-> st, gen |-> o.gen]
           p == [o EXCEPT !.cond[n] = c]
           root == IF \E m \in Condition \ {"Ready"} : p.cond[m].st = "False" THEN "False"
                   ELSE IF \A m \in Condition \ {"Ready"} : p.cond[m] = [st |-> "True", gen |-> p.gen] THEN "True"
                   ELSE "Unknown"
           r == [st |-> root, gen |-> p.gen]
           s == [p EXCEPT !.cond["Ready"] = r]
<1>1. Set(o, n, st) = s
  BY DEF Set, RollUp
<1>2. c \in Cond /\ o.gen \in Generation
  BY DEF Object, Cond, Status
<1>3. /\ p \in Object
      /\ p.exists = o.exists /\ p.rv = o.rv /\ p.gen = o.gen /\ p.fin = o.fin
      /\ p.deleting = o.deleting /\ p.res = o.res /\ p.loc = o.loc
      /\ p.cond = [o.cond EXCEPT ![n] = c]
  BY <1>2 DEF Object
<1>4. root \in Status
  BY DEF Status
<1>5. r \in Cond /\ r.st = root /\ r.gen = o.gen
  BY <1>2, <1>3, <1>4 DEF Cond, Status
<1>6. /\ s \in Object
      /\ s.exists = p.exists /\ s.rv = p.rv /\ s.gen = p.gen /\ s.fin = p.fin
      /\ s.deleting = p.deleting /\ s.res = p.res /\ s.loc = p.loc
      /\ s.cond = [p.cond EXCEPT !["Ready"] = r]
  <2> HIDE DEF r
  <2> QED BY <1>3, <1>5, Zenon DEF Object
<1>7. o.cond \in [Condition -> Cond] /\ p.cond \in [Condition -> Cond]
  BY <1>3 DEF Object
<1>8. s.cond["Ready"] = r /\ \A m \in Condition \ {"Ready"} : s.cond[m] = p.cond[m]
  <2> HIDE DEF r, p
  <2> QED BY <1>6, <1>7, KindFacts
<1>9. p.cond[n] = c /\ \A m \in Condition \ {n} : p.cond[m] = o.cond[m]
  <2> HIDE DEF c
  <2> QED BY <1>3, <1>7
<1>10. root = "True" => \A m \in Condition \ {"Ready"} : p.cond[m] = [st |-> "True", gen |-> o.gen]
  BY <1>3
<1>13. root = "False" <=> \E m \in Condition \ {"Ready"} : p.cond[m].st = "False"
  OBVIOUS
<1>14. (\A m \in Condition \ {"Ready"} : p.cond[m] = [st |-> "True", gen |-> p.gen]) => root = "True"
  <2> SUFFICES ASSUME \A m \in Condition \ {"Ready"} : p.cond[m] = [st |-> "True", gen |-> p.gen] PROVE root = "True"
    OBVIOUS
  <2>1. \A m \in Condition \ {"Ready"} : p.cond[m].st = "True"
    OBVIOUS
  <2> HIDE DEF p
  <2> QED BY <2>1
<1> HIDE DEF s, p, c, root, r
<1>15. s.cond["Ready"].st = "False" <=> Bad(s)
  BY <1>5, <1>8, <1>13 DEF Bad
<1>16. Fine(s) => s.cond["Ready"].st = "True"
  BY <1>5, <1>6, <1>8, <1>14 DEF Fine
<1>11. s.cond["Ready"].st = "True" => \A m \in Condition \ {"Ready"} : s.cond[m] = [st |-> "True", gen |-> o.gen]
  BY <1>5, <1>8, <1>10
<1>12. s.cond[n] = c /\ \A m \in Condition \ {n, "Ready"} : s.cond[m] = o.cond[m]
  BY <1>8, <1>9
<1> QED
  BY <1>1, <1>3, <1>4, <1>5, <1>6, <1>8, <1>11, <1>12, <1>15, <1>16 DEF c, IsSet, Same

-----------------------------------------------------------------------------
(* What a copy of the object satisfies at each stage of a pass. *)

\* No condition is about a later generation than the object's, no reference was
\* resolved from one, and a reference that is True for this generation was
\* resolved from it.
Sound(o) ==
  /\ \A n \in Condition : o.cond[n].gen <= o.gen
  /\ \A k \in Kind : o.res[k] <= o.gen /\ (About(o, k) => o.res[k] = o.gen)

\* What VouchesForThisSpec says of the stored object, said of any copy.
Vouch(o) ==
  \A n \in {"ValidationSucceeded", "Ready"} :
    About(o, n) => o.loc = o.gen /\ \A k \in Kind : o.res[k] = o.gen /\ About(o, k)

\* Only a class that carries the finalizer was ever Ready.
Held(o) == o.cond["Ready"].st = "True" => o.fin

\* StatusConditions has run on it.
Constructed(o) == \A n \in Condition : o.cond[n].st \in Status

\* The root is a verdict on the object's own generation.
Verdict(o) == o.cond["Ready"].gen = o.gen /\ o.cond["Ready"].st \in Status

\* StatusConditions fills in what is absent and changes nothing else.
LEMMA ConstructorFacts ==
  ASSUME NEW o \in Object, Sound(o)
  PROVE  LET s == StatusConditions(o) IN
         s \in Object /\ Same(s, o) /\ Sound(s) /\ Constructed(s) /\ s.res = o.res
<1> DEFINE f == [n \in Condition |-> IF o.cond[n].st = "none" THEN [st |-> "Unknown", gen |-> o.gen] ELSE o.cond[n]]
           s == [o EXCEPT !.cond = f]
<1>1. StatusConditions(o) = s
  BY DEF StatusConditions
<1>2. f \in [Condition -> Cond]
  BY DEF Object, Cond
<1>3. \A n \in Condition : f[n].st \in Status /\ f[n].gen <= o.gen /\ (f[n].st = "True" => f[n] = o.cond[n])
  BY DEF Object, Cond, Status, Sound, Generation
<1> HIDE DEF f
<1>4. s \in Object /\ Same(s, o) /\ s.cond = f /\ s.res = o.res
  BY <1>2 DEF Object, Same
<1> HIDE DEF s
<1>5. Sound(s)
  BY <1>3, <1>4, KindFacts DEF Sound, About, Same
<1> QED
  BY <1>1, <1>3, <1>4, <1>5 DEF Constructed

\* Setting a condition to something that is not True keeps a copy sound, and
\* setting a reference's to True does if the reference was resolved now.
LEMMA SetKeepsSound ==
  ASSUME NEW o \in Object, NEW n \in Condition \ {"Ready"}, NEW st \in Status,
         Sound(o), Constructed(o),
         n \in Kind /\ st = "True" => o.res[n] = o.gen
  PROVE  LET s == Set(o, n, st) IN
         s \in Object /\ Same(s, o) /\ Sound(s) /\ Constructed(s) /\ Verdict(s)
<1> DEFINE s == Set(o, n, st)
<1>0. IsSet(s, o, n, st)
  BY SetFacts
<1> HIDE DEF s
<1>1. /\ s \in Object /\ Same(s, o) /\ s.res = o.res
      /\ s.cond[n] = [st |-> st, gen |-> o.gen]
      /\ \A m \in Condition \ {n, "Ready"} : s.cond[m] = o.cond[m]
      /\ s.cond["Ready"].gen = o.gen /\ s.cond["Ready"].st \in Status
  BY <1>0 DEF IsSet
<1>2. o.gen \in Nat
  BY DEF Object, Generation
<1>3. \A m \in Condition : s.cond[m].gen <= s.gen /\ s.cond[m].st \in Status
  <2> SUFFICES ASSUME NEW m \in Condition PROVE s.cond[m].gen <= s.gen /\ s.cond[m].st \in Status
    OBVIOUS
  <2>1. CASE m = n BY <1>1, <1>2, <2>1 DEF Same
  <2>2. CASE m = "Ready" BY <1>1, <1>2, <2>2 DEF Same
  <2>3. CASE m \notin {n, "Ready"} BY <1>1, <2>3 DEF Same, Sound, Constructed
  <2> QED BY <2>1, <2>2, <2>3
<1>4. ASSUME NEW k \in Kind PROVE s.res[k] <= s.gen /\ (About(s, k) => s.res[k] = s.gen)
  <2>1. k \in Condition /\ k # "Ready" BY KindFacts
  <2>2. CASE k = n BY <1>1, <2>2 DEF Same, Sound, About
  <2>3. CASE k # n BY <1>1, <2>1, <2>3 DEF Same, Sound, About
  <2> QED BY <2>2, <2>3
<1> QED
  BY <1>1, <1>3, <1>4 DEF Sound, Constructed, Verdict, Same, s

\* A sub-reconciler keeps the copy sound, whatever Hetzner answers.
LEMMA ResolvedFacts ==
  ASSUME NEW o \in Object, NEW k \in Kind, NEW answer \in {"good", "config", "transient"},
         Sound(o), Constructed(o)
  PROVE  /\ Resolved(o, k, answer) \in Object /\ Same(Resolved(o, k, answer), o)
         /\ Sound(Resolved(o, k, answer)) /\ Constructed(Resolved(o, k, answer))
<1>1. k \in Condition \ {"Ready"} /\ o.gen \in Generation /\ 0 \in Generation /\ o.gen \in Nat
  BY KindFacts, ParametersAreSane DEF Object, Generation
<1>2. ASSUME NEW g \in {0, o.gen}, NEW st \in Status \ {"Unknown"}, st = "True" => g = o.gen
      PROVE  LET s == Set([o EXCEPT !.res[k] = g], k, st) IN
             s \in Object /\ Same(s, o) /\ Sound(s) /\ Constructed(s)
  <2> DEFINE p == [o EXCEPT !.res[k] = g]
  <2>1. /\ p \in Object /\ Same(p, o) /\ p.cond = o.cond /\ p.res[k] = g
        /\ \A j \in Kind \ {k} : p.res[j] = o.res[j]
    BY <1>1 DEF Object, Same
  <2> HIDE DEF p
  <2>2. CASE st = "True" 
    <3>1. Sound(p) /\ Constructed(p)
      <4>1. \A j \in Kind : p.res[j] <= p.gen /\ (About(p, j) => p.res[j] = p.gen)
        BY <1>1, <1>2, <2>1, <2>2 DEF Sound, Same, About
      <4> QED BY <2>1, <4>1 DEF Sound, Constructed, Same
    <3>2. p.res[k] = p.gen
      BY <1>2, <2>1, <2>2 DEF Same
    <3>3. Set(p, k, st) \in Object /\ Same(Set(p, k, st), p) /\ Sound(Set(p, k, st)) /\ Constructed(Set(p, k, st))
      BY <1>1, <2>1, <3>1, <3>2, SetKeepsSound
    <3> QED BY <2>1, <3>3 DEF Same, p
  <2>3. CASE st = "False"
    <3> DEFINE s == Set(p, k, st)
    <3>1. IsSet(s, p, k, st)
      BY <1>1, <2>1, SetFacts
    <3> HIDE DEF s
    <3>2. \A j \in Kind : s.res[j] <= s.gen /\ (About(s, j) => s.res[j] = s.gen)
      <4> SUFFICES ASSUME NEW j \in Kind PROVE s.res[j] <= s.gen /\ (About(s, j) => s.res[j] = s.gen)
        OBVIOUS
      <4>1. CASE j = k BY <1>1, <1>2, <2>1, <2>3, <3>1, <4>1 DEF IsSet, Same, About
      <4>2. CASE j # k
        <5>1. j \in Condition \ {k, "Ready"} BY <4>2, KindFacts
        <5> QED BY <2>1, <3>1, <4>2, <5>1 DEF IsSet, Same, About, Sound
      <4> QED BY <4>1, <4>2
    <3>3. \A m \in Condition : s.cond[m].gen <= s.gen /\ s.cond[m].st \in Status
      <4> SUFFICES ASSUME NEW m \in Condition PROVE s.cond[m].gen <= s.gen /\ s.cond[m].st \in Status
        OBVIOUS
      <4>1. CASE m = k BY <1>1, <2>1, <3>1, <4>1 DEF IsSet, Same
      <4>2. CASE m = "Ready" BY <1>1, <2>1, <3>1, <4>2 DEF IsSet, Same
      <4>3. CASE m \notin {k, "Ready"} BY <2>1, <3>1, <4>3 DEF IsSet, Same, Sound, Constructed
      <4> QED BY <4>1, <4>2, <4>3
    <3>4. s \in Object /\ Same(s, o)
      BY <2>1, <3>1 DEF IsSet, Same
    <3> QED BY <3>2, <3>3, <3>4 DEF Sound, Constructed, s, p
  <2> QED BY <2>2, <2>3 DEF Status
<1>3. CASE answer = "good"
  <2>1. Resolved(o, k, answer) = Set([o EXCEPT !.res[k] = o.gen], k, "True")
    BY <1>3 DEF Resolved
  <2> QED BY <1>2, <2>1 DEF Status
<1>4. CASE answer = "config"
  <2>1. Resolved(o, k, answer) = Set([o EXCEPT !.res[k] = 0], k, "False")
    BY <1>4 DEF Resolved
  <2> QED BY <1>2, <2>1 DEF Status
<1>5. CASE answer = "transient"
  <2>1. Resolved(o, k, answer) = IF o.cond[k].st = "Unknown" THEN Set(o, k, "Unknown") ELSE o
    BY <1>5 DEF Resolved, noteUnreachable
  <2>2. LET s == Set(o, k, "Unknown") IN s \in Object /\ Same(s, o) /\ Sound(s) /\ Constructed(s)
    BY <1>1, SetKeepsSound DEF Status
  <2> QED BY <2>1, <2>2 DEF Same
<1> QED BY <1>3, <1>4, <1>5

\* Validation's verdict vouches for the spec it names: it is True only when
\* every reference is True for this generation.
LEMMA ValidatedFacts ==
  ASSUME NEW o \in Object, NEW cat, NEW flaw \in {"none", "image", "locations"}, Sound(o), Constructed(o)
  PROVE  /\ Validated(o, cat, flaw) \in Object /\ Same(Validated(o, cat, flaw), o)
         /\ Sound(Validated(o, cat, flaw)) /\ Constructed(Validated(o, cat, flaw))
         /\ Verdict(Validated(o, cat, flaw)) /\ Vouch(Validated(o, cat, flaw))
<1> DEFINE V == "ValidationSucceeded"
<1>1. V \in Condition \ {"Ready"} /\ V \notin Kind /\ o.gen \in Generation /\ 0 \in Generation
  BY KindFacts, ParametersAreSane DEF Object, Generation
<1>2. PICK g \in {0, o.gen}, st \in Status :
        /\ Validated(o, cat, flaw) = Set([o EXCEPT !.loc = g], V, st)
        /\ st = "True" => g = o.gen /\ \A k \in Kind : About(o, k)
  <2>1. ASSUME ~\E k \in Kind : o.cond[k].st = "False", ~Pending(o) PROVE \A k \in Kind : About(o, k)
    BY <2>1, KindFacts DEF Pending, About, Constructed, Status
  <2> QED BY <2>1, ZenonT(60) DEF Validated, CatalogVerdict, Status
<1> DEFINE p == [o EXCEPT !.loc = g]
           s == Set(p, V, st)
<1>3. p \in Object /\ Same(p, o) /\ p.cond = o.cond /\ p.res = o.res /\ p.loc = g
  BY <1>1 DEF Object, Same
<1> HIDE DEF p
<1>4. Sound(p) /\ Constructed(p)
  BY <1>3 DEF Sound, Constructed, Same, About
<1>5. s \in Object /\ Same(s, p) /\ Sound(s) /\ Constructed(s) /\ Verdict(s)
  BY <1>1, <1>3, <1>4, SetKeepsSound
<1>6. IsSet(s, p, V, st)
  BY <1>1, <1>3, SetFacts
<1> HIDE DEF s
<1>7. ASSUME About(s, V) PROVE s.loc = s.gen /\ \A k \in Kind : s.res[k] = s.gen /\ About(s, k)
  <2>1. st = "True" /\ g = o.gen /\ \A k \in Kind : About(o, k)
    BY <1>2, <1>6, <1>7 DEF IsSet, About
  <2>2. \A k \in Kind : s.cond[k] = o.cond[k]
    BY <1>1, <1>3, <1>6, KindFacts DEF IsSet
  <2>3. \A k \in Kind : About(s, k)
    BY <1>3, <1>5, <2>1, <2>2 DEF About, Same
  <2> QED BY <1>3, <1>5, <1>6, <2>1, <2>3 DEF IsSet, Same, Sound
<1>8. About(s, "Ready") => About(s, V)
  BY <1>1, <1>6 DEF IsSet, About, Same
<1>9. Vouch(s)
  BY <1>7, <1>8 DEF Vouch
<1>10. Same(s, o)
  BY <1>3, <1>5 DEF Same
<1> QED BY <1>2, <1>5, <1>9, <1>10 DEF s, p

-----------------------------------------------------------------------------
(* The inductive invariant. *)

\* A copy the API server may still accept a patch of: of an earlier version, or
\* of this one with its generation, finalizer and existence.
Version(o) ==
  /\ o.rv <= obj.rv
  /\ o.rv = obj.rv => o.gen = obj.gen /\ o.exists = obj.exists /\ o.fin = obj.fin

SeenInv == Sound(seen) /\ Version(seen)

PassInv ==
  /\ pass.pc = "finalizer" => Sound(pass.copy) /\ Version(pass.copy) /\ pass.copy.exists
  /\ pass.pc \in {"resolve", "patch"} =>
       /\ Sound(pass.copy) /\ Constructed(pass.copy)
       /\ Version(pass.stored) /\ pass.copy.gen = pass.stored.gen /\ pass.stored.fin
  /\ pass.pc = "patch" => Vouch(pass.copy) /\ Verdict(pass.copy)

SpecInv == Sound(obj) /\ Vouch(obj) /\ SeenInv /\ PassInv

Busy(c) == claims[c].phase \in {"launching", "launched"}

TermInv ==
  /\ Held(obj) /\ Held(seen)
  /\ seen.fin => obj.fin
  /\ seen.deleting => obj.deleting
  /\ pass.pc \in {"list", "release"} => seen.deleting
  /\ obj.fin /\ ~obj.exists => seen.deleting
  /\ pass.pc = "release" => \A c \in Claim : ~Busy(c)
  /\ \A c \in Claim : Busy(c) => c \in listed /\ obj.exists /\ obj.fin

Inv == TypeOK /\ SpecInv /\ TermInv

\* A fresh object and an idle pass are within the types, and vouch for nothing.
LEMMA IdleFacts ==
  /\ NewObject \in Object /\ Sound(NewObject) /\ Vouch(NewObject) /\ Held(NewObject)
  /\ Idle \in Pass /\ Idle.pc = "idle"
<1>1. 0 \in Generation /\ 1 \in Generation /\ 1 \in 1 .. Len(Kinds) + 1
  BY ParametersAreSane DEF Generation
<1>2. NewObject \in Object
  BY <1>1 DEF NewObject, Object, Cond
<1>3. Idle \in Pass /\ Idle.pc = "idle"
  BY <1>1, <1>2 DEF Idle, Pass
<1>4. \A n \in Condition : NewObject.cond[n].gen = 0 /\ NewObject.cond[n].st = "none"
  BY DEF NewObject
<1>5. NewObject.gen = 1 /\ \A k \in Kind : NewObject.res[k] = 0
  BY DEF NewObject
<1>6. Sound(NewObject) /\ Vouch(NewObject) /\ Held(NewObject)
  BY <1>4, <1>5, KindFacts DEF Sound, Vouch, Held, About
<1> QED BY <1>2, <1>3, <1>6

\* The copy a pass starts resolving, with its snapshot.
LEMMA ResolvingFacts ==
  ASSUME NEW o \in Object, Sound(o)
  PROVE  /\ Resolving(o) \in Pass /\ Resolving(o).pc = "resolve" /\ Resolving(o).stored = o
         /\ Sound(Resolving(o).copy) /\ Constructed(Resolving(o).copy)
         /\ Resolving(o).copy.gen = o.gen
<1> DEFINE s == StatusConditions(o)
<1>1. s \in Object /\ Same(s, o) /\ Sound(s) /\ Constructed(s)
  BY ConstructorFacts
<1> HIDE DEF s
<1>2. /\ Resolving(o) \in Pass /\ Resolving(o).pc = "resolve" /\ Resolving(o).stored = o
      /\ Resolving(o).copy = s
  BY <1>1, IdleFacts, Zenon DEF Resolving, Pass, s
<1> QED BY <1>1, <1>2 DEF Same

\* The invariant holds of a new class.
LEMMA InitInv == Init => Inv
<1> SUFFICES ASSUME Init PROVE Inv
  OBVIOUS
<1>1. TypeOK
  BY IdleFacts, ParametersAreSane DEF Init, TypeOK, Phases, Generation
<1>2. SpecInv
  BY IdleFacts DEF Init, SpecInv, SeenInv, PassInv, Version, NewObject
<1>3. TermInv
  BY IdleFacts DEF Init, TermInv, Busy, NewObject
<1> QED BY <1>1, <1>2, <1>3 DEF Inv

\* The finalizer's patch keeps the object's type.
LEMMA WriteFinalizer ==
  ASSUME NEW o \in Object, NEW v \in Nat
  PROVE  [o EXCEPT !.fin = TRUE, !.rv = v] \in Object
BY ZenonT(60) DEF Object

\* The status patch keeps the object's type.
LEMMA WriteStatus ==
  ASSUME NEW o \in Object, NEW v \in Nat, NEW q \in Object
  PROVE  [o EXCEPT !.rv = v, !.cond = q.cond, !.res = q.res, !.loc = q.loc] \in Object
BY ZenonT(60) DEF Object

\* The release keeps the object's type.
LEMMA WriteRelease ==
  ASSUME NEW o \in Object, NEW v \in Nat
  PROVE  [o EXCEPT !.exists = FALSE, !.rv = v] \in Object
BY ZenonT(60) DEF Object

\* An edit keeps the object's type.
LEMMA WriteSpec ==
  ASSUME NEW o \in Object, NEW v \in Nat, NEW g \in Generation
  PROVE  [o EXCEPT !.gen = g, !.rv = v] \in Object
BY ZenonT(60) DEF Object

\* A deletion keeps the object's type.
LEMMA WriteDeletion ==
  ASSUME NEW o \in Object, NEW v \in Nat, NEW e \in BOOLEAN
  PROVE  [o EXCEPT !.exists = e, !.deleting = TRUE, !.rv = v] \in Object
BY ZenonT(60) DEF Object

\* A write of metadata keeps the object's type.
LEMMA WriteMetadata ==
  ASSUME NEW o \in Object, NEW v \in Nat
  PROVE  [o EXCEPT !.rv = v] \in Object
BY ZenonT(60) DEF Object

\* A pass that moves on keeps the shape of a pass.
LEMMA PassUpdate ==
  ASSUME NEW p \in Pass, NEW o \in Object, NEW pc \in {"resolve", "patch"},
         NEW at \in 1 .. Len(Kinds) + 1, NEW b \in SUBSET {"config", "transient", "catalog"}
  PROVE  /\ [p EXCEPT !.copy = o, !.at = at, !.blame = b] \in Pass
         /\ [p EXCEPT !.pc = pc, !.copy = o, !.blame = b] \in Pass
BY Zenon DEF Pass

\* Every step keeps the types.
LEMMA TypeStep == Inv /\ [Next]_vars => TypeOK'
<1> SUFFICES ASSUME Inv, [Next]_vars PROVE TypeOK'
  OBVIOUS
<1>0. /\ obj \in Object /\ seen \in Object /\ pass \in Pass
      /\ catalog \in {"none", "empty", "good"}
      /\ claims \in [Claim -> [phase : Phases, spec : Generation, refs : [Kind -> Generation]]]
      /\ listed \in SUBSET Claim
      /\ faults \in 0 .. MaxFaults
      /\ Sound(obj) /\ Sound(seen) /\ Idle \in Pass
      /\ MaxFaults \in Nat /\ MaxGen \in Nat /\ Len(Kinds) \in Nat
  BY IdleFacts, ParametersAreSane DEF Inv, TypeOK, SpecInv, SeenInv
<1>F. ASSUME Fault PROVE faults' \in 0 .. MaxFaults
  BY <1>0, <1>F DEF Fault
<1>1. CASE Begin
  <2>1. /\ [Idle EXCEPT !.pc = "list", !.copy = seen, !.stored = seen] \in Pass
        /\ [Idle EXCEPT !.pc = "finalizer", !.copy = seen] \in Pass
    BY <1>0, Zenon DEF Pass
  <2>2. pass' \in Pass
    BY <1>0, <1>1, <2>1, ResolvingFacts DEF Begin
  <2> QED BY <1>0, <1>1, <2>2 DEF Begin, TypeOK
<1>2. CASE AddFinalizer
  <2>0. pass.copy \in Object /\ (pass.pc = "finalizer" => Sound(pass.copy))
    BY <1>0 DEF Pass, Inv, SpecInv, PassInv
  <2>1. CASE /\ pass.pc = "finalizer" /\ LockedAgainst(pass.copy)
             /\ obj' = [obj EXCEPT !.fin = TRUE, !.rv = @ + 1]
             /\ pass' = Resolving(obj') /\ UNCHANGED faults
    <3>1. obj.rv + 1 \in Nat
      BY <1>0 DEF Object
    <3>2. obj' \in Object
      BY <1>0, <2>1, <3>1, WriteFinalizer, Zenon
    <3>3. obj'.cond = obj.cond /\ obj'.gen = obj.gen /\ obj'.res = obj.res
      BY <1>0, <2>1 DEF Object
    <3>4. Sound(obj')
      BY <1>0, <3>3 DEF Sound, About
    <3> QED BY <1>0, <1>2, <2>1, <3>2, <3>4, ResolvingFacts DEF AddFinalizer, TypeOK
  <2>2. CASE /\ pass.pc = "finalizer" /\ ~obj.exists
             /\ pass' = Resolving([pass.copy EXCEPT !.fin = TRUE]) /\ UNCHANGED <<obj, faults>>
    <3>1. [pass.copy EXCEPT !.fin = TRUE] \in Object /\ Sound([pass.copy EXCEPT !.fin = TRUE])
      BY <2>0, <2>2, Zenon DEF Object, Sound, About
    <3> QED BY <1>0, <1>2, <2>2, <3>1, ResolvingFacts DEF AddFinalizer, TypeOK
  <2>3. CASE pass' = Idle /\ UNCHANGED obj /\ (Fault \/ UNCHANGED faults)
    BY <1>0, <1>2, <1>F, <2>3 DEF AddFinalizer, TypeOK
  <2> QED BY <1>2, <2>1, <2>2, <2>3, ZenonT(60) DEF AddFinalizer
<1>3. CASE Resolve
  <2>1. PICK answer \in {"good", "config", "transient"} :
          /\ IF answer = "good" THEN UNCHANGED faults ELSE Fault
          /\ pass' = [pass EXCEPT !.copy = Resolved(@, Kinds[pass.at], answer), !.at = @ + 1,
                                  !.blame = @ \cup ({answer} \ {"good"})]
    BY <1>3, Zenon DEF Resolve
  <2>2. /\ pass.pc = "resolve" /\ pass.at \in 1 .. Len(Kinds) /\ pass.at + 1 \in 1 .. Len(Kinds) + 1
        /\ pass.copy \in Object /\ pass.blame \in SUBSET {"config", "transient", "catalog"}
    BY <1>0, <1>3 DEF Resolve, Pass
  <2>3. Sound(pass.copy) /\ Constructed(pass.copy)
    BY <2>2 DEF Inv, SpecInv, PassInv
  <2>4. Resolved(pass.copy, Kinds[pass.at], answer) \in Object
    BY <2>2, <2>3, KindFacts, ResolvedFacts
  <2>5. pass.blame \cup ({answer} \ {"good"}) \in SUBSET {"config", "transient", "catalog"}
    BY <2>2
  <2>6. pass' \in Pass
    BY <1>0, <2>1, <2>2, <2>4, <2>5, PassUpdate, Zenon
  <2>7. faults' \in 0 .. MaxFaults
    BY <1>0, <1>F, <2>1
  <2> QED BY <1>0, <1>3, <2>6, <2>7 DEF Resolve, TypeOK
<1>4. CASE Validate
  <2>1. PICK flaw \in {"none", "image", "locations"} :
          /\ IF flaw = "none" THEN UNCHANGED faults ELSE Fault
          /\ pass' = [pass EXCEPT !.pc = "patch", !.copy = Validated(@, catalog, flaw),
                                  !.blame = @ \cup (IF flaw = "none" THEN {} ELSE {"config"})
                                              \cup (IF catalog = "good" THEN {} ELSE {"catalog"})]
    BY <1>4, Zenon DEF Validate
  <2>2. /\ pass.pc = "resolve" /\ pass.copy \in Object
        /\ pass.blame \in SUBSET {"config", "transient", "catalog"}
    BY <1>0, <1>4 DEF Validate, Pass
  <2>3. Sound(pass.copy) /\ Constructed(pass.copy)
    BY <2>2 DEF Inv, SpecInv, PassInv
  <2>4. Validated(pass.copy, catalog, flaw) \in Object
    BY <2>2, <2>3, ValidatedFacts
  <2>5. pass.blame \cup (IF flaw = "none" THEN {} ELSE {"config"}) \cup (IF catalog = "good" THEN {} ELSE {"catalog"})
          \in SUBSET {"config", "transient", "catalog"}
    BY <2>2
  <2>6. pass' \in Pass
    BY <1>0, <2>1, <2>2, <2>4, <2>5, Zenon DEF Pass
  <2>7. faults' \in 0 .. MaxFaults
    BY <1>0, <1>F, <2>1
  <2> QED BY <1>0, <1>4, <2>6, <2>7 DEF Validate, TypeOK
<1>5. CASE PatchStatus
  <2>1. CASE UNCHANGED obj /\ (Fault \/ UNCHANGED faults)
    BY <1>0, <1>5, <1>F, <2>1 DEF PatchStatus, TypeOK
  <2>2. CASE /\ UNCHANGED faults
             /\ obj' = [obj EXCEPT !.rv = @ + 1, !.cond = pass.copy.cond, !.res = pass.copy.res, !.loc = pass.copy.loc]
    <3>1. pass.copy \in Object /\ obj.rv + 1 \in Nat
      BY <1>0 DEF Pass, Object
    <3>2. obj' \in Object
      BY <1>0, <2>2, <3>1, WriteStatus, Zenon
    <3> QED BY <1>0, <1>5, <2>2, <3>2 DEF PatchStatus, TypeOK
  <2> QED BY <1>5, <2>1, <2>2 DEF PatchStatus
<1>6. CASE FinalizeList
  <2>1. [pass EXCEPT !.pc = "release"] \in Pass
    BY <1>0 DEF Pass
  <2>2. pass' \in Pass /\ (Fault \/ UNCHANGED faults)
    BY <1>0, <1>6, <2>1 DEF FinalizeList
  <2> QED BY <1>0, <1>6, <1>F, <2>2 DEF FinalizeList, TypeOK
<1>7. CASE Release
  <2>0. obj.rv + 1 \in Nat
    BY <1>0 DEF Object
  <2>1. [obj EXCEPT !.exists = FALSE, !.rv = @ + 1] \in Object
    BY <1>0, <2>0, WriteRelease, Zenon
  <2>2. obj' \in Object /\ (Fault \/ UNCHANGED faults)
    BY <1>0, <1>7, <2>1 DEF Release
  <2> QED BY <1>0, <1>7, <1>F, <2>2 DEF Release, TypeOK
<1>8. ASSUME NEW c \in Claim, CreateBegin(c) \/ CreateEnd(c) \/ ClaimAppears(c) \/ ClaimGoes(c) PROVE TypeOK'
  <2>1. seen.gen \in Generation /\ seen.res \in [Kind -> Generation]
    BY <1>0 DEF Object
  <2>2. claims' \in [Claim -> [phase : Phases, spec : Generation, refs : [Kind -> Generation]]]
    <3> DEFINE Rec == [phase : Phases, spec : Generation, refs : [Kind -> Generation]]
    <3>1. [phase |-> "launching", spec |-> seen.gen, refs |-> seen.res] \in Rec
      BY <2>1 DEF Phases
    <3>2. CASE CreateBegin(c)
      <4> HIDE DEF Rec
      <4> QED BY <1>0, <3>1, <3>2 DEF CreateBegin, Rec
    <3>3. \A ph \in Phases : [claims EXCEPT ![c].phase = ph] \in [Claim -> Rec]
      <4>1. claims[c] \in Rec
        BY <1>0
      <4>2. \A ph \in Phases : [claims[c] EXCEPT !.phase = ph] \in Rec
        BY <4>1
      <4> HIDE DEF Rec
      <4> QED BY <1>0, <4>2 DEF Rec
    <3>4. CASE CreateEnd(c) \/ ClaimAppears(c) \/ ClaimGoes(c)
      <4>1. \E ph \in Phases : SetPhase(c, ph)
        BY <3>4 DEF CreateEnd, ClaimAppears, ClaimGoes, Phases
      <4> QED BY <3>3, <4>1 DEF SetPhase
    <3> QED BY <1>8, <3>2, <3>4
  <2> QED BY <1>0, <1>8, <2>2 DEF CreateBegin, CreateEnd, ClaimAppears, ClaimGoes, TypeOK
<1>9. CASE SyncClass \/ SyncClaims
  BY <1>0, <1>9 DEF SyncClass, SyncClaims, Present, TypeOK
<1>10. CASE Edit \/ Delete \/ Touch
  <2>1. obj' \in Object
    <3>1. obj.rv + 1 \in Nat /\ obj.fin \in BOOLEAN /\ obj.gen \in 0 .. MaxGen
      BY <1>0 DEF Object, Generation
    <3>2. CASE Edit
      <4>1. obj.gen + 1 \in Generation
        BY <1>0, <3>1, <3>2 DEF Edit, Generation
      <4> QED BY <1>0, <3>1, <3>2, <4>1, WriteSpec, Zenon DEF Edit
    <3>3. CASE Delete
      BY <1>0, <3>1, <3>3, WriteDeletion, Zenon DEF Delete
    <3>4. CASE Touch
      BY <1>0, <3>1, <3>4, WriteMetadata DEF Touch
    <3> QED BY <1>10, <3>2, <3>3, <3>4
  <2>2. faults' \in 0 .. MaxFaults
    BY <1>0, <1>10, <1>F DEF Edit, Delete, Touch
  <2> QED BY <1>0, <1>10, <2>1, <2>2 DEF Edit, Delete, Touch, TypeOK
<1>11. CASE CatalogLands
  BY <1>0, <1>11, <1>F DEF CatalogLands, TypeOK
<1>12. CASE Restart
  <2>1. claims' \in [Claim -> [phase : Phases, spec : Generation, refs : [Kind -> Generation]]]
    BY <1>0, <1>12 DEF Restart, Phases
  <2> QED BY <1>0, <1>12, <1>F, <2>1 DEF Restart, Present, TypeOK
<1>13. CASE UNCHANGED vars
  BY <1>0, <1>13 DEF vars, TypeOK
<1> QED BY <1>1, <1>2, <1>3, <1>4, <1>5, <1>6, <1>7, <1>8, <1>9, <1>10, <1>11, <1>12, <1>13 DEF Next, Step

\* A write moves the version past every copy's, which can then no longer win a
\* patch.
LEMMA Outrun ==
  ASSUME Inv, obj'.rv = obj.rv + 1, seen' = seen
  PROVE  /\ SeenInv'
         /\ pass' = pass => PassInv'
<1>1. obj.rv \in Nat /\ seen.rv \in Nat /\ pass.copy.rv \in Nat /\ pass.stored.rv \in Nat
  BY DEF Inv, TypeOK, Pass, Object
<1>2. ASSUME NEW o, o.rv \in Nat, Version(o) PROVE o.rv <= obj'.rv /\ o.rv # obj'.rv
  BY <1>1, <1>2 DEF Version
<1>3. Version(seen)'
  BY <1>1, <1>2 DEF Inv, SpecInv, SeenInv, Version
<1>4. ASSUME pass' = pass, pass.pc = "finalizer" PROVE Version(pass.copy)'
  <2>1. Version(pass.copy)
    BY <1>4 DEF Inv, SpecInv, PassInv
  <2> QED BY <1>1, <1>2, <1>4, <2>1 DEF Version
<1>5. ASSUME pass' = pass, pass.pc \in {"resolve", "patch"} PROVE Version(pass.stored)'
  <2>1. Version(pass.stored)
    BY <1>5 DEF Inv, SpecInv, PassInv
  <2> QED BY <1>1, <1>2, <1>5, <2>1 DEF Version
<1>6. SeenInv'
  BY <1>3 DEF Inv, SpecInv, SeenInv, Sound, About
<1>7. ASSUME pass' = pass PROVE PassInv'
  BY <1>4, <1>5, <1>7 DEF Inv, SpecInv, PassInv, Sound, Vouch, Constructed, Verdict, About
<1> QED BY <1>6, <1>7

\* A step that leaves the object alone keeps what the object and the informer's
\* copy promise.
LEMMA ObjectUntouched ==
  ASSUME Inv, obj' = obj, seen' \in {seen, obj}
  PROVE  Sound(obj)' /\ Vouch(obj)' /\ SeenInv'
<1>1. Sound(obj) /\ Vouch(obj) /\ SeenInv /\ obj.rv \in Nat
  BY DEF Inv, SpecInv, TypeOK, Object
<1>2. Sound(obj)' /\ Vouch(obj)'
  BY <1>1 DEF Sound, Vouch, About
<1>3. CASE seen' = seen
  BY <1>1, <1>3 DEF SeenInv, Sound, Version, About
<1>4. CASE seen' = obj
  BY <1>1, <1>4 DEF SeenInv, Sound, Version, About
<1> QED BY <1>2, <1>3, <1>4

\* Every step keeps what the copies and the object promise about the spec.
LEMMA SpecStep == Inv /\ [Next]_vars => SpecInv'
<1> SUFFICES ASSUME Inv, [Next]_vars PROVE SpecInv'
  OBVIOUS
<1>0. /\ obj \in Object /\ seen \in Object /\ pass \in Pass
      /\ pass.copy \in Object /\ pass.stored \in Object
      /\ Sound(obj) /\ Vouch(obj) /\ SeenInv /\ PassInv
      /\ obj.rv \in Nat /\ obj.gen \in Nat
  <2>1. obj \in Object /\ seen \in Object /\ pass \in Pass /\ Sound(obj) /\ Vouch(obj) /\ SeenInv /\ PassInv
    BY DEF Inv, TypeOK, SpecInv
  <2>2. pass.copy \in Object /\ pass.stored \in Object
    BY <2>1 DEF Pass
  <2>3. obj.rv \in Nat /\ obj.gen \in Nat
    BY <2>1 DEF Object, Generation
  <2> QED BY <2>1, <2>2, <2>3
<1>I. ASSUME pass' = Idle PROVE PassInv'
  <2>1. pass'.pc = "idle" BY <1>I, IdleFacts
  <2> QED BY <2>1 DEF PassInv
<1>P. ASSUME pass' = pass, obj' = obj PROVE PassInv'
  BY <1>0, <1>P DEF PassInv, Sound, Vouch, Constructed, Verdict, Version, About
<1>1. CASE Begin
  <2>1. seen.exists /\ obj' = obj /\ seen' = seen
    BY <1>1 DEF Begin
  <2>2. CASE pass' = [Idle EXCEPT !.pc = "list", !.copy = seen, !.stored = seen]
    <3>1. pass'.pc = "list" BY <2>2, IdleFacts DEF Pass
    <3>2. PassInv' BY <3>1 DEF PassInv
    <3> QED BY <2>1, <3>2, ObjectUntouched DEF SpecInv
  <2>3. CASE pass' = [Idle EXCEPT !.pc = "finalizer", !.copy = seen]
    <3>1. pass'.pc = "finalizer" /\ pass'.copy = seen BY <2>3, IdleFacts DEF Pass
    <3>2. Sound(pass.copy)' /\ Version(pass.copy)'
      BY <1>0, <2>1, <3>1, Zenon DEF SeenInv, Sound, Version, About
    <3>3. PassInv' BY <2>1, <3>1, <3>2 DEF PassInv
    <3> QED BY <2>1, <3>3, ObjectUntouched DEF SpecInv
  <2>4. CASE seen.fin /\ pass' = Resolving(seen)
    <3>1. Sound(seen) /\ Version(seen) BY <1>0 DEF SeenInv
    <3>2. /\ pass'.pc = "resolve" /\ pass'.stored = seen
          /\ Sound(pass'.copy) /\ Constructed(pass'.copy) /\ pass'.copy.gen = seen.gen
      BY <1>0, <2>4, <3>1, ResolvingFacts
    <3>3. Version(pass.stored)' BY <2>1, <3>1, <3>2, Zenon DEF Version
    <3>4. PassInv' BY <2>4, <3>2, <3>3 DEF PassInv, Sound, Constructed, About
    <3> QED BY <2>1, <3>4, ObjectUntouched DEF SpecInv
  <2> QED BY <1>1, <2>2, <2>3, <2>4, ZenonT(60) DEF Begin
<1>2. CASE AddFinalizer
  <2>0. pass.pc = "finalizer" /\ seen' = seen /\ Sound(pass.copy) /\ Version(pass.copy) /\ pass.copy.exists
    BY <1>0, <1>2 DEF AddFinalizer, PassInv
  <2>1. CASE /\ LockedAgainst(pass.copy)
             /\ obj' = [obj EXCEPT !.fin = TRUE, !.rv = @ + 1]
             /\ pass' = Resolving(obj')
    <3>1. /\ obj'.rv = obj.rv + 1 /\ obj'.cond = obj.cond /\ obj'.gen = obj.gen
          /\ obj'.res = obj.res /\ obj'.loc = obj.loc
      BY <1>0, <2>1 DEF Object
    <3>2. Sound(obj)' /\ Vouch(obj)'
      BY <1>0, <3>1 DEF Sound, Vouch, About
    <3>3. SeenInv'
      BY <2>0, <3>1, Outrun
    <3>4. obj' \in Object /\ obj'.fin
      <4>1. obj.rv + 1 \in Nat BY <1>0
      <4>2. obj' \in Object BY <1>0, <2>1, <4>1, WriteFinalizer, Zenon
      <4>3. obj'.fin = TRUE BY <1>0, <2>1 DEF Object
      <4> QED BY <4>2, <4>3
    <3>5. /\ pass'.pc = "resolve" /\ pass'.stored = obj'
          /\ Sound(pass'.copy) /\ Constructed(pass'.copy) /\ pass'.copy.gen = obj'.gen
      BY <2>1, <3>2, <3>4, ResolvingFacts, Zenon DEF Sound, About
    <3>6. Version(pass.stored)'
      BY <1>0, <3>1, <3>5 DEF Version
    <3>7. PassInv' BY <3>4, <3>5, <3>6 DEF PassInv, Sound, Constructed, About
    <3> QED BY <3>2, <3>3, <3>7 DEF SpecInv
  <2>2. CASE /\ ~obj.exists /\ obj' = obj
             /\ pass' = Resolving([pass.copy EXCEPT !.fin = TRUE])
    <3> DEFINE o == [pass.copy EXCEPT !.fin = TRUE]
    <3>1. /\ o \in Object /\ o.fin /\ o.cond = pass.copy.cond /\ o.gen = pass.copy.gen
          /\ o.res = pass.copy.res /\ o.rv = pass.copy.rv
      BY <1>0, Zenon DEF Object
    <3> HIDE DEF o
    <3>2. Sound(o) BY <2>0, <3>1 DEF Sound, About
    <3>3. o.rv <= obj.rv /\ o.rv # obj.rv BY <2>0, <2>2, <3>1, Zenon DEF Version
    <3>4. /\ pass'.pc = "resolve" /\ pass'.stored = o
          /\ Sound(pass'.copy) /\ Constructed(pass'.copy) /\ pass'.copy.gen = o.gen
      <4>1. pass' = Resolving(o) BY <2>2 DEF o
      <4> QED BY <3>1, <3>2, <4>1, ResolvingFacts
    <3>5. Version(pass.stored)' BY <2>2, <3>3, <3>4 DEF Version
    <3>6. PassInv' BY <3>1, <3>4, <3>5 DEF PassInv, Sound, Constructed, About
    <3> QED BY <2>0, <2>2, <3>6, ObjectUntouched DEF SpecInv
  <2>3. CASE pass' = Idle /\ obj' = obj
    BY <1>I, <2>0, <2>3, ObjectUntouched DEF SpecInv
  <2> QED BY <1>2, <2>1, <2>2, <2>3, ZenonT(60) DEF AddFinalizer
<1>3. CASE Resolve
  <2>1. PICK answer \in {"good", "config", "transient"} :
          pass' = [pass EXCEPT !.copy = Resolved(@, Kinds[pass.at], answer), !.at = @ + 1,
                               !.blame = @ \cup ({answer} \ {"good"})]
    BY <1>3, Zenon DEF Resolve
  <2>2. pass.pc = "resolve" /\ pass.at \in 1 .. Len(Kinds) /\ obj' = obj /\ seen' = seen
    BY <1>0, <1>3, ParametersAreSane DEF Resolve, Pass
  <2> DEFINE o == Resolved(pass.copy, Kinds[pass.at], answer)
  <2>3. o \in Object /\ Same(o, pass.copy) /\ Sound(o) /\ Constructed(o)
    BY <1>0, <2>2, KindFacts, ResolvedFacts DEF PassInv
  <2>4. pass'.pc = "resolve" /\ pass'.copy = o /\ pass'.stored = pass.stored
    BY <1>0, <2>1, <2>2 DEF Pass
  <2> HIDE DEF o
  <2>5. PassInv'
    BY <1>0, <2>2, <2>3, <2>4 DEF PassInv, Sound, Constructed, About, Version, Same
  <2> QED BY <2>2, <2>5, ObjectUntouched DEF SpecInv
<1>4. CASE Validate
  <2>1. PICK flaw \in {"none", "image", "locations"} :
          pass' = [pass EXCEPT !.pc = "patch", !.copy = Validated(@, catalog, flaw),
                               !.blame = @ \cup (IF flaw = "none" THEN {} ELSE {"config"})
                                           \cup (IF catalog = "good" THEN {} ELSE {"catalog"})]
    BY <1>4, Zenon DEF Validate
  <2>2. pass.pc = "resolve" /\ obj' = obj /\ seen' = seen
    BY <1>4 DEF Validate
  <2> DEFINE o == Validated(pass.copy, catalog, flaw)
  <2>3. o \in Object /\ Same(o, pass.copy) /\ Sound(o) /\ Constructed(o) /\ Verdict(o) /\ Vouch(o)
    BY <1>0, <2>2, ValidatedFacts DEF PassInv
  <2>4. pass'.pc = "patch" /\ pass'.copy = o /\ pass'.stored = pass.stored
    BY <1>0, <2>1, <2>2 DEF Pass
  <2> HIDE DEF o
  <2>5. PassInv'
    BY <1>0, <2>2, <2>3, <2>4 DEF PassInv, Sound, Constructed, Vouch, Verdict, About, Version, Same
  <2> QED BY <2>2, <2>5, ObjectUntouched DEF SpecInv
<1>5. CASE PatchStatus
  <2>1. pass.pc = "patch" /\ pass' = Idle /\ seen' = seen
    BY <1>5 DEF PatchStatus
  <2>2. CASE obj' = obj
    BY <1>I, <2>1, <2>2, ObjectUntouched DEF SpecInv
  <2>3. CASE /\ LockedAgainst(pass.stored)
             /\ obj' = [obj EXCEPT !.rv = @ + 1, !.cond = pass.copy.cond, !.res = pass.copy.res, !.loc = pass.copy.loc]
    <3>1. /\ Sound(pass.copy) /\ Vouch(pass.copy) /\ Version(pass.stored)
          /\ pass.copy.gen = pass.stored.gen
      BY <1>0, <2>1 DEF PassInv
    <3>2. obj.gen = pass.copy.gen
      BY <2>3, <3>1 DEF LockedAgainst, Version
    <3>3. /\ obj'.rv = obj.rv + 1 /\ obj'.gen = obj.gen /\ obj'.cond = pass.copy.cond
          /\ obj'.res = pass.copy.res /\ obj'.loc = pass.copy.loc
      BY <1>0, <2>3 DEF Object
    <3>4. Sound(obj)' /\ Vouch(obj)'
      BY <3>1, <3>2, <3>3 DEF Sound, Vouch, About
    <3>5. SeenInv'
      BY <2>1, <3>3, Outrun
    <3> QED BY <1>I, <2>1, <3>4, <3>5 DEF SpecInv
  <2> QED BY <1>5, <2>2, <2>3 DEF PatchStatus
<1>6. CASE FinalizeList
  <2>1. obj' = obj /\ seen' = seen BY <1>6 DEF FinalizeList
  <2>2. pass' = Idle \/ pass'.pc = "release"
    BY <1>0, <1>6 DEF FinalizeList, Pass
  <2>3. PassInv' BY <1>I, <2>2 DEF PassInv
  <2> QED BY <2>1, <2>3, ObjectUntouched DEF SpecInv
<1>7. CASE Release
  <2>1. pass' = Idle /\ seen' = seen BY <1>7 DEF Release
  <2>2. CASE obj' = obj
    BY <1>I, <2>1, <2>2, ObjectUntouched DEF SpecInv
  <2>3. CASE obj' = [obj EXCEPT !.exists = FALSE, !.rv = @ + 1]
    <3>1. /\ obj'.rv = obj.rv + 1 /\ obj'.gen = obj.gen /\ obj'.cond = obj.cond
          /\ obj'.res = obj.res /\ obj'.loc = obj.loc
      BY <1>0, <2>3 DEF Object
    <3>2. Sound(obj)' /\ Vouch(obj)' BY <1>0, <3>1 DEF Sound, Vouch, About
    <3> QED BY <1>I, <2>1, <3>1, <3>2, Outrun DEF SpecInv
  <2> QED BY <1>7, <2>2, <2>3 DEF Release
<1>8. CASE Edit
  <2>1. pass' = pass /\ seen' = seen /\ obj' = [obj EXCEPT !.gen = @ + 1, !.rv = @ + 1]
    BY <1>8 DEF Edit
  <2>2. /\ obj'.rv = obj.rv + 1 /\ obj'.gen = obj.gen + 1 /\ obj'.cond = obj.cond
        /\ obj'.res = obj.res /\ obj'.loc = obj.loc
    BY <1>0, <2>1 DEF Object
  <2>3. \A n \in Condition : obj.cond[n].gen \in Nat
    BY <1>0 DEF Object, Cond, Generation
  <2>4. \A k \in Kind : obj.res[k] \in Nat
    BY <1>0 DEF Object, Generation
  <2>5. \A n \in Condition : obj'.cond[n].gen <= obj'.gen /\ ~About(obj', n)
    BY <1>0, <2>2, <2>3 DEF Sound, About
  <2>6. \A k \in Kind : obj'.res[k] <= obj'.gen
    BY <1>0, <2>2, <2>4 DEF Sound
  <2>7. Sound(obj)' /\ Vouch(obj)'
    BY <2>5, <2>6, KindFacts DEF Sound, Vouch, About
  <2> QED BY <2>1, <2>2, <2>7, Outrun DEF SpecInv
<1>9. CASE Delete \/ Touch
  <2>1. pass' = pass /\ seen' = seen
    BY <1>9 DEF Delete, Touch
  <2>2. /\ obj'.rv = obj.rv + 1 /\ obj'.gen = obj.gen /\ obj'.cond = obj.cond
        /\ obj'.res = obj.res /\ obj'.loc = obj.loc
    BY <1>0, <1>9, Zenon DEF Delete, Touch, Object
  <2>3. Sound(obj)' /\ Vouch(obj)' BY <1>0, <2>2 DEF Sound, Vouch, About
  <2> QED BY <2>1, <2>2, <2>3, Outrun DEF SpecInv
<1>10. CASE SyncClass \/ SyncClaims \/ CatalogLands \/ Restart \/ UNCHANGED vars
            \/ \E c \in Claim : CreateBegin(c) \/ CreateEnd(c) \/ ClaimAppears(c) \/ ClaimGoes(c)
  <2>1. obj' = obj /\ seen' \in {seen, obj} /\ pass' \in {pass, Idle}
    BY <1>10 DEF SyncClass, SyncClaims, CatalogLands, Restart, vars,
                 CreateBegin, CreateEnd, ClaimAppears, ClaimGoes
  <2> QED BY <1>I, <1>P, <2>1, ObjectUntouched DEF SpecInv
<1> QED BY <1>1, <1>2, <1>3, <1>4, <1>5, <1>6, <1>7, <1>8, <1>9, <1>10 DEF Next, Step

\* Every step keeps the order between a class's release and the creates that
\* read it.
LEMMA TermStep == Inv /\ [Next]_vars => TermInv'
<1> SUFFICES ASSUME Inv, [Next]_vars PROVE TermInv'
  OBVIOUS
<1>0. obj \in Object /\ seen \in Object /\ pass \in Pass /\ TermInv /\ PassInv
  BY DEF Inv, TypeOK, SpecInv
<1>T. claims \in [Claim -> [phase : Phases, spec : Generation, refs : [Kind -> Generation]]]
  BY DEF Inv, TypeOK
<1>1. CASE Begin
  <2>1. UNCHANGED <<obj, seen, claims, listed>> BY <1>1 DEF Begin
  <2>2. pass'.pc \in {"list", "release"} => seen.deleting /\ pass'.pc # "release"
    <3>1. CASE seen.deleting
      <4>1. pass' = [Idle EXCEPT !.pc = "list", !.copy = seen, !.stored = seen] BY <1>1, <3>1 DEF Begin
      <4>2. pass'.pc = "list" BY <4>1, IdleFacts DEF Pass
      <4> QED BY <3>1, <4>2
    <3>2. CASE ~seen.deleting
      <4>1. pass'.pc \in {"finalizer", "resolve"}
        BY <1>1, <3>2, IdleFacts DEF Begin, Resolving, Pass
      <4> QED BY <4>1
    <3> QED BY <3>1, <3>2
  <2> QED BY <1>0, <2>1, <2>2 DEF TermInv, Held, Busy
<1>2. CASE AddFinalizer
  <2>1. UNCHANGED <<seen, claims, listed>> BY <1>2 DEF AddFinalizer
  <2>2. pass'.pc \in {"idle", "resolve"}
    BY <1>2, IdleFacts, Zenon DEF AddFinalizer, Resolving, Pass
  <2>3. CASE obj' = obj
    BY <1>0, <2>1, <2>2, <2>3 DEF TermInv, Held, Busy
  <2>4. CASE obj.exists /\ obj' = [obj EXCEPT !.fin = TRUE, !.rv = @ + 1]
    <3>1. /\ obj'.fin = TRUE /\ obj'.exists = obj.exists /\ obj'.deleting = obj.deleting
          /\ obj'.cond = obj.cond
      BY <1>0, <2>4, Zenon DEF Object
    <3> QED BY <1>0, <2>1, <2>2, <2>4, <3>1 DEF TermInv, Held, Busy
  <2> QED BY <1>2, <2>3, <2>4 DEF AddFinalizer, LockedAgainst
<1>3. CASE Resolve \/ Validate
  <2>1. UNCHANGED <<obj, seen, claims, listed>> BY <1>3, Zenon DEF Resolve, Validate
  <2>2. pass'.pc \in {"resolve", "patch"}
    BY <1>0, <1>3, Zenon DEF Resolve, Validate, Pass
  <2> QED BY <1>0, <2>1, <2>2 DEF TermInv, Held, Busy
<1>4. CASE PatchStatus
  <2>1. UNCHANGED <<seen, claims, listed>> /\ pass.pc = "patch" /\ pass'.pc = "idle"
    BY <1>4, IdleFacts DEF PatchStatus
  <2>2. CASE obj' = obj
    BY <1>0, <2>1, <2>2 DEF TermInv, Held, Busy
  <2>3. CASE /\ LockedAgainst(pass.stored)
             /\ obj' = [obj EXCEPT !.rv = @ + 1, !.cond = pass.copy.cond, !.res = pass.copy.res, !.loc = pass.copy.loc]
    <3>1. obj'.fin = obj.fin /\ obj'.exists = obj.exists /\ obj'.deleting = obj.deleting
      BY <1>0, <2>3 DEF Object
    <3>2. obj.fin
      BY <1>0, <2>1, <2>3 DEF PassInv, LockedAgainst, Version
    <3> QED BY <1>0, <2>1, <3>1, <3>2 DEF TermInv, Held, Busy
  <2> QED BY <1>4, <2>2, <2>3 DEF PatchStatus
<1>5. CASE FinalizeList
  <2>1. UNCHANGED <<obj, seen, claims, listed>> /\ pass.pc = "list" BY <1>5 DEF FinalizeList
  <2>2. pass'.pc = "idle" \/ (listed = {} /\ pass'.pc = "release")
    BY <1>0, <1>5, IdleFacts DEF FinalizeList, Pass
  <2>3. pass'.pc = "release" => \A c \in Claim : ~Busy(c)
    BY <1>0, <2>2 DEF TermInv
  <2> QED BY <1>0, <2>1, <2>2, <2>3 DEF TermInv, Held, Busy
<1>6. CASE Release
  <2>1. UNCHANGED <<seen, claims, listed>> /\ pass.pc = "release" /\ pass'.pc = "idle"
    BY <1>6, IdleFacts DEF Release
  <2>2. CASE obj' = obj
    BY <1>0, <2>1, <2>2 DEF TermInv, Held, Busy
  <2>3. CASE obj' = [obj EXCEPT !.exists = FALSE, !.rv = @ + 1]
    <3>1. obj'.fin = obj.fin /\ obj'.cond = obj.cond /\ obj'.deleting = obj.deleting
      BY <1>0, <2>3 DEF Object
    <3> QED BY <1>0, <2>1, <3>1 DEF TermInv, Held, Busy
  <2> QED BY <1>6, <2>2, <2>3 DEF Release
<1>7. ASSUME NEW c \in Claim, CreateBegin(c) PROVE TermInv'
  <2>1. /\ UNCHANGED <<obj, seen, pass, listed>> /\ c \in listed
        /\ seen.exists /\ ~seen.deleting /\ seen.cond["Ready"].st = "True"
    BY <1>7 DEF CreateBegin, resolveNodeClass
  <2>2. obj.fin /\ obj.exists /\ pass.pc # "release"
    BY <1>0, <2>1 DEF TermInv, Held
  <2>3. \A d \in Claim \ {c} : claims'[d] = claims[d]
    BY <1>7, <1>T DEF CreateBegin
  <2> QED BY <1>0, <2>1, <2>2, <2>3 DEF TermInv, Held, Busy
<1>8. ASSUME NEW c \in Claim, CreateEnd(c) \/ ClaimAppears(c) \/ ClaimGoes(c) PROVE TermInv'
  <2>1. UNCHANGED <<obj, seen, pass, listed>>
    BY <1>8 DEF CreateEnd, ClaimAppears, ClaimGoes
  <2>2. \A d \in Claim \ {c} : claims'[d] = claims[d]
    BY <1>8, <1>T DEF CreateEnd, ClaimAppears, ClaimGoes, SetPhase
  <2>3. Busy(c)' => Busy(c)
    BY <1>8, <1>T DEF CreateEnd, ClaimAppears, ClaimGoes, SetPhase, Busy
  <2>4. \A d \in Claim : Busy(d)' => Busy(d)
    BY <2>2, <2>3 DEF Busy
  <2> QED BY <1>0, <2>1, <2>4 DEF TermInv, Held
<1>9. CASE SyncClass
  <2>1. seen' = obj /\ UNCHANGED <<obj, pass, claims, listed>> BY <1>9 DEF SyncClass
  <2> QED BY <1>0, <2>1 DEF TermInv, Held, Busy
<1>10. CASE SyncClaims
  <2>1. listed' = Present /\ UNCHANGED <<obj, seen, pass, claims>> BY <1>10 DEF SyncClaims
  <2>2. \A c \in Claim : Busy(c) => c \in Present BY DEF Busy, Present
  <2> QED BY <1>0, <2>1, <2>2 DEF TermInv, Held, Busy
<1>11. CASE Edit \/ Touch
  <2>1. UNCHANGED <<seen, pass, claims, listed>> BY <1>11 DEF Edit, Touch
  <2>2. obj'.fin = obj.fin /\ obj'.exists = obj.exists /\ obj'.deleting = obj.deleting /\ obj'.cond = obj.cond
    BY <1>0, <1>11, Zenon DEF Edit, Touch, Object
  <2> QED BY <1>0, <2>1, <2>2 DEF TermInv, Held, Busy
<1>12. CASE Delete
  <2>1. UNCHANGED <<seen, pass, claims, listed>> BY <1>12 DEF Delete
  <2>2. obj'.fin = obj.fin /\ obj'.exists = obj.fin /\ obj'.deleting = TRUE /\ obj'.cond = obj.cond
    BY <1>0, <1>12 DEF Delete, Object
  <2> QED BY <1>0, <2>1, <2>2 DEF TermInv, Held, Busy
<1>13. CASE CatalogLands \/ UNCHANGED vars
  <2>1. UNCHANGED <<obj, seen, pass, claims, listed>> BY <1>13 DEF CatalogLands, vars
  <2> QED BY <1>0, <2>1 DEF TermInv, Held, Busy
<1>14. CASE Restart
  <2>1. obj' = obj /\ seen' = obj /\ pass'.pc = "idle" /\ listed' = Present
    BY <1>14, IdleFacts DEF Restart
  <2>2. \A c \in Claim : Busy(c)' => Busy(c) /\ c \in Present
    BY <1>14, <1>T DEF Restart, Busy, Present
  <2>3. obj.fin /\ ~obj.exists => obj.deleting
    BY <1>0 DEF TermInv
  <2> QED BY <1>0, <2>1, <2>2, <2>3 DEF TermInv, Held
<1> QED BY <1>1, <1>2, <1>3, <1>4, <1>5, <1>6, <1>7, <1>8, <1>9, <1>10, <1>11, <1>12, <1>13, <1>14 DEF Next, Step

\* The invariant holds of every behaviour of the controller.
THEOREM Invariance == Spec => []Inv
<1>1. Inv /\ [Next]_vars => Inv'
  BY TypeStep, SpecStep, TermStep DEF Inv
<1> QED BY InitInv, <1>1, PTL DEF Spec

\* The state keeps its types, for any references, NodeClaims and bounds.
THEOREM TypeCorrect == Spec => []TypeOK
<1>1. Inv => TypeOK BY DEF Inv
<1> QED BY Invariance, <1>1, PTL

\* A class that is Ready or validated for its generation publishes what that
\* very spec resolves to.
THEOREM VerdictIsCurrent == Spec => []VouchesForThisSpec
<1>1. Inv => VouchesForThisSpec BY DEF Inv, SpecInv, Vouch, VouchesForThisSpec
<1> QED BY Invariance, <1>1, PTL

\* The finalizer is not released while a NodeClaim is launching or launched.
THEOREM ReleaseWaits == Spec => []LaunchedKeepsItsClass
<1>1. Inv => LaunchedKeepsItsClass BY DEF Inv, TermInv, Busy, LaunchedKeepsItsClass
<1> QED BY Invariance, <1>1, PTL

-----------------------------------------------------------------------------
(* The controller implements ClassContract. *)

\* A step that leaves the generation, the root and the references alone is a
\* stutter of the contract.
LEMMA ContractStutter ==
  ASSUME obj'.gen = obj.gen, obj'.cond = obj.cond, obj'.res = obj.res
  PROVE  UNCHANGED <<obj.gen, obj.cond["Ready"], {obj.res[k] : k \in Kind}>>
OBVIOUS

\* Each step of the controller, or of anyone else, is a step of the contract:
\* an edit, a verdict on the generation the object has when the status patch
\* lands, or nothing.
LEMMA ContractStep ==
  Inv /\ [Next]_vars => [Contract!Next]_<<obj.gen, obj.cond["Ready"], {obj.res[k] : k \in Kind}>>
<1> SUFFICES ASSUME Inv, [Next]_vars
             PROVE  [Contract!Next]_<<obj.gen, obj.cond["Ready"], {obj.res[k] : k \in Kind}>>
  BY Zenon
<1>0. obj \in Object /\ pass \in Pass /\ pass.copy \in Object /\ PassInv
  <2>1. obj \in Object /\ pass \in Pass /\ PassInv BY DEF Inv, TypeOK, SpecInv
  <2> QED BY <2>1 DEF Pass
<1>1. CASE Edit
  <2>1. obj'.gen = obj.gen + 1 /\ obj'.cond = obj.cond /\ obj'.res = obj.res
    BY <1>0, <1>1 DEF Edit, Object
  <2> QED BY <2>1 DEF Contract!Next, Contract!Edit
<1>2. CASE /\ pass.pc = "patch" /\ LockedAgainst(pass.stored)
           /\ obj' = [obj EXCEPT !.rv = @ + 1, !.cond = pass.copy.cond, !.res = pass.copy.res, !.loc = pass.copy.loc]
  <2>1. /\ Sound(pass.copy) /\ Vouch(pass.copy) /\ Verdict(pass.copy)
        /\ Version(pass.stored) /\ pass.copy.gen = pass.stored.gen
    BY <1>0, <1>2 DEF PassInv
  <2>2. pass.copy.gen = obj.gen
    BY <1>2, <2>1 DEF LockedAgainst, Version
  <2>3. obj'.gen = obj.gen /\ obj'.cond = pass.copy.cond /\ obj'.res = pass.copy.res
    BY <1>0, <1>2 DEF Object
  <2> DEFINE v == pass.copy.cond["Ready"]
  <2>4. v \in Cond /\ v.gen = obj.gen /\ v.st \in Status
    BY <1>0, <2>1, <2>2, KindFacts DEF Object, Verdict
  <2>5. v \in [st : {"Unknown", "True", "False"}, gen : {obj.gen}]
    BY <2>4 DEF Cond, Status
  <2>6. ASSUME NEW k \in Kind PROVE pass.copy.res[k] \in 0 .. obj.gen
    <3>1. pass.copy.res[k] \in Nat /\ obj.gen \in Nat
      BY <1>0 DEF Object, Generation
    <3> QED BY <2>1, <2>2, <3>1 DEF Sound
  <2>7. {pass.copy.res[k] : k \in Kind} \in SUBSET (0 .. obj.gen)
    BY <2>6
  <2>8. v.st = "True" => {pass.copy.res[k] : k \in Kind} = {obj.gen}
    BY <2>1, <2>2, <2>4, KindFacts DEF Vouch, About
  <2>9. Contract!Judge
    BY <2>3, <2>5, <2>7, <2>8 DEF Contract!Judge
  <2> QED BY <2>9 DEF Contract!Next
<1>3. CASE obj'.gen = obj.gen /\ obj'.cond = obj.cond /\ obj'.res = obj.res
  BY <1>3, ContractStutter
<1>4. CASE obj' = obj
  BY <1>3, <1>4
<1>5. CASE PatchStatus
  BY <1>2, <1>4, <1>5 DEF PatchStatus
<1>6. CASE AddFinalizer \/ Release \/ Delete \/ Touch
  <2>1. obj' = obj \/ (obj'.gen = obj.gen /\ obj'.cond = obj.cond /\ obj'.res = obj.res)
    BY <1>0, <1>6, Zenon DEF AddFinalizer, Release, Delete, Touch, Object
  <2> QED BY <1>3, <1>4, <2>1
<1>7. CASE Begin \/ Resolve \/ Validate \/ FinalizeList
  BY <1>4, <1>7, Zenon DEF Begin, Resolve, Validate, FinalizeList
<1>8. CASE SyncClass \/ SyncClaims \/ CatalogLands \/ Restart \/ UNCHANGED vars
           \/ \E c \in Claim : CreateBegin(c) \/ CreateEnd(c) \/ ClaimAppears(c) \/ ClaimGoes(c)
  BY <1>4, <1>8 DEF SyncClass, SyncClaims, CatalogLands, Restart, vars,
                    CreateBegin, CreateEnd, ClaimAppears, ClaimGoes
<1> QED BY <1>1, <1>5, <1>6, <1>7, <1>8, Zenon DEF Next, Step

\* The controller, with its lagging copies, conflicts, outages and restarts,
\* implements the contract of the status.
THEOREM ImplementsContract == Spec => KeepsContract
<1>1. Init => Contract!Init
  <2> SUFFICES ASSUME Init PROVE Contract!Init
    OBVIOUS
  <2>1. obj.gen = 1 /\ obj.cond["Ready"] = [st |-> "none", gen |-> 0] /\ \A k \in Kind : obj.res[k] = 0
    BY KindFacts DEF Init, NewObject
  <2>2. {obj.res[k] : k \in Kind} = {0}
    BY <2>1, KindFacts
  <2> QED BY <2>1, <2>2 DEF Contract!Init
<1> QED BY Invariance, ContractStep, <1>1, PTL DEF Spec, KeepsContract, Contract!Spec

\* A copy that says Ready publishes references of one generation, if not the current.
OneSpec(o) ==
  o.gen >= 1 /\ (o.cond["Ready"].st = "True" => \E g \in 1 .. o.gen : \A k \in Kind : o.res[k] = g)

BuiltInv ==
  /\ OneSpec(obj) /\ OneSpec(seen)
  /\ \A c \in Claim : claims[c].phase \in {"launching", "launched"} =>
       \E g \in 1 .. claims[c].spec : \A k \in Kind : claims[c].refs[k] = g

\* The contract alone keeps the stored object's references of one generation.
LEMMA ContractKeepsOneSpec ==
  ASSUME Inv, OneSpec(obj), [Next]_vars
  PROVE  OneSpec(obj)'
<1>0. obj \in Object /\ obj.gen \in Nat
  BY DEF Inv, TypeOK, Object, Generation
<1> DEFINE refs == {obj.res[k] : k \in Kind}
<1>1. [Contract!Next]_<<obj.gen, obj.cond["Ready"], refs>>
  BY ContractStep
<1>2. obj.cond["Ready"].st = "True" => \E g \in 1 .. obj.gen : refs = {g}
  BY KindFacts DEF OneSpec
<1>3. \/ obj'.gen = obj.gen + 1 /\ obj'.cond["Ready"] = obj.cond["Ready"] /\ refs' = refs
      \/ obj'.gen = obj.gen /\ (obj'.cond["Ready"].st = "True" => refs' = {obj.gen})
      \/ obj'.gen = obj.gen /\ obj'.cond["Ready"] = obj.cond["Ready"] /\ refs' = refs
  <2>1. CASE UNCHANGED <<obj.gen, obj.cond["Ready"], refs>>
    BY <2>1, Zenon
  <2>2. CASE Contract!Edit
    BY <2>2, Zenon DEF Contract!Edit
  <2>3. CASE Contract!Judge
    <3>1. obj'.gen = obj.gen /\ (obj'.cond["Ready"].st = "True" => refs' = {obj.gen})
      BY <2>3 DEF Contract!Judge
    <3> QED BY <3>1
  <2> QED BY <1>1, <2>1, <2>2, <2>3, Zenon DEF Contract!Next
<1>4. obj'.gen >= 1 /\ (obj'.cond["Ready"].st = "True" => \E g \in 1 .. obj'.gen : refs' = {g})
  <2> HIDE DEF refs
  <2> QED BY <1>0, <1>2, <1>3 DEF OneSpec
<1> QED BY <1>4 DEF OneSpec

\* The informer copies the object, and Create the informer's copy.
LEMMA BuiltStep == ASSUME Inv, BuiltInv, [Next]_vars PROVE BuiltInv'
<1>1. OneSpec(obj)'
  BY ContractKeepsOneSpec DEF BuiltInv
<1>2. OneSpec(seen)'
  <2>1. seen' = seen \/ seen' = obj
    BY DEF Next, Step, Begin, AddFinalizer, Resolve, Validate, PatchStatus, FinalizeList, Release, CreateBegin,
           CreateEnd, ClaimAppears, ClaimGoes, SyncClass, SyncClaims, Edit, Delete, Touch, CatalogLands, Restart, vars
  <2> QED BY <2>1 DEF BuiltInv, OneSpec
<1>3. ASSUME NEW c \in Claim, claims'[c].phase \in {"launching", "launched"}
      PROVE  \E g \in 1 .. claims'[c].spec : \A k \in Kind : claims'[c].refs[k] = g
  <2>0. claims \in [Claim -> [phase : Phases, spec : Generation, refs : [Kind -> Generation]]]
    BY DEF Inv, TypeOK
  <2>1. CASE \E d \in Claim : CreateBegin(d)
    <3>1. PICK d \in Claim : CreateBegin(d)
      BY <2>1
    <3>2. CASE d = c
      <4>1. claims'[c] = [phase |-> "launching", spec |-> seen.gen, refs |-> seen.res]
        BY <2>0, <3>1, <3>2 DEF CreateBegin
      <4>2. \E g \in 1 .. seen.gen : \A k \in Kind : seen.res[k] = g
        BY <3>1 DEF CreateBegin, resolveNodeClass, BuiltInv, OneSpec
      <4> QED BY <4>1, <4>2
    <3>3. CASE d # c
      <4>1. claims'[c] = claims[c]
        BY <2>0, <3>1, <3>3 DEF CreateBegin
      <4> QED BY <1>3, <4>1 DEF BuiltInv
    <3> QED BY <3>2, <3>3
  <2>2. CASE ~\E d \in Claim : CreateBegin(d)
    <3>1. /\ claims'[c].spec = claims[c].spec /\ claims'[c].refs = claims[c].refs
          /\ claims[c].phase \in {"launching", "launched"}
      <4>1. CASE claims' = claims
        BY <4>1, <1>3
      <4>2. CASE \E d \in Claim : CreateEnd(d) \/ ClaimAppears(d) \/ ClaimGoes(d)
        <5>1. PICK d \in Claim : CreateEnd(d) \/ ClaimAppears(d) \/ ClaimGoes(d)
          BY <4>2
        <5>2. PICK ph : claims' = [claims EXCEPT ![d].phase = ph] /\ (claims[d].phase = "launching" \/ ph \notin {"launching", "launched"})
          BY <5>1 DEF CreateEnd, ClaimAppears, ClaimGoes, SetPhase
        <5> QED BY <1>3, <2>0, <5>2
      <4>3. CASE Restart
        BY <1>3, <2>0, <4>3 DEF Restart
      <4> QED BY <2>2, <4>1, <4>2, <4>3
           DEF Next, Step, Begin, AddFinalizer, Resolve, Validate, PatchStatus, FinalizeList, Release,
               SyncClass, SyncClaims, Edit, Delete, Touch, CatalogLands, vars
    <3> QED BY <3>1 DEF BuiltInv
  <2> QED BY <2>1, <2>2
<1> QED BY <1>1, <1>2, <1>3 DEF BuiltInv

\* What Create orders with was resolved from one spec, whatever edits and passes came
\* between the status it read and the order (resolveNodeClass).
THEOREM NoMixtureIsBuilt == Spec => []BuiltFromOneSpec
<1>1. Init => BuiltInv
  BY KindFacts DEF Init, BuiltInv, OneSpec, NewObject
<1>2. BuiltInv => BuiltFromOneSpec
  BY DEF BuiltInv, BuiltFromOneSpec
<1> QED BY <1>1, <1>2, BuiltStep, Invariance, PTL DEF Spec

-----------------------------------------------------------------------------
(* An outage spares Ready. *)

\* The root of a copy is the roll-up of its other conditions: False if one of them
\* is, and a True about this generation only if all of them are.
Rolled(o) == (o.cond["Ready"].st = "False" <=> Bad(o)) /\ (About(o, "Ready") => Fine(o))

\* No write of the conditions has come after the copy's version.
Current(o) == o.rv = obj.rv => o.cond = obj.cond

\* What a pass has done to its copy and why: without a configuration failure nothing
\* has turned False on an object where nothing was, and without that or a useless
\* catalog a class that was Ready for this generation still is.
SparePass ==
  /\ pass.pc = "finalizer" => Rolled(pass.copy) /\ Current(pass.copy)
  /\ pass.pc \in {"resolve", "patch"} =>
       /\ Rolled(pass.copy) /\ Rolled(pass.stored) /\ Current(pass.stored)
       /\ "config" \in pass.blame \/ (Bad(pass.copy) => Bad(pass.stored))
       /\ pass.blame \cap {"config", "catalog"} # {}
            \/ (About(pass.stored, "Ready") => Fine(pass.copy) /\ pass.copy.cond["Ready"].st = "True")

SpareInv == Rolled(obj) /\ Rolled(seen) /\ Current(seen) /\ SparePass

\* The constructor fills in what no condition says, and nothing that one says.
LEMMA ConstructorSpares ==
  ASSUME NEW o \in Object, Sound(o), Rolled(o)
  PROVE  LET s == StatusConditions(o) IN
         Rolled(s) /\ (Bad(s) => Bad(o)) /\ (About(o, "Ready") => Fine(s) /\ s.cond["Ready"].st = "True")
<1> DEFINE f == [n \in Condition |-> IF o.cond[n].st = "none" THEN [st |-> "Unknown", gen |-> o.gen] ELSE o.cond[n]]
           s == [o EXCEPT !.cond = f]
<1>1. StatusConditions(o) = s
  BY DEF StatusConditions
<1>2. \A n \in Condition : /\ f[n].st = "False" <=> o.cond[n].st = "False"
                           /\ f[n].st = "True" <=> o.cond[n].st = "True"
                           /\ f[n].st = "True" => f[n] = o.cond[n]
  OBVIOUS
<1> HIDE DEF f
<1>3. s.cond = f /\ s.gen = o.gen
  BY DEF Object
<1> HIDE DEF s
<1>4. Bad(s) <=> Bad(o)
  BY <1>2, <1>3 DEF Bad
<1>5. Fine(o) => Fine(s)
  <2> SUFFICES ASSUME Fine(o), NEW n \in Condition \ {"Ready"} PROVE s.cond[n] = [st |-> "True", gen |-> s.gen]
    BY DEF Fine
  <2>1. o.cond[n] = [st |-> "True", gen |-> o.gen]
    BY DEF Fine
  <2>2. o.cond[n].st = "True"
    BY <2>1
  <2> QED BY <1>2, <1>3, <2>1, <2>2
<1>6. About(s, "Ready") <=> About(o, "Ready")
  BY <1>2, <1>3, KindFacts DEF About
<1>7. Rolled(s)
  BY <1>2, <1>3, <1>4, <1>5, <1>6, KindFacts DEF Rolled
<1> QED BY <1>1, <1>2, <1>3, <1>4, <1>5, <1>7, KindFacts DEF Rolled, About

\* What Set leaves is rolled up; a condition set to something else than False makes
\* nothing Bad, and one set to True leaves nothing less Fine.
LEMMA SetSpares ==
  ASSUME NEW o \in Object, NEW p \in Object, p.cond = o.cond, p.gen = o.gen,
         NEW n \in Condition \ {"Ready"}, NEW st \in Status
  PROVE  LET s == Set(p, n, st) IN
         /\ Rolled(s)
         /\ st # "False" => (Bad(s) => Bad(o))
         /\ st = "True" => (Fine(o) => Fine(s) /\ s.cond["Ready"].st = "True")
<1> DEFINE s == Set(p, n, st)
<1>0. IsSet(s, p, n, st)
  BY SetFacts
<1> HIDE DEF s
<1>1. /\ s.cond[n] = [st |-> st, gen |-> o.gen] /\ s.gen = o.gen
      /\ \A m \in Condition \ {n, "Ready"} : s.cond[m] = o.cond[m]
      /\ s.cond["Ready"].st = "True" => Fine(s)
      /\ s.cond["Ready"].st = "False" <=> Bad(s)
      /\ Fine(s) => s.cond["Ready"].st = "True"
  BY <1>0 DEF IsSet, Same, Fine
<1>2. Rolled(s)
  BY <1>1 DEF Rolled, About
<1>3. ASSUME st # "False", Bad(s) PROVE Bad(o)
  <2>1. PICK m \in Condition \ {"Ready"} : s.cond[m].st = "False"
    BY <1>3 DEF Bad
  <2>2. m # n
    BY <1>1, <1>3, <2>1
  <2> QED BY <1>1, <2>1, <2>2 DEF Bad
<1>4. ASSUME st = "True", Fine(o) PROVE Fine(s)
  BY <1>1, <1>4 DEF Fine
<1> QED BY <1>1, <1>2, <1>3, <1>4 DEF s

\* Only a configuration failure makes a sub-reconciler turn its condition False.
LEMMA ResolvedSpares ==
  ASSUME NEW o \in Object, NEW k \in Kind, NEW answer \in {"good", "config", "transient"}, Rolled(o)
  PROVE  LET s == Resolved(o, k, answer) IN
         /\ Rolled(s)
         /\ answer # "config" => (Bad(s) => Bad(o))
         /\ answer # "config" => (Fine(o) /\ o.cond["Ready"].st = "True" => Fine(s) /\ s.cond["Ready"].st = "True")
<1>1. k \in Condition \ {"Ready"} /\ o.gen \in Generation /\ 0 \in Generation
  BY KindFacts, ParametersAreSane DEF Object, Generation
<1>2. ASSUME NEW g \in {0, o.gen} PROVE LET p == [o EXCEPT !.res[k] = g] IN p \in Object /\ p.cond = o.cond /\ p.gen = o.gen
  BY <1>1 DEF Object
<1>3. CASE answer = "good"
  <2> DEFINE p == [o EXCEPT !.res[k] = o.gen]
  <2>1. Resolved(o, k, answer) = Set(p, k, "True")
    BY <1>3 DEF Resolved
  <2>2. p \in Object /\ p.cond = o.cond /\ p.gen = o.gen
    BY <1>2
  <2> HIDE DEF p
  <2>3. /\ Rolled(Set(p, k, "True")) /\ (Bad(Set(p, k, "True")) => Bad(o))
        /\ Fine(o) => Fine(Set(p, k, "True")) /\ Set(p, k, "True").cond["Ready"].st = "True"
    BY <1>1, <2>2, SetSpares DEF Status
  <2> QED BY <2>1, <2>3
<1>4. CASE answer = "config"
  <2>1. Resolved(o, k, answer) = Set([o EXCEPT !.res[k] = 0], k, "False")
    BY <1>4 DEF Resolved
  <2> QED BY <1>1, <1>2, <1>4, <2>1, SetSpares DEF Status
<1>5. CASE answer = "transient" /\ o.cond[k].st = "Unknown"
  <2>1. Resolved(o, k, answer) = Set(o, k, "Unknown")
    BY <1>5 DEF Resolved, noteUnreachable
  <2>2. ~ Fine(o)
    BY <1>1, <1>5 DEF Fine
  <2> QED BY <1>1, <2>1, <2>2, SetSpares DEF Status
<1>6. CASE answer = "transient" /\ o.cond[k].st # "Unknown"
  <2>1. Resolved(o, k, answer) = o
    BY <1>6 DEF Resolved, noteUnreachable
  <2> QED BY <2>1
<1> QED BY <1>3, <1>4, <1>5, <1>6

\* Validation refuses a class only over a reference that is False already, or over a
\* flaw; and with a catalog a Fine class stays so.
LEMMA ValidatedSpares ==
  ASSUME NEW o \in Object, NEW cat, NEW flaw \in {"none", "image", "locations"}, Rolled(o)
  PROVE  LET s == Validated(o, cat, flaw) IN
         /\ Rolled(s)
         /\ flaw = "none" => (Bad(s) => Bad(o))
         /\ flaw = "none" /\ cat = "good" => (Fine(o) => Fine(s) /\ s.cond["Ready"].st = "True")
<1> DEFINE V == "ValidationSucceeded"
<1>1. V \in Condition \ {"Ready"} /\ o.gen \in Generation /\ 0 \in Generation
  BY KindFacts, ParametersAreSane DEF Object, Generation
<1>2. PICK g \in {0, o.gen}, st \in Status :
        /\ Validated(o, cat, flaw) = Set([o EXCEPT !.loc = g], V, st)
        /\ flaw = "none" /\ st = "False" => \E k \in Kind : o.cond[k].st = "False"
        /\ flaw = "none" /\ cat = "good" /\ st # "True" => Pending(o) \/ \E k \in Kind : o.cond[k].st = "False"
  BY ZenonT(60) DEF Validated, CatalogVerdict, Status
<1> DEFINE p == [o EXCEPT !.loc = g]
           s == Set(p, V, st)
<1>3. p \in Object /\ p.cond = o.cond /\ p.gen = o.gen
  BY <1>1 DEF Object
<1>4. (\E k \in Kind : o.cond[k].st = "False") => Bad(o)
  BY KindFacts DEF Bad
<1>5. Fine(o) => ~Bad(o) /\ ~Pending(o)
  <2>1. Fine(o) => \A n \in Condition \ {"Ready"} : o.cond[n].st = "True" /\ o.cond[n].gen = o.gen
    BY DEF Fine
  <2> QED BY <2>1, KindFacts DEF Bad, Pending
<1> HIDE DEF p
<1>6. /\ Rolled(s)
      /\ st # "False" => (Bad(s) => Bad(o))
      /\ st = "True" => (Fine(o) => Fine(s) /\ s.cond["Ready"].st = "True")
  BY <1>1, <1>3, SetSpares
<1>7. Validated(o, cat, flaw) = s
  BY <1>2 DEF p
<1> HIDE DEF s
<1> QED BY <1>2, <1>4, <1>5, <1>6, <1>7

\* A pass that starts to resolve has done nothing yet.
LEMMA ResolvingSpares ==
  ASSUME NEW o \in Object, Sound(o), Rolled(o), pass' = Resolving(o), o.rv = obj'.rv => o.cond = obj'.cond
  PROVE  SparePass'
<1>1. Idle.blame = {} /\ Idle \in Pass
  BY IdleFacts DEF Idle
<1>2. pass'.pc = "resolve" /\ pass'.stored = o /\ pass'.copy = StatusConditions(o) /\ pass'.blame = {}
  BY <1>1, Zenon DEF Resolving, Pass, Idle
<1>3. /\ Rolled(pass'.copy) /\ (Bad(pass'.copy) => Bad(o))
      /\ About(o, "Ready") => Fine(pass'.copy) /\ pass'.copy.cond["Ready"].st = "True"
  BY <1>2, ConstructorSpares
<1> QED BY <1>2, <1>3 DEF SparePass, Rolled, Current, Bad, Fine, About

\* Which steps write the object's conditions.
LEMMA ConditionWrites ==
  ASSUME Inv, [Next]_vars
  PROVE  \/ /\ PatchStatus /\ LockedAgainst(pass.stored)
            /\ obj'.cond = pass.copy.cond /\ obj'.gen = obj.gen /\ obj'.rv = obj.rv + 1
         \/ Edit /\ obj'.cond = obj.cond /\ obj'.gen = obj.gen + 1 /\ obj'.rv = obj.rv + 1
         \/ obj'.cond = obj.cond /\ obj'.gen = obj.gen /\ (obj' = obj \/ obj'.rv = obj.rv + 1)
<1>0. obj \in Object
  BY DEF Inv, TypeOK
<1>1. CASE obj' = obj
  BY <1>1
<1>2. CASE PatchStatus
  BY <1>0, <1>2 DEF PatchStatus, Object
<1>3. CASE Edit
  BY <1>0, <1>3 DEF Edit, Object
<1>4. CASE AddFinalizer \/ Release \/ Delete \/ Touch
  BY <1>0, <1>4 DEF AddFinalizer, Release, Delete, Touch, Object
<1> QED BY <1>1, <1>2, <1>3, <1>4, Zenon
        DEF Next, Step, Begin, Resolve, Validate, FinalizeList, SyncClass, SyncClaims, CatalogLands, Restart, vars,
            CreateBegin, CreateEnd, ClaimAppears, ClaimGoes

\* Every step keeps the roll-up, and what a pass may have done to its copy.
LEMMA SpareStep == ASSUME Inv, SpareInv, [Next]_vars PROVE SpareInv'
<1>0. /\ obj \in Object /\ seen \in Object /\ pass \in Pass /\ pass.copy \in Object /\ pass.stored \in Object
      /\ Sound(obj) /\ SeenInv /\ PassInv
      /\ Rolled(obj) /\ Rolled(seen) /\ Current(seen) /\ SparePass
  <2>1. pass \in Pass
    BY DEF Inv, TypeOK
  <2>2. pass.copy \in Object /\ pass.stored \in Object
    BY <2>1 DEF Pass
  <2> QED BY <2>1, <2>2 DEF Inv, TypeOK, SpecInv, SpareInv
<1>t. obj.rv \in Nat /\ obj.gen \in Nat /\ seen.rv \in Nat /\ pass.copy.rv \in Nat /\ pass.stored.rv \in Nat
  BY <1>0 DEF Object, Generation
<1>1. Rolled(obj)'
  <2>1. CASE /\ PatchStatus /\ LockedAgainst(pass.stored)
             /\ obj'.cond = pass.copy.cond /\ obj'.gen = obj.gen
    <3>1. Rolled(pass.copy) /\ pass.copy.gen = obj.gen
      BY <1>0, <2>1 DEF PatchStatus, SparePass, PassInv, LockedAgainst, Version
    <3> QED BY <2>1, <3>1 DEF Rolled, Bad, Fine, About
  <2>2. CASE obj'.cond = obj.cond /\ obj'.gen = obj.gen + 1
    <3>1. ~About(obj, "Ready")'
      <4>1. obj.cond["Ready"].gen <= obj.gen /\ obj.cond["Ready"].gen \in Nat
        BY <1>0, KindFacts DEF Sound, Object, Cond, Generation
      <4> QED BY <1>t, <2>2, <4>1 DEF About
    <3> QED BY <1>0, <2>2, <3>1 DEF Rolled, Bad
  <2>3. CASE obj'.cond = obj.cond /\ obj'.gen = obj.gen
    BY <1>0, <2>3 DEF Rolled, Bad, Fine, About
  <2> QED BY <2>1, <2>2, <2>3, ConditionWrites
<1>2. ASSUME NEW o, o.rv \in Nat, Version(o), Current(o) PROVE o.rv = obj'.rv => o.cond = obj'.cond
  <2>1. obj' = obj \/ obj'.rv = obj.rv + 1
    BY ConditionWrites
  <2> QED BY <1>t, <1>2, <2>1 DEF Version, Current
<1>3. Rolled(seen)' /\ Current(seen)'
  <2>1. seen' = seen \/ (seen' = obj /\ obj' = obj)
    BY Zenon DEF Next, Step, Begin, AddFinalizer, Resolve, Validate, PatchStatus, FinalizeList, Release, CreateBegin,
           CreateEnd, ClaimAppears, ClaimGoes, SyncClass, SyncClaims, Edit, Delete, Touch, CatalogLands, Restart, vars
  <2>2. CASE seen' = seen
    <3>1. seen.rv = obj'.rv => seen.cond = obj'.cond
      BY <1>0, <1>t, <1>2 DEF SeenInv
    <3> QED BY <1>0, <2>2, <3>1 DEF Rolled, Current, Bad, Fine, About
  <2>3. CASE seen' = obj /\ obj' = obj
    BY <1>0, <2>3 DEF Rolled, Current, Bad, Fine, About
  <2> QED BY <2>1, <2>2, <2>3
<1>4. SparePass'
  <2>I. CASE pass' = Idle
    BY <2>I, IdleFacts DEF SparePass
  <2>P. CASE pass' = pass
    <3>1. ASSUME pass.pc = "finalizer" PROVE Current(pass.copy)'
      BY <1>0, <1>t, <1>2, <2>P, <3>1 DEF PassInv, SparePass, Current
    <3>2. ASSUME pass.pc \in {"resolve", "patch"} PROVE Current(pass.stored)'
      BY <1>0, <1>t, <1>2, <2>P, <3>2 DEF PassInv, SparePass, Current
    <3> QED BY <1>0, <2>P, <3>1, <3>2 DEF SparePass, Rolled, Bad, Fine, About
  <2>1. CASE Begin
    <3>0. obj' = obj
      BY <2>1 DEF Begin
    <3>1. CASE pass' = [Idle EXCEPT !.pc = "list", !.copy = seen, !.stored = seen]
      <4>1. pass'.pc = "list" BY <3>1, IdleFacts DEF Pass
      <4> QED BY <4>1 DEF SparePass
    <3>2. CASE pass' = [Idle EXCEPT !.pc = "finalizer", !.copy = seen]
      <4>1. pass'.pc = "finalizer" /\ pass'.copy = seen BY <3>2, IdleFacts DEF Pass
      <4> QED BY <1>0, <3>0, <4>1 DEF SparePass, Rolled, Current, Bad, Fine, About
    <3>3. CASE pass' = Resolving(seen)
      BY <1>0, <3>0, <3>3, ResolvingSpares DEF SeenInv, Current
    <3> QED BY <2>1, <3>1, <3>2, <3>3, ZenonT(60) DEF Begin
  <2>2. CASE AddFinalizer
    <3>0. pass.pc = "finalizer" /\ Sound(pass.copy) /\ Version(pass.copy) /\ Rolled(pass.copy) /\ Current(pass.copy)
      BY <1>0, <2>2 DEF AddFinalizer, PassInv, SparePass
    <3>1. CASE pass' = Resolving(obj') /\ obj' = [obj EXCEPT !.fin = TRUE, !.rv = @ + 1]
      <4>1. obj.rv + 1 \in Nat BY <1>t
      <4>2. obj' \in Object BY <1>0, <3>1, <4>1, WriteFinalizer, Zenon
      <4>3. obj'.cond = obj.cond /\ obj'.gen = obj.gen /\ obj'.res = obj.res
        BY <1>0, <3>1 DEF Object
      <4>4. Sound(obj') /\ Rolled(obj')
        BY <1>0, <4>3 DEF Sound, Rolled, Bad, Fine, About
      <4> QED BY <3>1, <4>2, <4>4, ResolvingSpares
    <3>2. CASE pass' = Resolving([pass.copy EXCEPT !.fin = TRUE]) /\ obj' = obj
      <4> DEFINE o == [pass.copy EXCEPT !.fin = TRUE]
      <4>1. /\ o \in Object /\ o.cond = pass.copy.cond /\ o.gen = pass.copy.gen
            /\ o.res = pass.copy.res /\ o.rv = pass.copy.rv
        BY <1>0, Zenon DEF Object
      <4>2. pass' = Resolving(o)
        BY <3>2
      <4> HIDE DEF o
      <4>3. Sound(o) /\ Rolled(o)
        BY <3>0, <4>1 DEF Sound, Rolled, Bad, Fine, About
      <4>4. o.rv = obj'.rv => o.cond = obj'.cond
        BY <3>0, <3>2, <4>1 DEF Current
      <4> QED BY <4>1, <4>2, <4>3, <4>4, ResolvingSpares
    <3> QED BY <2>2, <2>I, <3>1, <3>2, ZenonT(60) DEF AddFinalizer
  <2>3. CASE Resolve
    <3>1. PICK answer \in {"good", "config", "transient"} :
            pass' = [pass EXCEPT !.copy = Resolved(@, Kinds[pass.at], answer), !.at = @ + 1,
                                 !.blame = @ \cup ({answer} \ {"good"})]
      BY <2>3, Zenon DEF Resolve
    <3>2. pass.pc = "resolve" /\ pass.at \in 1 .. Len(Kinds) /\ obj' = obj
      BY <1>0, <2>3, ParametersAreSane DEF Resolve, Pass
    <3> DEFINE k == Kinds[pass.at]
               s == Resolved(pass.copy, k, answer)
    <3>3. k \in Kind
      BY <3>2, KindFacts
    <3>4. Rolled(pass.copy) /\ Rolled(pass.stored) /\ Current(pass.stored)
      BY <1>0, <3>2 DEF SparePass
    <3>5. /\ Rolled(s)
          /\ answer # "config" => (Bad(s) => Bad(pass.copy))
          /\ answer # "config" => (Fine(pass.copy) /\ pass.copy.cond["Ready"].st = "True" => Fine(s) /\ s.cond["Ready"].st = "True")
      BY <1>0, <3>3, <3>4, ResolvedSpares
    <3>6. pass'.pc = "resolve" /\ pass'.copy = s /\ pass'.stored = pass.stored /\ pass'.blame = pass.blame \cup ({answer} \ {"good"})
      BY <1>0, <3>1, <3>2 DEF Pass
    <3> HIDE DEF s, k
    <3>7. "config" \in pass'.blame \/ (Bad(s) => Bad(pass.stored))
      BY <1>0, <3>2, <3>5, <3>6 DEF SparePass
    <3>8. pass'.blame \cap {"config", "catalog"} # {}
            \/ (About(pass.stored, "Ready") => Fine(s) /\ s.cond["Ready"].st = "True")
      BY <1>0, <3>2, <3>5, <3>6 DEF SparePass
    <3> QED BY <3>2, <3>4, <3>5, <3>6, <3>7, <3>8 DEF SparePass, Rolled, Current, Bad, Fine, About
  <2>4. CASE Validate
    <3>1. PICK flaw \in {"none", "image", "locations"} :
            pass' = [pass EXCEPT !.pc = "patch", !.copy = Validated(@, catalog, flaw),
                                 !.blame = @ \cup (IF flaw = "none" THEN {} ELSE {"config"})
                                             \cup (IF catalog = "good" THEN {} ELSE {"catalog"})]
      BY <2>4, Zenon DEF Validate
    <3>2. pass.pc = "resolve" /\ obj' = obj
      BY <2>4 DEF Validate
    <3> DEFINE s == Validated(pass.copy, catalog, flaw)
    <3>4. Rolled(pass.copy) /\ Rolled(pass.stored) /\ Current(pass.stored)
      BY <1>0, <3>2 DEF SparePass
    <3>5. /\ Rolled(s)
          /\ flaw = "none" => (Bad(s) => Bad(pass.copy))
          /\ flaw = "none" /\ catalog = "good" => (Fine(pass.copy) => Fine(s) /\ s.cond["Ready"].st = "True")
      BY <1>0, <3>4, ValidatedSpares
    <3>6. /\ pass'.pc = "patch" /\ pass'.copy = s /\ pass'.stored = pass.stored
          /\ pass'.blame = pass.blame \cup (IF flaw = "none" THEN {} ELSE {"config"})
                                      \cup (IF catalog = "good" THEN {} ELSE {"catalog"})
      BY <1>0, <3>1, <3>2 DEF Pass
    <3> HIDE DEF s
    <3>7. "config" \in pass'.blame \/ (Bad(s) => Bad(pass.stored))
      BY <1>0, <3>2, <3>5, <3>6 DEF SparePass
    <3>8. pass'.blame \cap {"config", "catalog"} # {}
            \/ (About(pass.stored, "Ready") => Fine(s) /\ s.cond["Ready"].st = "True")
      BY <1>0, <3>2, <3>5, <3>6 DEF SparePass
    <3> QED BY <3>2, <3>4, <3>5, <3>6, <3>7, <3>8 DEF SparePass, Rolled, Current, Bad, Fine, About
  <2>5. CASE FinalizeList
    <3>1. pass' = Idle \/ pass'.pc = "release"
      BY <1>0, <2>5 DEF FinalizeList, Pass
    <3> QED BY <2>I, <3>1 DEF SparePass
  <2> QED BY <2>I, <2>P, <2>1, <2>2, <2>3, <2>4, <2>5, ZenonT(60)
          DEF Next, Step, PatchStatus, Release, SyncClass, SyncClaims, Edit, Delete, Touch, CatalogLands, Restart, vars,
              CreateBegin, CreateEnd, ClaimAppears, ClaimGoes
<1> QED BY <1>1, <1>3, <1>4 DEF SpareInv

\* For an unchanged spec only a configuration failure refuses a class, and only that
\* or a useless catalog takes Ready away: what noteUnreachable and the catalog's
\* Unknown are for.
THEOREM OutagesSpareReady == Spec => OutageSparesReady
<1> DEFINE Spares == obj'.gen = obj.gen =>
             /\ obj.cond["Ready"].st # "False" /\ obj'.cond["Ready"].st = "False" => "config" \in pass.blame
             /\ About(obj, "Ready") /\ obj'.cond["Ready"].st # "True" => pass.blame \cap {"config", "catalog"} # {}
<1>1. Init => SpareInv
  <2> SUFFICES ASSUME Init PROVE SpareInv
    OBVIOUS
  <2>1. \A n \in Condition : NewObject.cond[n].st = "none"
    BY DEF NewObject
  <2>2. Rolled(NewObject)
    BY <2>1, KindFacts DEF Rolled, Bad, About
  <2> QED BY <2>2, IdleFacts DEF Init, SpareInv, SparePass, Current
<1>2. ASSUME Inv, SpareInv, [Next]_vars PROVE Spares
  <2>1. CASE obj'.cond = obj.cond
    BY <2>1 DEF About
  <2>2. CASE obj'.gen # obj.gen
    BY <2>2
  <2>3. CASE PatchStatus /\ LockedAgainst(pass.stored) /\ obj'.cond = pass.copy.cond
    <3>1. /\ Rolled(pass.copy) /\ Rolled(pass.stored) /\ Current(pass.stored) /\ Version(pass.stored)
          /\ "config" \in pass.blame \/ (Bad(pass.copy) => Bad(pass.stored))
          /\ pass.blame \cap {"config", "catalog"} # {}
               \/ (About(pass.stored, "Ready") => pass.copy.cond["Ready"].st = "True")
      BY <1>2, <2>3 DEF PatchStatus, SpareInv, SparePass, Inv, SpecInv, PassInv
    <3>2. obj.cond = pass.stored.cond /\ obj.gen = pass.stored.gen
      BY <2>3, <3>1 DEF LockedAgainst, Current, Version
    <3> QED BY <2>3, <3>1, <3>2 DEF Rolled, About
  <2>4. obj.gen \in Nat
    BY <1>2 DEF Inv, TypeOK, Object, Generation
  <2>5. obj.gen + 1 # obj.gen
    BY <2>4
  <2> QED BY <1>2, <2>1, <2>2, <2>3, <2>5, ConditionWrites
<1>3. ASSUME Inv, SpareInv, [Next]_vars PROVE SpareInv'
  BY <1>3, SpareStep
<1> QED BY <1>1, <1>2, <1>3, Invariance, PTL DEF Spec, OutageSparesReady
=============================================================================
