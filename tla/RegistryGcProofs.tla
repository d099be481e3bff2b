--------------------------- MODULE RegistryGcProofs ---------------------------
(***************************************************************************)
(* When only periods that are over are built, overlapping invocations      *)
(* never take a served unit out of service, whichever of them dies where.  *)
(***************************************************************************)
EXTENDS RegistryGc, FiniteSetTheorems, TLAPS

\* A shard that a sweep cannot be about to delete, nor its row.
Safe(s) == s \in Registered \cap objects /\ \A w \in Workers : s \notin wdoomed[w]

\* A larger shard stands in for s, whatever is under way.
Covered(s) == \E p \in Above(s) : Safe(p)

Built(s) == s \in objects \/ Covered(s)

\* Nothing is built before its period is over, and all of it.
ClosedInv ==
    /\ \A s \in objects : End(s) <= now /\ content[s] = UnitsOf(s)
    /\ \A r \in rows : r.at = End(r.shard)
    /\ \A w \in Workers :
          /\ wnow[w] <= now
          /\ \A s \in wkeys[w] \cup wgaps[w] \cup wtodo[w] : End(s) <= now
          /\ \A r \in wrows[w] \cup wleft[w] : r.at = End(r.shard)
          /\ wpc[w] \in {"read", "put", "register"} => End(wcur[w]) <= now
          /\ wpc[w] = "put" => wbuf[w] = UnitsOf(wcur[w])

\* What an invocation knows to be built is built or covered, and so is every row.
CoverInv ==
    /\ \A s \in Registered \ objects : Covered(s)
    /\ \A w \in Workers :
          /\ \A s \in wkeys[w] \cup wtodo[w] : Built(s)
          /\ wpc[w] = "register" => Built(wcur[w])
          /\ wpc[w] = "delete" => wcur[w] \in wdoomed[w]
          /\ \A s \in wdoomed[w] : Covered(s)
          /\ \A r \in wrows[w] : r.shard \in Registered \/ Covered(r.shard)

GcInv == TypeOK /\ ClosedInv /\ CoverInv

-----------------------------------------------------------------------------
(* Types *)

LEMMA ShardFacts ==
    ASSUME NEW s \in Shards
    PROVE  s.dur \in Nat /\ s.dur > 0 /\ s.start \in Nat /\ End(s) \in Nat
<1>1. s \in [dur : Rungs, start : Units] /\ Rungs \subseteq Nat \ {0} /\ MaxNow \in Nat
  BY GcAssumption DEF Shards
<1>2. s.dur \in Rungs /\ s.start \in Units
  BY ONLY <1>1
<1>3. s.dur \in Nat /\ s.dur > 0
  <2>1. \A d \in Rungs : d \in Nat /\ d > 0
    BY ONLY <1>1
  <2> QED BY ONLY <1>2, <2>1
<1>4. s.start \in Nat
  BY ONLY <1>1, <1>2 DEF Units
<1> QED BY <1>3, <1>4 DEF End

LEMMA InitType == Init => TypeOK
BY FS_EmptySet, GcAssumption DEF Init, TypeOK

\* What an invocation forgets when it returns is typed.
LEMMA ReturnType ==
    ASSUME TypeOK, NEW w \in Workers, Return(w),
           UNCHANGED <<now, objects, content, rows>>, extras' \in Nat
    PROVE  TypeOK'
<1>1. \A v \in Workers : IsFiniteSet(wdoomed'[v]) /\ Cardinality(wdoomed'[v]) <= MaxDeletes
  BY FS_EmptySet, GcAssumption DEF Return, TypeOK
<1>2. \A v \in Workers : wpc'[v] \in {"read", "put", "register", "delete"} => wcur'[v] \in Shards
  BY DEF Return, Goto, TypeOK
<1>3. /\ wpc' \in [Workers -> {"idle", "discover", "reconcile", "gaps", "read", "put",
                               "register", "sweep", "delete"}]
      /\ wkind' \in [Workers -> {"tick", "gap", "scaffold"}] /\ wnow' \in [Workers -> 0 .. MaxNow]
  BY GcAssumption DEF Return, Goto, TypeOK
<1>4. /\ wkeys' \in [Workers -> SUBSET Shards] /\ wgaps' \in [Workers -> SUBSET Shards]
      /\ wtodo' \in [Workers -> SUBSET Shards] /\ wcur' \in [Workers -> Shards \cup {NoShard}]
  BY DEF Return, TypeOK
<1>5. /\ wbuf' \in [Workers -> SUBSET Units]
      /\ wrows' \in [Workers -> SUBSET Rows] /\ wleft' \in [Workers -> SUBSET Rows]
      /\ wdoomed' \in [Workers -> SUBSET Shards]
  BY DEF Return, TypeOK
<1> QED BY <1>1, <1>2, <1>3, <1>4, <1>5 DEF TypeOK

\* The budget of a sweep.
LEMMA Budget ==
    ASSUME NEW S, IsFiniteSet(S), NEW k \in Nat, Cardinality(S) < k, NEW x
    PROVE  IsFiniteSet(S \cup {x}) /\ Cardinality(S \cup {x}) <= k
<1>1. IsFiniteSet(S \cup {x}) /\ (Cardinality(S \cup {x}) = Cardinality(S)
                                 \/ Cardinality(S \cup {x}) = Cardinality(S) + 1)
  BY FS_AddElement
<1>2. Cardinality(S) \in Nat
  BY FS_CardinalityType
<1> QED BY <1>1, <1>2

LEMMA Shrink ==
    ASSUME NEW S, IsFiniteSet(S), NEW k \in Nat, Cardinality(S) <= k, NEW T
    PROVE  IsFiniteSet(S \ T) /\ Cardinality(S \ T) <= k
<1>1. IsFiniteSet(S \ T) /\ Cardinality(S \ T) <= Cardinality(S)
  BY FS_Subset
<1>2. Cardinality(S) \in Nat /\ Cardinality(S \ T) \in Nat
  BY <1>1, FS_CardinalityType
<1> QED BY <1>1, <1>2

LEMMA UpsertType ==
    ASSUME TypeOK, NEW s \in Shards, Upsert(s)
    PROVE  rows' \subseteq Rows
BY ShardFacts, GcAssumption DEF Upsert, Rows, TypeOK

LEMMA RunType == ASSUME TypeOK, NEW w \in Workers, Fill(w) PROVE TypeOK'
<1> USE DEF storeVars, eventVars, fillVars, sweepVars, Goto
<1>1. CASE Discover(w)
  BY <1>1 DEF Discover, Expected, TypeOK
<1>2. CASE ReconcileRead(w)
  BY <1>2 DEF ReconcileRead, Stranded, Expected, TypeOK
<1>3. ASSUME NEW g \in Shards, ReconcileRegister(w, g) PROVE TypeOK'
  BY <1>3, UpsertType DEF ReconcileRegister, TypeOK
<1>4. ASSUME NEW g \in Shards, Exists(w, g) PROVE TypeOK'
  BY <1>4 DEF Exists, Skip, TypeOK
<1>5. CASE (\E g \in Shards : Missing(w, g)) \/ Build(w)
  BY <1>5 DEF Build, Missing, NoOutput, Skip, Input, UnitsOf, TypeOK
<1>6. CASE TileGone(w)
  BY <1>6, ReturnType DEF TileGone, TypeOK
<1>7. CASE Put(w)
  BY <1>7 DEF Put, Skip, TypeOK
<1>8. CASE Register(w)
  <2>1. wcur[w] \in Shards
    BY <1>8 DEF Register, TypeOK
  <2> QED BY <1>8, <2>1, UpsertType DEF Register, TypeOK
<1>9. CASE FillDone(w)
  BY <1>9, ReturnType DEF FillDone, TypeOK
<1> QED BY <1>1, <1>2, <1>3, <1>4, <1>5, <1>6, <1>7, <1>8, <1>9 DEF Fill

LEMMA SweepType == ASSUME TypeOK, NEW w \in Workers, Sweep(w) PROVE TypeOK'
<1> USE DEF storeVars, eventVars, fillVars, sweepVars, Goto
<1>1. CASE SweepRows(w)
  BY <1>1 DEF SweepRows, TypeOK
<1>2. CASE SweepDelete(w)
  BY <1>2 DEF SweepDelete, TypeOK
<1>3. CASE SweepDone(w)
  BY <1>3, ReturnType DEF SweepDone, TypeOK
<1>4. ASSUME NEW r \in wleft[w], SweepSkip(w, r) PROVE TypeOK'
  BY <1>4 DEF SweepSkip, TypeOK
<1>5. ASSUME NEW r \in wleft[w], SweepCondemn(w, r) PROVE TypeOK'
  <2>1. r.shard \in Shards
    BY <1>5 DEF TypeOK, Rows
  <2>2. wdoomed' = [wdoomed EXCEPT ![w] = @ \cup {r.shard}] /\ Cardinality(wdoomed[w]) < MaxDeletes
    BY <1>5 DEF SweepCondemn, WithinBudget
  <2>3. \A v \in Workers : IsFiniteSet(wdoomed'[v]) /\ Cardinality(wdoomed'[v]) <= MaxDeletes
    BY <2>2, Budget, GcAssumption DEF TypeOK
  <2>4. wdoomed' \in [Workers -> SUBSET Shards]
    BY <2>1, <2>2 DEF TypeOK
  <2> QED BY <1>5, <2>1, <2>3, <2>4 DEF SweepCondemn, TypeOK
<1>6. ASSUME NEW c \in SUBSET wdoomed[w], DropRows(w, c) PROVE TypeOK'
  <2>1. wdoomed' = [wdoomed EXCEPT ![w] = @ \ c] /\ rows' \subseteq rows
    BY <1>6 DEF DropRows
  <2>2. \A v \in Workers : IsFiniteSet(wdoomed'[v]) /\ Cardinality(wdoomed'[v]) <= MaxDeletes
    BY <2>1, Shrink, GcAssumption DEF TypeOK
  <2>3. wdoomed' \in [Workers -> SUBSET Shards]
    BY <2>1 DEF TypeOK
  <2> QED BY <1>6, <2>1, <2>2, <2>3 DEF DropRows, TypeOK
<1> QED BY <1>1, <1>2, <1>3, <1>4, <1>5, <1>6 DEF Sweep

LEMMA NextType == TypeOK /\ [Next]_vars => TypeOK'
<1> SUFFICES ASSUME TypeOK, [Next]_vars PROVE TypeOK'
  OBVIOUS
<1> USE DEF storeVars, eventVars, fillVars, sweepVars, Goto
<1>1. CASE UNCHANGED vars
  BY <1>1 DEF vars, TypeOK
<1>2. CASE Tick
  BY <1>2, GcAssumption DEF Tick, TypeOK
<1>3. ASSUME NEW w \in Workers, StartTick(w) PROVE TypeOK'
  BY <1>3 DEF StartTick, TypeOK
<1>4. ASSUME NEW w \in Workers, NEW g \in Shards, NEW kind \in {"gap", "scaffold"},
             StartSingle(w, g, kind)
      PROVE  TypeOK'
  BY <1>4 DEF StartSingle, Extra, TypeOK
<1>5. ASSUME NEW w \in Workers, Run(w) PROVE TypeOK'
  BY <1>5, RunType, SweepType DEF Run
<1>6. ASSUME NEW w \in Workers, ReconcileFails(w) \/ StopEarly(w) PROVE TypeOK'
  BY <1>6 DEF ReconcileFails, StopEarly, Extra, TypeOK
<1>7. ASSUME NEW w \in Workers, Dies(w) PROVE TypeOK'
  BY <1>7, ReturnType DEF Dies, Extra, TypeOK
<1>8. ASSUME NEW w \in Workers, RawNotReady(w) PROVE TypeOK'
  BY <1>8 DEF RawNotReady, NoOutput, Extra, Skip, TypeOK
<1> QED BY <1>1, <1>2, <1>3, <1>4, <1>5, <1>6, <1>7, <1>8 DEF Next, Fails

\* The types hold in every reachable state, and a sweep keeps to its budget.
THEOREM TypeCorrect == Spec => []TypeOK
BY InitType, NextType, PTL DEF Spec

-----------------------------------------------------------------------------
(* Nothing is built before its period is over *)

LEMMA ReturnClosed ==
    ASSUME TypeOK, ClosedInv, NEW w \in Workers, Return(w), UNCHANGED <<now, objects, content, rows>>
    PROVE  ClosedInv'
<1>1. now \in Nat
  BY GcAssumption DEF TypeOK
<1>2. /\ wnow' = [wnow EXCEPT ![w] = 0] /\ wpc' = [wpc EXCEPT ![w] = "idle"]
      /\ wkeys' = [wkeys EXCEPT ![w] = {}] /\ wgaps' = [wgaps EXCEPT ![w] = {}]
      /\ wtodo' = [wtodo EXCEPT ![w] = {}] /\ wrows' = [wrows EXCEPT ![w] = {}]
      /\ wleft' = [wleft EXCEPT ![w] = {}] /\ wcur' = [wcur EXCEPT ![w] = NoShard]
      /\ wbuf' = [wbuf EXCEPT ![w] = {}]
  BY DEF Return, Goto
<1>3. ASSUME NEW v \in Workers
      PROVE  /\ wnow'[v] <= now
             /\ \A s \in wkeys'[v] \cup wgaps'[v] \cup wtodo'[v] : End(s) <= now
             /\ \A r \in wrows'[v] \cup wleft'[v] : r.at = End(r.shard)
             /\ wpc'[v] \in {"read", "put", "register"} => End(wcur'[v]) <= now
             /\ wpc'[v] = "put" => wbuf'[v] = UnitsOf(wcur'[v])
  <2>1. CASE v = w
    BY <1>1, <1>2, <2>1 DEF TypeOK
  <2>2. CASE v # w
    BY <1>2, <2>2 DEF TypeOK, ClosedInv
  <2> QED BY <2>1, <2>2
<1> QED BY <1>3 DEF ClosedInv

LEMMA ExpectedClosed ==
    ASSUME TypeOK, ClosedInv, NEW w \in Workers, NEW s \in Expected(wnow[w])
    PROVE  End(s) <= now
<1>1. wnow[w] \in Nat /\ now \in Nat /\ wnow[w] <= now
  BY GcAssumption DEF TypeOK, ClosedInv
<1>2. s \in Shards /\ End(s) <= wnow[w] /\ End(s) \in Nat
  BY ShardFacts DEF Expected
<1> QED BY <1>1, <1>2

\* A gap is filled completely.
LEMMA InputFull ==
    ASSUME TypeOK, ClosedInv, NEW w \in Workers, NEW g \in Shards, End(g) <= now,
           TilesOf(w, g) \subseteq objects
    PROVE  Input(w, g) = UnitsOf(g)
<1> SUFFICES ASSUME NEW u \in UnitsOf(g)
             PROVE  IF Tiles(w, g, u) = {} THEN u < now
                    ELSE \E s \in Tiles(w, g, u) : u \in content[s]
  BY DEF Input
<1>1. CASE Tiles(w, g, u) = {}
  <2>1. End(g) \in Nat /\ now \in Nat
    BY ShardFacts, GcAssumption DEF TypeOK
  <2>2. u \in Nat /\ u < End(g)
    BY GcAssumption DEF UnitsOf, Units
  <2> QED BY <1>1, <2>1, <2>2
<1>2. CASE Tiles(w, g, u) # {}
  <2>1. PICK s \in Tiles(w, g, u) : TRUE
    BY <1>2
  <2>2. s \in objects /\ u \in UnitsOf(s)
    BY <2>1 DEF TilesOf, Tiles
  <2> QED BY <1>2, <2>1, <2>2 DEF ClosedInv
<1> QED BY <1>1, <1>2

\* A row that is written when the period is over bears its end.
LEMMA UpsertClosed ==
    ASSUME TypeOK, ClosedInv, NEW s \in Shards, End(s) <= now, Upsert(s)
    PROVE  \A r \in rows' : r.at = End(r.shard)
<1>1. End(s) \in Nat /\ now \in Nat
  BY ShardFacts, GcAssumption DEF TypeOK
<1>2. rows' = {r \in rows : r.shard # s} \cup {[shard |-> s, at |-> End(s)]}
  BY <1>1 DEF Upsert
<1> QED BY <1>2 DEF ClosedInv

LEMMA FillClosed ==
    ASSUME TypeOK, ClosedInv, NEW w \in Workers, Fill(w)
    PROVE  ClosedInv'
<1> USE DEF storeVars, eventVars, fillVars, sweepVars, Goto
<1>1. CASE Discover(w)
  <2>1. \A s \in wkeys'[w] \cup wgaps'[w] : End(s) <= now
    BY <1>1, ExpectedClosed DEF Discover, TypeOK, ClosedInv
  <2> QED BY <1>1, <2>1 DEF Discover, TypeOK, ClosedInv
<1>2. CASE ReconcileRead(w)
  BY <1>2 DEF ReconcileRead, Stranded, TypeOK, ClosedInv
<1>3. ASSUME NEW g \in Shards, ReconcileRegister(w, g) PROVE ClosedInv'
  <2>1. \A r \in rows' : r.at = End(r.shard)
    BY <1>3, UpsertClosed DEF ReconcileRegister, ClosedInv
  <2> QED BY <1>3, <2>1 DEF ReconcileRegister, TypeOK, ClosedInv
<1>4. ASSUME NEW g \in Shards, Exists(w, g) PROVE ClosedInv'
  <2>1. End(g) <= now
    BY <1>4 DEF Exists, ClosedInv
  <2> QED BY <1>4, <2>1 DEF Exists, Skip, TypeOK, ClosedInv
<1>5. CASE Build(w)
  <2>1. wcur[w] \in Shards /\ End(wcur[w]) <= now
    BY <1>5 DEF Build, TypeOK, ClosedInv
  <2>2. Input(w, wcur[w]) = UnitsOf(wcur[w])
    BY <1>5, <2>1, InputFull DEF Build
  <2>3. CASE /\ wpc' = [wpc EXCEPT ![w] = "put"] /\ UNCHANGED <<wgaps, wcur>>
             /\ wbuf' = [wbuf EXCEPT ![w] = Input(w, wcur[w])]
    BY <1>5, <2>1, <2>2, <2>3 DEF Build, TypeOK, ClosedInv
  <2>4. CASE NoOutput(w)
    BY <1>5, <2>4 DEF Build, NoOutput, Skip, TypeOK, ClosedInv
  <2> QED BY <1>5, <2>3, <2>4 DEF Build
<1>6. CASE TileGone(w)
  BY <1>6, ReturnClosed DEF TileGone
<1>10. ASSUME NEW g \in Shards, Missing(w, g) PROVE ClosedInv'
  <2>1. End(g) <= now
    BY <1>10 DEF Missing, ClosedInv
  <2> QED BY <1>10, <2>1 DEF Missing, TypeOK, ClosedInv
<1>7. CASE Put(w)
  <2>1. wcur[w] \in Shards /\ End(wcur[w]) <= now /\ wbuf[w] = UnitsOf(wcur[w])
    BY <1>7 DEF Put, TypeOK, ClosedInv
  <2>2. \A s \in objects' : End(s) <= now /\ content'[s] = UnitsOf(s)
    BY <1>7, <2>1 DEF Put, TypeOK, ClosedInv
  <2>3. \A v \in Workers : \A s \in wkeys'[v] \cup wgaps'[v] \cup wtodo'[v] : End(s) <= now
    BY <1>7, <2>1 DEF Put, Skip, TypeOK, ClosedInv
  <2>4. \A v \in Workers : /\ wpc'[v] \in {"read", "put", "register"} => End(wcur'[v]) <= now
                           /\ wpc'[v] = "put" => wbuf'[v] = UnitsOf(wcur'[v])
    BY <1>7, <2>1 DEF Put, TypeOK, ClosedInv
  <2> QED BY <1>7, <2>2, <2>3, <2>4 DEF Put, TypeOK, ClosedInv
<1>8. CASE Register(w)
  <2>1. \A r \in rows' : r.at = End(r.shard)
    BY <1>8, UpsertClosed DEF Register, TypeOK, ClosedInv
  <2> QED BY <1>8, <2>1 DEF Register, TypeOK, ClosedInv
<1>9. CASE FillDone(w)
  BY <1>9, ReturnClosed DEF FillDone
<1> QED BY <1>1, <1>2, <1>3, <1>4, <1>5, <1>6, <1>7, <1>8, <1>9, <1>10 DEF Fill

LEMMA SweepClosed ==
    ASSUME TypeOK, ClosedInv, NEW w \in Workers, Sweep(w)
    PROVE  ClosedInv'
<1> USE DEF storeVars, eventVars, fillVars, sweepVars, Goto
<1>1. CASE SweepRows(w)
  BY <1>1 DEF SweepRows, TypeOK, ClosedInv
<1>2. CASE SweepDelete(w)
  <2>1. \A s \in objects' : s \in objects /\ content'[s] = content[s]
    BY <1>2 DEF SweepDelete, TypeOK
  <2> QED BY <1>2, <2>1 DEF SweepDelete, TypeOK, ClosedInv
<1>3. CASE SweepDone(w)
  BY <1>3, ReturnClosed DEF SweepDone
<1>4. ASSUME NEW r \in wleft[w], SweepSkip(w, r) PROVE ClosedInv'
  BY <1>4 DEF SweepSkip, TypeOK, ClosedInv
<1>5. ASSUME NEW r \in wleft[w], SweepCondemn(w, r) PROVE ClosedInv'
  BY <1>5 DEF SweepCondemn, TypeOK, ClosedInv
<1>6. ASSUME NEW c \in SUBSET wdoomed[w], DropRows(w, c) PROVE ClosedInv'
  BY <1>6 DEF DropRows, TypeOK, ClosedInv
<1> QED BY <1>1, <1>2, <1>3, <1>4, <1>5, <1>6 DEF Sweep

LEMMA NextClosed == ~MidPeriod /\ TypeOK /\ ClosedInv /\ [Next]_vars => ClosedInv'
<1> SUFFICES ASSUME ~MidPeriod, TypeOK, ClosedInv, [Next]_vars PROVE ClosedInv'
  OBVIOUS
<1> USE DEF storeVars, eventVars, fillVars, sweepVars, Goto
<1>1. CASE UNCHANGED vars
  BY <1>1 DEF vars, ClosedInv
<1>2. CASE Tick
  <2>1. now \in Nat /\ now' = now + 1 /\ UNCHANGED <<objects, content, rows, wpc, wnow, wkeys,
                                           wgaps, wtodo, wcur, wbuf, wrows, wleft>>
    BY <1>2, GcAssumption DEF Tick, TypeOK
  <2>2. \A s \in Shards : End(s) <= now => End(s) <= now'
    BY <2>1, ShardFacts
  <2>3. \A s \in objects' : End(s) <= now' /\ content'[s] = UnitsOf(s)
    BY <2>1, <2>2 DEF TypeOK, ClosedInv
  <2>4. \A v \in Workers : wnow'[v] <= now'
    BY <2>1, GcAssumption DEF TypeOK, ClosedInv
  <2>5. \A v \in Workers : \A s \in wkeys'[v] \cup wgaps'[v] \cup wtodo'[v] : End(s) <= now'
    BY <2>1, <2>2 DEF TypeOK, ClosedInv
  <2>6. \A v \in Workers : wpc'[v] \in {"read", "put", "register"} => End(wcur'[v]) <= now'
    BY <2>1, <2>2 DEF TypeOK, ClosedInv
  <2> QED BY <2>1, <2>3, <2>4, <2>5, <2>6 DEF ClosedInv
<1>3. ASSUME NEW w \in Workers, StartTick(w) PROVE ClosedInv'
  BY <1>3, GcAssumption DEF StartTick, TypeOK, ClosedInv
<1>4. ASSUME NEW w \in Workers, NEW g \in Shards, NEW kind \in {"gap", "scaffold"},
             StartSingle(w, g, kind)
      PROVE  ClosedInv'
  BY <1>4 DEF StartSingle, TypeOK, ClosedInv
<1>5. ASSUME NEW w \in Workers, Run(w) PROVE ClosedInv'
  BY <1>5, FillClosed, SweepClosed DEF Run
<1>6. ASSUME NEW w \in Workers, ReconcileFails(w) \/ StopEarly(w) PROVE ClosedInv'
  BY <1>6 DEF ReconcileFails, StopEarly, TypeOK, ClosedInv
<1>7. ASSUME NEW w \in Workers, Dies(w) PROVE ClosedInv'
  BY <1>7, ReturnClosed DEF Dies
<1>8. ASSUME NEW w \in Workers, RawNotReady(w) PROVE ClosedInv'
  BY <1>8 DEF RawNotReady, NoOutput, Skip, TypeOK, ClosedInv
<1> QED BY <1>1, <1>2, <1>3, <1>4, <1>5, <1>6, <1>7, <1>8 DEF Next, Fails

-----------------------------------------------------------------------------
(* What is deleted is covered *)

LEMMA AboveFacts ==
    ASSUME NEW s \in Shards, NEW p \in Above(s)
    PROVE  /\ p \in Shards /\ p # s /\ UnitsOf(s) \subseteq UnitsOf(p)
           /\ \A q \in Above(p) : q \in Above(s)
<1>1. p \in Shards /\ p.dur > s.dur /\ p.start <= s.start /\ End(p) >= End(s)
  BY DEF Above
<1>2. /\ s.dur \in Nat /\ s.start \in Nat /\ End(s) \in Nat
      /\ p.dur \in Nat /\ p.start \in Nat /\ End(p) \in Nat
  BY <1>1, ShardFacts
<1>3. UnitsOf(s) \subseteq UnitsOf(p)
  <2> SUFFICES ASSUME NEW u \in Units, s.start <= u, u < End(s) PROVE p.start <= u /\ u < End(p)
    BY DEF UnitsOf
  <2>1. u \in Nat
    BY GcAssumption DEF Units
  <2> QED BY <1>1, <1>2, <2>1
<1>4. ASSUME NEW q \in Above(p) PROVE q \in Above(s)
  <2>1. q \in Shards /\ q.dur > p.dur /\ q.start <= p.start /\ End(q) >= End(p)
    BY <1>4 DEF Above
  <2>2. q.dur \in Nat /\ q.start \in Nat /\ End(q) \in Nat
    BY <2>1, ShardFacts
  <2> QED BY <1>1, <1>2, <2>1, <2>2 DEF Above
<1> QED BY <1>1, <1>2, <1>3, <1>4

LEMMA CoverUp ==
    ASSUME NEW s \in Shards, NEW p \in Above(s), Covered(p)
    PROVE  Covered(s)
BY AboveFacts DEF Covered

LEMMA InitCover == Init => ClosedInv /\ CoverInv
BY DEF Init, ClosedInv, CoverInv, Registered

\* A row that a sweep has read is there, or a larger shard is safe.
Known(s) == s \in Registered \/ Covered(s)

\* A step that keeps what is built, known and covered so.
Keeps ==
    \A s \in Shards : /\ Covered(s) => Covered(s)'
                      /\ Built(s) => Built(s)'
                      /\ Known(s) => Known(s)'

\* Only what is condemned loses its object or its row.
LEMMA NoneCondemned ==
    ASSUME \A w \in Workers : wdoomed'[w] \subseteq wdoomed[w],
           CoverInv,
           \A s \in objects \ objects' : \E w \in Workers : s \in wdoomed[w],
           \A s \in Registered \ Registered' : \E w \in Workers : s \in wdoomed[w]
    PROVE  Keeps
<1>1. \A s \in Shards : Safe(s) => Safe(s)'
  BY DEF Safe
<1>2. \A s \in Shards : Covered(s) => Covered(s)'
  BY <1>1 DEF Covered, Above
<1>3. \A s \in Shards : Built(s) => Built(s)'
  BY <1>2 DEF Built, CoverInv
<1>4. \A s \in Shards : Known(s) => Known(s)'
  BY <1>2 DEF Known, CoverInv
<1> QED BY <1>2, <1>3, <1>4 DEF Keeps

\* A step that learns only of what is built carries the invariant.
LEMMA CoverCarry ==
    ASSUME TypeOK, TypeOK', CoverInv, Keeps,
           \A s \in Registered' : s \in Registered \/ Built(s)',
           \A w \in Workers :
              /\ \A s \in wkeys'[w] \cup wtodo'[w] : s \in wkeys[w] \cup wtodo[w] \/ Built(s)'
              /\ wpc'[w] = "register" =>
                    (wpc[w] = "register" /\ wcur'[w] = wcur[w]) \/ wcur'[w] \in objects'
              /\ wpc'[w] = "delete" => wcur'[w] \in wdoomed'[w]
              /\ \A s \in wdoomed'[w] : s \in wdoomed[w] \/ Covered(s)'
              /\ \A r \in wrows'[w] : r \in wrows[w] \/ r.shard \in Registered'
    PROVE  CoverInv'
<1>1. Registered \subseteq Shards /\ Registered' \subseteq Shards
  BY DEF TypeOK, Registered, Rows
<1>2. ASSUME NEW s \in Registered' \ objects' PROVE Covered(s)'
  <2>1. CASE s \in Registered
    <3>1. Built(s) /\ s \in Shards
      BY <1>1, <2>1 DEF CoverInv, Built
    <3> QED BY <1>2, <3>1 DEF Keeps, Built
  <2>2. CASE s \notin Registered
    BY <1>2, <2>2 DEF Built
  <2> QED BY <2>1, <2>2
<1>3. ASSUME NEW w \in Workers, NEW s \in wkeys'[w] \cup wtodo'[w] PROVE Built(s)'
  BY <1>3 DEF TypeOK, CoverInv, Keeps
<1>4. ASSUME NEW w \in Workers, wpc'[w] = "register" PROVE Built(wcur[w])'
  <2>1. CASE wpc[w] = "register" /\ wcur'[w] = wcur[w]
    <3>1. wcur[w] \in Shards /\ Built(wcur[w])
      BY <2>1 DEF TypeOK, CoverInv
    <3>2. \A s \in Shards : Built(s) => Built(s)'
      BY DEF Keeps
    <3> QED BY <2>1, <3>1, <3>2 DEF Built, Covered
  <2>2. CASE wcur'[w] \in objects'
    BY <2>2 DEF Built
  <2> QED BY <1>4, <2>1, <2>2
<1>5. ASSUME NEW w \in Workers, NEW s \in wdoomed'[w] PROVE Covered(s)'
  BY <1>5 DEF TypeOK, CoverInv, Keeps
<1>6. ASSUME NEW w \in Workers, NEW r \in wrows'[w] PROVE r.shard \in Registered' \/ Covered(r.shard)'
  <2>1. CASE r \in wrows[w]
    <3>1. r.shard \in Shards /\ Known(r.shard)
      BY <2>1 DEF TypeOK, Rows, CoverInv, Known
    <3> QED BY <3>1 DEF Keeps, Known
  <2>2. CASE r \notin wrows[w]
    BY <1>6, <2>2
  <2> QED BY <2>1, <2>2
<1> QED BY <1>2, <1>3, <1>4, <1>5, <1>6 DEF CoverInv

LEMMA ReturnCover ==
    ASSUME TypeOK, TypeOK', CoverInv, NEW w \in Workers, Return(w), UNCHANGED <<objects, rows>>
    PROVE  CoverInv'
<1>1. /\ wpc' = [wpc EXCEPT ![w] = "idle"] /\ wkeys' = [wkeys EXCEPT ![w] = {}]
      /\ wtodo' = [wtodo EXCEPT ![w] = {}] /\ wrows' = [wrows EXCEPT ![w] = {}]
      /\ wdoomed' = [wdoomed EXCEPT ![w] = {}] /\ wcur' = [wcur EXCEPT ![w] = NoShard]
  BY DEF Return, Goto
<1>2. Registered' = Registered
  BY DEF Registered
<1>3. \A v \in Workers : wdoomed'[v] \subseteq wdoomed[v]
  BY <1>1 DEF TypeOK
<1>4. Keeps
  BY <1>2, <1>3, NoneCondemned
<1>5. ASSUME NEW v \in Workers
      PROVE  /\ \A s \in wkeys'[v] \cup wtodo'[v] : s \in wkeys[v] \cup wtodo[v]
             /\ wpc'[v] = "register" => wpc[v] = "register" /\ wcur'[v] = wcur[v]
             /\ wpc'[v] = "delete" => wcur'[v] \in wdoomed'[v]
             /\ \A r \in wrows'[v] : r \in wrows[v]
  <2>1. CASE v = w
    BY <1>1, <2>1 DEF TypeOK
  <2>2. CASE v # w
    BY <1>1, <2>2 DEF TypeOK, CoverInv
  <2> QED BY <2>1, <2>2
<1> QED BY <1>2, <1>3, <1>4, <1>5, CoverCarry

LEMMA UpsertRegistered ==
    ASSUME NEW s, Upsert(s)
    PROVE  Registered' = Registered \cup {s}
<1> DEFINE n == [shard |-> s, at |-> IF now < End(s) THEN now ELSE End(s)]
<1>1. rows' = {r \in rows : r.shard # s} \cup {n}
  BY DEF Upsert
<1>2. n.shard = s
  OBVIOUS
<1> HIDE DEF n
<1>3. ASSUME NEW x \in Registered' PROVE x \in Registered \cup {s}
  <2>1. PICK r \in rows' : x = r.shard
    BY <1>3 DEF Registered
  <2> QED BY <1>1, <1>2, <2>1 DEF Registered
<1>4. ASSUME NEW x \in Registered, x # s PROVE x \in Registered'
  <2>1. PICK r \in rows : x = r.shard
    BY <1>4 DEF Registered
  <2>2. r \in rows'
    BY <1>1, <1>4, <2>1
  <2> QED BY <2>1, <2>2 DEF Registered
<1>5. s \in Registered'
  <2>1. n \in rows'
    BY <1>1
  <2> QED BY <1>2, <2>1 DEF Registered
<1> QED BY <1>3, <1>4, <1>5

LEMMA FillCover ==
    ASSUME TypeOK, TypeOK', CoverInv, NEW w \in Workers, Fill(w)
    PROVE  CoverInv'
<1> USE DEF storeVars, eventVars, fillVars, sweepVars, Goto
<1>1. CASE \/ Discover(w) \/ ReconcileRead(w) \/ Build(w)
           \/ \E g \in Shards : Exists(w, g) \/ Missing(w, g)
  <2>1. /\ UNCHANGED <<objects, rows, wdoomed, wrows>>
        /\ \A v \in Workers : wpc'[v] \in {"register", "delete"} => wpc'[v] = wpc[v] /\ wcur'[v] = wcur[v]
        /\ \A v \in Workers : \A s \in wkeys'[v] \cup wtodo'[v] :
              s \in wkeys[v] \cup wtodo[v] \/ s \in objects
    BY <1>1 DEF Discover, ReconcileRead, Stranded, Exists, Build, NoOutput, Missing, TypeOK
  <2>2. Registered' = Registered
    BY <2>1 DEF Registered
  <2>3. Keeps
    BY <2>1, <2>2, NoneCondemned
  <2>4. \A v \in Workers : wpc'[v] = "delete" => wcur'[v] \in wdoomed'[v]
    BY <2>1 DEF CoverInv
  <2>5. \A s \in objects : Built(s)'
    BY <2>1 DEF Built
  <2> QED BY <2>1, <2>2, <2>3, <2>4, <2>5, CoverCarry
<1>2. ASSUME NEW g \in Shards, ReconcileRegister(w, g) PROVE CoverInv'
  <2>1. /\ UNCHANGED <<objects, wdoomed, wrows, wkeys, wcur>> /\ g \in wtodo[w]
        /\ \A v \in Workers : wpc'[v] \in {"register", "delete"} => wpc'[v] = wpc[v]
        /\ \A v \in Workers : wtodo'[v] \subseteq wtodo[v]
    BY <1>2 DEF ReconcileRegister, TypeOK
  <2>2. Registered' = Registered \cup {g}
    BY <1>2, UpsertRegistered DEF ReconcileRegister
  <2>3. Keeps
    BY <2>1, <2>2, NoneCondemned
  <2>4. Built(g)'
    BY <2>1, <2>3 DEF CoverInv, Keeps
  <2>5. \A v \in Workers : wpc'[v] = "delete" => wcur'[v] \in wdoomed'[v]
    BY <2>1 DEF CoverInv
  <2> QED BY <2>1, <2>2, <2>3, <2>4, <2>5, CoverCarry
<1>3. CASE TileGone(w)
  BY <1>3, ReturnCover DEF TileGone
<1>4. CASE Put(w)
  <2>1. /\ UNCHANGED <<rows, wdoomed, wrows, wtodo>> /\ wpc[w] = "put" /\ wcur[w] \in Shards
        /\ objects' = objects \cup {wcur[w]}
        /\ \A v \in Workers : wkeys'[v] \subseteq wkeys[v] \cup {wcur[w]}
    BY <1>4 DEF Put, TypeOK
  <2>2. Registered' = Registered
    BY <2>1 DEF Registered
  <2>3. Keeps
    BY <2>1, <2>2, NoneCondemned
  <2>4. ASSUME NEW v \in Workers
        PROVE  /\ wpc'[v] = "register" =>
                     (wpc[v] = "register" /\ wcur'[v] = wcur[v]) \/ wcur'[v] \in objects'
               /\ wpc'[v] = "delete" => wcur'[v] \in wdoomed'[v]
    <3>1. CASE v = w
      BY <1>4, <2>1, <3>1 DEF Put, TypeOK
    <3>2. CASE v # w
      BY <1>4, <2>1, <3>2 DEF Put, TypeOK, CoverInv
    <3> QED BY <3>1, <3>2
  <2>5. Built(wcur[w])' \/ wcur[w] \in objects'
    BY <2>1
  <2>6. \A s \in objects' : Built(s)'
    BY DEF Built
  <2> QED BY <2>1, <2>2, <2>3, <2>4, <2>6, CoverCarry
<1>5. CASE Register(w)
  <2>1. /\ UNCHANGED <<objects, wdoomed, wrows, wkeys, wtodo>>
        /\ wpc[w] = "register" /\ wcur[w] \in Shards
        /\ \A v \in Workers : wpc'[v] \in {"register", "delete"} => wpc'[v] = wpc[v] /\ wcur'[v] = wcur[v]
    BY <1>5 DEF Register, TypeOK
  <2>2. Registered' = Registered \cup {wcur[w]}
    BY <1>5, UpsertRegistered DEF Register
  <2>3. Keeps
    BY <2>1, <2>2, NoneCondemned
  <2>4. \A s \in Registered' : s \in Registered \/ Built(s)'
    <3>1. Built(wcur[w])
      BY <2>1 DEF CoverInv
    <3>2. \A s \in Shards : Built(s) => Built(s)'
      BY <2>3 DEF Keeps
    <3> QED BY <2>1, <2>2, <3>1, <3>2
  <2>5. \A v \in Workers : wpc'[v] = "delete" => wcur'[v] \in wdoomed'[v]
    BY <2>1 DEF CoverInv
  <2> QED BY <2>1, <2>3, <2>4, <2>5, CoverCarry
<1>6. CASE FillDone(w)
  BY <1>6, ReturnCover DEF FillDone
<1> QED BY <1>1, <1>2, <1>3, <1>4, <1>5, <1>6 DEF Fill

\* A shard whose covering parent is on storage is covered.
LEMMA ParentCovers ==
    ASSUME TypeOK, CoverInv, NEW w \in Workers, NEW r \in wleft[w],
           NEW p \in CoveringParent(w, r), OnStorage(p)
    PROVE  Covered(r.shard)
<1>1. r.shard \in Shards /\ p \in Above(r.shard) /\ p \in Shards
  BY DEF TypeOK, Rows, CoveringParent, Above
<1>2. p \in Registered \/ Covered(p)
  BY DEF CoveringParent, CoverInv
<1>3. CASE Covered(p)
  BY <1>1, <1>3, CoverUp
<1>4. CASE p \in Registered /\ ~Covered(p)
  <2>1. Safe(p)
    BY <1>4 DEF Safe, OnStorage, CoverInv
  <2> QED BY <1>1, <2>1 DEF Covered
<1> QED BY <1>2, <1>3, <1>4

\* Rows of periods that are over are never swept as mid-period ones.
LEMMA ClosedPast ==
    ASSUME TypeOK, ClosedInv, NEW w \in Workers, NEW r \in wleft[w], PastGrace(w, r)
    PROVE  ~Future(w, r)
<1>1. r.at = End(r.shard) /\ r.shard \in Shards /\ wnow[w] \in Nat
  BY GcAssumption DEF ClosedInv, TypeOK, Rows
<1>2. End(r.shard) \in Nat /\ Grace \in Nat
  BY <1>1, ShardFacts, GcAssumption
<1> QED BY <1>1, <1>2 DEF PastGrace, Future

LEMMA CondemnCover ==
    ASSUME TypeOK, TypeOK', ClosedInv, CoverInv, NEW w \in Workers, NEW r \in wleft[w],
           SweepCondemn(w, r)
    PROVE  CoverInv'
<1> DEFINE d == r.shard
<1> HIDE DEF d
<1>1. /\ UNCHANGED <<objects, rows, wrows, wkeys, wtodo>> /\ Registered' = Registered
      /\ wdoomed' = [wdoomed EXCEPT ![w] = @ \cup {d}] /\ wcur' = [wcur EXCEPT ![w] = d]
      /\ wpc' = [wpc EXCEPT ![w] = "delete"] /\ d \in Shards
  BY DEF SweepCondemn, Goto, storeVars, Registered, TypeOK, Rows, d
<1>2. Covered(d)
  BY ClosedPast, ParentCovers DEF SweepCondemn, d
<1>3. \A s \in Shards : Safe(s) /\ s # d => Safe(s)'
  BY <1>1 DEF Safe, TypeOK
<1>4. Covered(d)'
  <2>1. PICK p \in Above(d) : Safe(p)
    BY <1>2 DEF Covered
  <2>2. p \in Shards /\ p # d
    BY <1>1, AboveFacts
  <2> QED BY <1>1, <1>3, <2>1, <2>2 DEF Covered, Above
<1>5. \A s \in Shards : Covered(s) => Covered(s)'
  <2> SUFFICES ASSUME NEW s \in Shards, Covered(s) PROVE Covered(s)'
    OBVIOUS
  <2>1. PICK p \in Above(s) : Safe(p)
    BY DEF Covered
  <2>2. CASE p # d
    <3>1. Safe(p)'
      BY <1>3, <2>1, <2>2 DEF Above
    <3> QED BY <2>1, <3>1 DEF Covered
  <2>3. CASE p = d
    <3>1. PICK q \in Above(d) : Safe(q)'
      BY <1>4 DEF Covered
    <3>2. q \in Above(s)
      BY <2>1, <2>3, <3>1, AboveFacts
    <3> QED BY <3>1, <3>2 DEF Covered
  <2> QED BY <2>2, <2>3
<1>6. Keeps
  BY <1>1, <1>5 DEF Keeps, Built, Known
<1>7. ASSUME NEW v \in Workers
      PROVE  /\ wpc'[v] = "register" => wpc[v] = "register" /\ wcur'[v] = wcur[v]
             /\ wpc'[v] = "delete" => wcur'[v] \in wdoomed'[v]
             /\ \A s \in wdoomed'[v] : s \in wdoomed[v] \/ s = d
  <2>1. CASE v = w
    BY <1>1, <2>1 DEF TypeOK
  <2>2. CASE v # w
    BY <1>1, <2>2 DEF TypeOK, CoverInv
  <2> QED BY <2>1, <2>2
<1> QED BY <1>1, <1>4, <1>6, <1>7, CoverCarry

LEMMA SweepCover ==
    ASSUME TypeOK, TypeOK', ClosedInv, CoverInv, NEW w \in Workers, Sweep(w)
    PROVE  CoverInv'
<1> USE DEF storeVars, eventVars, fillVars, sweepVars, Goto
<1>1. CASE SweepRows(w) \/ \E r \in wleft[w] : SweepSkip(w, r)
  <2>1. /\ UNCHANGED <<objects, rows, wdoomed, wtodo, wcur>>
        /\ \A v \in Workers : wpc'[v] \in {"register", "delete"} => wpc'[v] = wpc[v]
        /\ \A v \in Workers : wkeys'[v] \subseteq wkeys[v] /\ wrows'[v] \subseteq wrows[v] \cup rows
    BY <1>1 DEF SweepRows, SweepSkip, TypeOK
  <2>2. Registered' = Registered /\ \A r \in rows : r.shard \in Registered
    BY <2>1 DEF Registered
  <2>3. Keeps
    BY <2>1, <2>2, NoneCondemned
  <2>4. \A v \in Workers : wpc'[v] = "delete" => wcur'[v] \in wdoomed'[v]
    BY <2>1 DEF CoverInv
  <2> QED BY <2>1, <2>2, <2>3, <2>4, CoverCarry
<1>2. CASE SweepDelete(w)
  <2>1. /\ UNCHANGED <<rows, wdoomed, wrows, wkeys, wtodo>> /\ objects' = objects \ {wcur[w]}
        /\ wcur[w] \in wdoomed[w]
        /\ \A v \in Workers : wpc'[v] \in {"register", "delete"} => wpc'[v] = wpc[v] /\ wcur'[v] = wcur[v]
    BY <1>2 DEF SweepDelete, TypeOK, CoverInv
  <2>2. Registered' = Registered
    BY <2>1 DEF Registered
  <2>3. Keeps
    BY <2>1, <2>2, NoneCondemned
  <2>4. \A v \in Workers : wpc'[v] = "delete" => wcur'[v] \in wdoomed'[v]
    BY <2>1 DEF CoverInv
  <2> QED BY <2>1, <2>2, <2>3, <2>4, CoverCarry
<1>3. CASE SweepDone(w)
  BY <1>3, ReturnCover DEF SweepDone
<1>4. ASSUME NEW r \in wleft[w], SweepCondemn(w, r) PROVE CoverInv'
  BY <1>4, CondemnCover
<1>5. ASSUME NEW c \in SUBSET wdoomed[w], DropRows(w, c) PROVE CoverInv'
  <2>1. /\ UNCHANGED <<objects, wrows, wkeys, wtodo, wcur, wpc>> /\ wpc[w] = "sweep"
        /\ rows' = {r \in rows : r.shard \notin c} /\ wdoomed' = [wdoomed EXCEPT ![w] = @ \ c]
    BY <1>5 DEF DropRows
  <2>2. Registered' = Registered \ c
    BY <2>1 DEF Registered
  <2>3. \A v \in Workers : wdoomed'[v] \subseteq wdoomed[v] /\ (v # w => wdoomed'[v] = wdoomed[v])
    BY <2>1 DEF TypeOK
  <2>4. Keeps
    BY <2>1, <2>2, <2>3, NoneCondemned
  <2>5. \A v \in Workers : wpc'[v] = "delete" => wcur'[v] \in wdoomed'[v]
    BY <2>1, <2>3 DEF CoverInv
  <2> QED BY <2>1, <2>2, <2>3, <2>4, <2>5, CoverCarry
<1> QED BY <1>1, <1>2, <1>3, <1>4, <1>5 DEF Sweep

LEMMA NextCover == TypeOK /\ TypeOK' /\ ClosedInv /\ CoverInv /\ [Next]_vars => CoverInv'
<1> SUFFICES ASSUME TypeOK, TypeOK', ClosedInv, CoverInv, [Next]_vars PROVE CoverInv'
  OBVIOUS
<1> USE DEF storeVars, eventVars, fillVars, sweepVars, Goto
<1>1. CASE \/ UNCHANGED vars \/ Tick
           \/ \E w \in Workers : \/ StartTick(w) \/ ReconcileFails(w) \/ StopEarly(w)
                                 \/ RawNotReady(w)
                                 \/ \E g \in Shards, kind \in {"gap", "scaffold"} : StartSingle(w, g, kind)
  <2>1. /\ UNCHANGED <<objects, rows, wdoomed, wrows, wtodo>>
        /\ \A v \in Workers : wpc'[v] \in {"register", "delete"} => wpc'[v] = wpc[v] /\ wcur'[v] = wcur[v]
        /\ \A v \in Workers : wkeys'[v] \subseteq wkeys[v] \cup objects
    BY <1>1 DEF vars, Tick, StartTick, ReconcileFails, StopEarly, RawNotReady, NoOutput, StartSingle,
      TypeOK
  <2>2. Registered' = Registered
    BY <2>1 DEF Registered
  <2>3. Keeps
    BY <2>1, <2>2, NoneCondemned
  <2>4. \A v \in Workers : wpc'[v] = "delete" => wcur'[v] \in wdoomed'[v]
    BY <2>1 DEF CoverInv
  <2>5. \A s \in objects : Built(s)'
    BY <2>1 DEF Built
  <2> QED BY <2>1, <2>2, <2>3, <2>4, <2>5, CoverCarry
<1>2. ASSUME NEW w \in Workers, Run(w) PROVE CoverInv'
  BY <1>2, FillCover, SweepCover DEF Run
<1>3. ASSUME NEW w \in Workers, Dies(w) PROVE CoverInv'
  BY <1>3, ReturnCover DEF Dies
<1> QED BY <1>1, <1>2, <1>3 DEF Next, Fails

LEMMA GcInvariant == ~MidPeriod => (Spec => []GcInv)
<1> SUFFICES ASSUME ~MidPeriod PROVE Spec => []GcInv
  OBVIOUS
<1>1. Init => GcInv
  BY InitType, InitCover DEF GcInv
<1>2. GcInv /\ [Next]_vars => GcInv'
  BY NextType, NextClosed, NextCover DEF GcInv
<1> QED BY <1>1, <1>2, PTL DEF Spec

\* A row without its object is a superseded one, when only periods that are
\* over are built.
THEOREM DanglingCoveredHolds == ~MidPeriod => (Spec => []DanglingCovered)
<1> SUFFICES ASSUME ~MidPeriod PROVE Spec => []DanglingCovered
  OBVIOUS
<1>1. GcInv => DanglingCovered
  BY DEF GcInv, CoverInv, Covered, Safe, DanglingCovered
<1> QED BY <1>1, GcInvariant, PTL

\* Only what is condemned goes out of service.
LEMMA OnlyCondemnedLost ==
    ASSUME GcInv, Next, NEW s \in Registered \cap objects, s \notin Registered' \cap objects'
    PROVE  \E w \in Workers : s \in wdoomed[w]
<1> USE DEF storeVars, eventVars, fillVars, sweepVars
<1>1. CASE Tick \/ \E w \in Workers : \/ StartTick(w) \/ Fails(w)
                                      \/ \E g \in Shards, kind \in {"gap", "scaffold"} :
                                            StartSingle(w, g, kind)
  <2>1. UNCHANGED <<objects, rows>>
    BY <1>1 DEF Tick, StartTick, StartSingle, Fails, ReconcileFails, StopEarly, Dies, RawNotReady
  <2> QED BY <2>1 DEF Registered
<1>2. ASSUME NEW w \in Workers, Fill(w) PROVE FALSE
  <2>1. objects \subseteq objects'
    BY <1>2 DEF Fill, Discover, ReconcileRead, ReconcileRegister, Exists, Missing, Build, TileGone, Put,
      Register, FillDone
  <2>2. rows' = rows \/ \E g \in Shards \cup {NoShard} : Upsert(g)
    BY <1>2 DEF Fill, Discover, ReconcileRead, ReconcileRegister, Exists, Missing, Build, TileGone, Put,
      Register, FillDone, GcInv, TypeOK
  <2>3. Registered \subseteq Registered'
    BY <2>2, UpsertRegistered DEF Registered
  <2> QED BY <2>1, <2>3
<1>3. ASSUME NEW w \in Workers, Sweep(w) PROVE s \in wdoomed[w]
  <2>1. CASE SweepRows(w) \/ SweepDone(w) \/ \E r \in wleft[w] : SweepSkip(w, r) \/ SweepCondemn(w, r)
    <3>1. UNCHANGED <<objects, rows>>
      BY <2>1 DEF SweepRows, SweepDone, SweepSkip, SweepCondemn
    <3> QED BY <3>1 DEF Registered
  <2>2. CASE SweepDelete(w)
    <3>1. objects' = objects \ {wcur[w]} /\ wcur[w] \in wdoomed[w] /\ UNCHANGED rows
      BY <2>2 DEF SweepDelete, GcInv, CoverInv
    <3> QED BY <3>1 DEF Registered
  <2>3. ASSUME NEW c \in SUBSET wdoomed[w], DropRows(w, c) PROVE s \in wdoomed[w]
    BY <2>3 DEF DropRows, Registered
  <2> QED BY <1>3, <2>1, <2>2, <2>3 DEF Sweep
<1> QED BY <1>1, <1>2, <1>3 DEF Next, Run

\* A served unit stays served, when only periods that are over are built.
THEOREM NoCoverageLostHolds == ~MidPeriod => (Spec => NoCoverageLost)
<1> SUFFICES ASSUME ~MidPeriod PROVE Spec => NoCoverageLost
  OBVIOUS
<1>1. ASSUME GcInv, GcInv', [Next]_vars
      PROVE  [\A u \in Units : Served(u) => Served(u)']_vars
  <2> SUFFICES ASSUME Next, NEW u \in Units, Served(u) PROVE Served(u)'
    BY <1>1
  <2>1. PICK s \in Registered \cap objects : u \in content[s]
    BY DEF Served
  <2>2. s \in Shards /\ u \in UnitsOf(s)
    BY <1>1, <2>1 DEF GcInv, TypeOK, ClosedInv
  <2>3. \A p \in Registered' \cap objects' : content'[p] = UnitsOf(p)
    BY <1>1 DEF GcInv, ClosedInv
  <2>4. CASE s \in Registered' \cap objects'
    BY <2>2, <2>3, <2>4 DEF Served
  <2>5. CASE s \notin Registered' \cap objects'
    <3>1. PICK w \in Workers : s \in wdoomed[w]
      BY <1>1, <2>5, OnlyCondemnedLost
    <3>2. PICK p \in Above(s) : Safe(p)
      BY <1>1, <3>1 DEF GcInv, CoverInv, Covered
    <3>3. p \in Registered \cap objects /\ \A v \in Workers : p \notin wdoomed[v]
      BY <3>2 DEF Safe
    <3>4. p \in Registered' \cap objects'
      BY <1>1, <3>3, OnlyCondemnedLost
    <3>5. u \in UnitsOf(p)
      BY <2>2, <3>2, AboveFacts
    <3> QED BY <2>3, <3>4, <3>5 DEF Served
  <2> QED BY <2>4, <2>5
<1> QED BY <1>1, GcInvariant, PTL DEF Spec, NoCoverageLost
=============================================================================
