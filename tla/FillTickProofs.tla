--------------------------- MODULE FillTickProofs ---------------------------
(***************************************************************************)
(* A prune never drops a request it has not read, and what is pruned is    *)
(* repaired, but for requests made while a tick builds and for shards the  *)
(* cover has left behind.                                                  *)
(***************************************************************************)
EXTENDS FillTick, TLAPS

LEMMA ShardFacts ==
    ASSUME NEW s \in Shards
    PROVE  /\ s.start \in Units /\ s.start \in Nat /\ s.dur \in Nat /\ s.dur > 0
           /\ s.tier \in Nat /\ End(s) \in Nat
<1>1. s \in [tier : Tiers, dur : 1 .. Horizon, start : Units]
  BY DEF Shards
<1>2. s.tier \in Tiers /\ s.dur \in 1 .. Horizon /\ s.start \in Units
  BY ONLY <1>1
<1>3. Horizon \in Nat /\ Tiers \subseteq Nat
  BY FillAssumption
<1>4. s.tier \in Nat
  BY ONLY <1>2, <1>3
<1>5. s.start \in Nat
  BY ONLY <1>2, <1>3 DEF Units
<1>6. s.dur \in Nat /\ s.dur > 0
  BY ONLY <1>2, <1>3
<1> QED BY <1>2, <1>4, <1>5, <1>6 DEF End

LEMMA UnitFacts == \A u \in Units : u \in Nat
BY FillAssumption DEF Units

-----------------------------------------------------------------------------
(* Types *)

LEMMA Fields ==
    ASSUME NEW e \in Requests
    PROVE  e.from \in Nat /\ e.to \in Nat /\ e.at \in Nat /\ e.ver \in Nat
BY DEF Requests

\* Requests with a time stamp are typed, and the journal is among them.
LEMMA AskedFacts == TypeOK => Asked \subseteq Requests /\ journal \subseteq Asked
BY DEF Asked, TypeOK

LEMMA InitType == Init => TypeOK
BY FillAssumption DEF Init, TypeOK, NoData, NoRequest, Requests, NoShard, Shard

LEMMA InputType ==
    ASSUME TypeOK, NEW g \in Shards
    PROVE  Input(g) \in [Units -> Nat]
<1>1. ASSUME NEW u \in Units, Tiles(g, u) # {}
      PROVE  content[CHOOSE s \in Tiles(g, u) : TRUE][u] \in Nat
  <2>1. (CHOOSE s \in Tiles(g, u) : TRUE) \in Tiles(g, u)
    BY <1>1
  <2>2. Tiles(g, u) \subseteq Shards
    BY DEF Tiles, SubTiles, SourceTiles, Longest, TypeOK
  <2> QED BY <2>1, <2>2 DEF TypeOK
<1> QED BY <1>1 DEF Input, TypeOK

LEMMA TickOverType ==
    ASSUME TickOver
    PROVE  /\ fpc' \in {"idle", "discover", "gaps", "put", "prune", "cas"}
           /\ finvs' \subseteq Requests /\ fkeys' \subseteq Shards /\ fgaps' \subseteq Shards
           /\ fcur' \in Shard /\ fbuf' \in [Units -> Nat] /\ (fpc' = "put" => fcur' \in Shards)
           /\ floaded' \subseteq Requests /\ ftries' \in Nat /\ ftries' < CasAttempts
BY FillAssumption DEF TickOver, Shard, NoData

LEMMA CallOverType ==
    ASSUME TypeOK, NEW p \in Producers, CallOver(p)
    PROVE  /\ ppc' \in [Producers -> {"idle", "stamp", "load", "cas"}]
           /\ pentry' \in [Producers -> Requests] /\ ploaded' \in [Producers -> SUBSET Requests]
           /\ ptries' \in [Producers -> 0 .. CasAttempts]
           /\ \A q \in Producers : ppc'[q] \in {"load", "cas"} => ptries'[q] < CasAttempts
<1>1. NoRequest \in Requests /\ 0 \in 0 .. CasAttempts
  BY FillAssumption DEF NoRequest, Requests
<1> QED BY <1>1, FillAssumption DEF CallOver, TypeOK

LEMMA NextType == TypeOK /\ [Next]_vars => TypeOK'
<1> SUFFICES ASSUME TypeOK, [Next]_vars PROVE TypeOK'
  OBVIOUS
<1> USE DEF rawVars, storeVars, producerVars, tickVars, pruneVars, history
<1>1. CASE UNCHANGED vars
  BY <1>1 DEF TypeOK, vars
<1>2. ASSUME NEW p \in Producers, Land(p) PROVE TypeOK'
  <2>1. PICK iv \in Intervals :
          /\ raw' = [u \in Units |-> IF iv[1] <= u /\ u < iv[2] THEN landed + 1 ELSE raw[u]]
          /\ pentry' = [pentry EXCEPT ![p] = [from |-> iv[1], to |-> iv[2],
                                              at |-> 0, ver |-> landed + 1]]
    BY <1>2 DEF Land
  <2>2. iv[1] \in Nat /\ iv[2] \in Nat
    BY FillAssumption
  <2>3. raw' \in [Units -> Nat]
    BY <2>1 DEF TypeOK
  <2>4. pentry' \in [Producers -> Requests]
    BY <2>1, <2>2 DEF TypeOK, Requests
  <2>5. ppc' \in [Producers -> {"idle", "stamp", "load", "cas"}]
    BY <1>2 DEF Land, TypeOK
  <2>6. \A q \in Producers : ppc'[q] \in {"load", "cas"} => ptries'[q] < CasAttempts
    BY <1>2 DEF Land, TypeOK
  <2> QED BY <1>2, <2>3, <2>4, <2>5, <2>6 DEF Land, TypeOK
<1>3. ASSUME NEW p \in Producers, Stamp(p) PROVE TypeOK'
  <2>1. pentry' \in [Producers -> Requests]
    <3>1. pentry \in [Producers -> Requests] /\ clock + 1 \in Nat
      BY DEF TypeOK
    <3>2. pentry' = [pentry EXCEPT ![p] = [pentry[p] EXCEPT !.at = clock + 1]]
      BY <1>3 DEF Stamp
    <3>3. [pentry[p] EXCEPT !.at = clock + 1] \in Requests
      BY <3>1 DEF Requests
    <3> QED BY <3>1, <3>2, <3>3
  <2>2. ptries' \in [Producers -> 0 .. CasAttempts]
    BY <1>3, FillAssumption DEF Stamp, TypeOK
  <2>3. \A q \in Producers : ppc'[q] \in {"load", "cas"} => ptries'[q] < CasAttempts
    BY <1>3, FillAssumption DEF Stamp, TypeOK
  <2> QED BY <1>3, <2>1, <2>2, <2>3 DEF Stamp, TypeOK
<1>4. ASSUME NEW p \in Producers, Load(p) PROVE TypeOK'
  BY <1>4 DEF Load, TypeOK
<1>5. ASSUME NEW p \in Producers, AppendEntry(p) PROVE TypeOK'
  <2>1. journal' \subseteq Requests
    BY <1>5 DEF AppendEntry, TypeOK
  <2> QED BY <1>5, <2>1, CallOverType DEF AppendEntry, TypeOK
<1>6. ASSUME NEW to \in Ranges, FillStart(to) PROVE TypeOK'
  BY <1>6, FillAssumption DEF FillStart, TypeOK
<1>7. CASE Discover
  <2>1. fkeys' \subseteq Shards /\ fgaps' \subseteq Shards
    BY <1>7 DEF Discover, TypeOK, Expected
  <2>2. passed' \subseteq Requests
    BY <1>7 DEF Discover, TypeOK
  <2> QED BY <1>7, <2>1, <2>2 DEF Discover, TypeOK
<1>8. ASSUME NEW g \in Shards, Materialize(g) PROVE TypeOK'
  BY <1>8, InputType DEF Materialize, Skip, TypeOK, Shard
<1>9. ASSUME NEW g \in Shards, RawNotReady(g) PROVE TypeOK'
  BY <1>9 DEF RawNotReady, Skip, TypeOK
<1>10. CASE PutShard
  <2>1. NoShard \in Shard /\ NoData \in [Units -> Nat]
    BY DEF Shard, NoData
  <2>2. unread' \subseteq Requests
    BY <1>10, AskedFacts DEF PutShard, TypeOK
  <2> QED BY <1>10, <2>1, <2>2 DEF PutShard, TypeOK
<1>11. CASE StopEarly
  BY <1>11 DEF StopEarly, TypeOK
<1>12. CASE FillDone
  BY <1>12, TickOverType DEF FillDone, TypeOK
<1>13. CASE PruneLoad
  BY <1>13, TickOverType DEF PruneLoad, TypeOK
<1>14. CASE Prune
  BY <1>14, TickOverType DEF Prune, TypeOK, Keep
<1>15. CASE PruneConflict
  BY <1>15, TickOverType, FillAssumption DEF PruneConflict, TypeOK, LastTry
<1>16. CASE TickDies
  BY <1>16, TickOverType DEF TickDies, TypeOK
<1>17. ASSUME NEW p \in Producers, AppendConflict(p) PROVE TypeOK'
  <2>1. CASE LastTry(ptries[p])
    <3>1. refused' \subseteq Requests
      BY <1>17, <2>1 DEF AppendConflict, TypeOK
    <3> QED BY CallOverType, <1>17, <2>1, <3>1 DEF AppendConflict, TypeOK
  <2>2. CASE ~LastTry(ptries[p])
    <3>1. ptries[p] \in Nat /\ ptries[p] < CasAttempts /\ ptries[p] + 1 < CasAttempts
      <4>1. ptries[p] \in 0 .. CasAttempts /\ ptries[p] < CasAttempts /\ CasAttempts \in Nat
        BY <1>17, FillAssumption DEF AppendConflict, TypeOK
      <4>2. ptries[p] + 1 # CasAttempts
        BY <2>2 DEF LastTry
      <4> QED BY <4>1, <4>2
    <3>2. ptries' = [ptries EXCEPT ![p] = ptries[p] + 1] /\ ppc' = [ppc EXCEPT ![p] = "load"]
      BY <1>17, <2>2 DEF AppendConflict
    <3>3. ptries' \in [Producers -> 0 .. CasAttempts]
      BY <3>1, <3>2, FillAssumption DEF TypeOK
    <3>4. \A q \in Producers : ppc'[q] \in {"load", "cas"} => ptries'[q] < CasAttempts
      BY <3>1, <3>2 DEF TypeOK
    <3>5. ploaded' \in [Producers -> SUBSET Requests]
      BY <1>17, <2>2 DEF AppendConflict, TypeOK
    <3> QED BY <1>17, <2>2, <3>2, <3>3, <3>4, <3>5 DEF AppendConflict, TypeOK
  <2> QED BY <2>1, <2>2
<1>18. ASSUME NEW g \in Shards, TileGone(g) PROVE TypeOK'
  BY <1>18, TickOverType DEF TileGone, TypeOK
<1>19. ASSUME NEW s \in Shards, Collect(s) PROVE TypeOK'
  BY <1>19 DEF Collect, TypeOK, NoData
<1> QED BY <1>1, <1>2, <1>3, <1>4, <1>5, <1>6, <1>7, <1>8, <1>9, <1>10, <1>11, <1>12, <1>13,
           <1>14, <1>15, <1>16, <1>17, <1>18, <1>19
  DEF Next, Producer, Invalidate, PutEntry, TickStep, PutPruned, TickFault

\* The types hold in every reachable state.
THEOREM TypeCorrect == Spec => []TypeOK
BY InitType, NextType, PTL DEF Spec

\* Nothing but a prune takes a request from the journal.
LEMMA OnlyPrunes == Next /\ ~Prune => journal \subseteq journal'
<1> SUFFICES ASSUME Next, ~Prune PROVE journal \subseteq journal'
  OBVIOUS
<1>1. ASSUME NEW p \in Producers, Producer(p) PROVE journal \subseteq journal'
  BY <1>1 DEF Producer, Invalidate, Land, Stamp, Load, PutEntry, AppendEntry, AppendConflict, Matches
<1>2. ASSUME NEW to \in Ranges, FillStart(to) PROVE UNCHANGED journal
  BY <1>2 DEF FillStart
<1>3. CASE TickFault
  BY <1>3 DEF TickFault, RawNotReady, StopEarly, TickDies
<1>4. CASE TickStep
  BY <1>4 DEF TickStep, Discover, Materialize, TileGone, PutShard, FillDone, PruneLoad, PutPruned,
    PruneConflict
<1>5. ASSUME NEW s \in Shards, Collect(s) PROVE UNCHANGED journal
  BY <1>5 DEF Collect
<1> QED BY <1>1, <1>2, <1>3, <1>4, <1>5 DEF Next

\* A request leaves the journal only by a prune that has read it.
THEOREM NoDroppedAppendHolds == Spec => NoDroppedAppend
<1>1. ASSUME [Next]_vars PROVE [journal \ journal' \subseteq floaded]_vars
  <2> SUFFICES ASSUME Next PROVE journal \ journal' \subseteq floaded
    BY <1>1
  <2>1. CASE Prune
    BY <2>1 DEF Prune, Matches
  <2>2. CASE ~Prune
    BY <2>2, OnlyPrunes
  <2> QED BY <2>1, <2>2
<1> QED BY <1>1, PTL DEF Spec, NoDroppedAppend

-----------------------------------------------------------------------------
(* What is pruned is repaired *)

Landed(e) ==
    /\ e.ver <= landed
    /\ \A u \in Units : InRequest(e, u) => raw[u] >= e.ver

\* Requests the properties make no exception for.
Plain(es) == es \ (unread \cup passed)

\* A shard that was built after a plain request holds the data of the request.
RequestInv ==
    /\ \A s \in Shards : mtime[s] <= clock
    /\ \A s \in objects : End(s) <= now
    /\ \A p \in Producers : ppc[p] = "stamp" => Landed(pentry[p])
    /\ \A e \in Asked : Landed(e) /\ e.at <= clock
    /\ \A e \in Plain(Asked), s \in objects : mtime[s] >= e.at => Held(e, s, content[s])

\* The requests a tick has read stay in the journal while it runs.  No shard it
\* may read is older than one of them that overlaps it, and what it is about to
\* put holds their data.
FillInv ==
    /\ fpc # "idle" => now \in Ranges /\ finvs \subseteq journal
    /\ fpc \in {"gaps", "put"} =>
          /\ fgaps \subseteq Expected(now)
          /\ \A s \in fkeys \cap objects, e \in finvs \ passed : Overlaps(e, s) => mtime[s] >= e.at
    /\ fpc = "put" => fcur \in fgaps /\ \A e \in Plain(finvs) : Held(e, fcur, fbuf)

RepairInv == TypeOK /\ RequestInv /\ FillInv

LEMMA InitRepair == Init => RepairInv
<1> SUFFICES ASSUME Init PROVE RepairInv
  OBVIOUS
<1>1. TypeOK
  BY InitType
<1>2. RequestInv
  BY FillAssumption DEF Init, RequestInv, Asked, Plain
<1>3. FillInv
  BY DEF Init, FillInv
<1> QED BY <1>1, <1>2, <1>3 DEF RepairInv

\* A step that puts nothing and stamps no request keeps what is known.
LEMMA RequestsCarry ==
    ASSUME TypeOK, RequestInv, UNCHANGED <<raw, landed, clock, unread>>,
           objects' \subseteq objects,
           \A s \in objects' : mtime'[s] = mtime[s] /\ content'[s] = content[s],
           \A s \in Shards : mtime'[s] \in Nat /\ mtime'[s] <= mtime[s],
           now' \in Nat, now <= now', passed \subseteq passed', Asked' \subseteq Asked,
           \A p \in Producers : ppc'[p] = "stamp" => ppc[p] = "stamp" /\ pentry'[p] = pentry[p]
    PROVE  RequestInv'
<1>1. \A s \in Shards : mtime'[s] <= clock'
  BY DEF RequestInv, TypeOK
<1>2. \A s \in objects' : End(s) <= now'
  <2>1. \A s \in objects' : End(s) \in Nat /\ End(s) <= now
    BY ShardFacts DEF RequestInv, TypeOK
  <2> QED BY <2>1 DEF TypeOK
<1>3. \A p \in Producers : ppc'[p] = "stamp" => Landed(pentry[p])'
  BY DEF RequestInv, Landed
<1>4. \A e \in Asked' : Landed(e)' /\ e.at <= clock'
  BY DEF RequestInv, Landed
<1>5. \A e \in Plain(Asked)', s \in objects' : mtime'[s] >= e.at => Held(e, s, content'[s])
  <2>1. Plain(Asked)' \subseteq Plain(Asked)
    BY DEF Plain
  <2> QED BY <2>1 DEF RequestInv
<1> QED BY <1>1, <1>2, <1>3, <1>4, <1>5 DEF RequestInv, Held

LEMMA LandRequests ==
    ASSUME TypeOK, RequestInv, NEW p \in Producers, Land(p)
    PROVE  RequestInv'
<1>1. PICK iv \in Intervals :
        /\ raw' = [u \in Units |-> IF iv[1] <= u /\ u < iv[2] THEN landed + 1 ELSE raw[u]]
        /\ pentry' = [pentry EXCEPT ![p] = [from |-> iv[1], to |-> iv[2],
                                            at |-> 0, ver |-> landed + 1]]
  BY DEF Land
<1>2. /\ UNCHANGED <<clock, now, objects, mtime, content, journal, unread, passed>>
      /\ landed' = landed + 1 /\ landed \in Nat
      /\ ppc' = [ppc EXCEPT ![p] = "stamp"] /\ ppc[p] = "idle"
  BY DEF Land, storeVars, history, TypeOK
<1>3. \A q \in Producers : q # p => ppc'[q] = ppc[q] /\ pentry'[q] = pentry[q]
  BY <1>1, <1>2 DEF TypeOK
<1>4. ppc'[p] = "stamp" /\ pentry'[p] = [from |-> iv[1], to |-> iv[2], at |-> 0, ver |-> landed + 1]
  BY <1>1, <1>2 DEF TypeOK
<1>5. Asked' \subseteq Asked
  BY <1>2, <1>3, <1>4 DEF Asked
<1>6. \A u \in Units : raw[u] \in Nat /\ (raw'[u] = landed + 1 \/ raw'[u] = raw[u])
  BY <1>1 DEF TypeOK
<1>7. ASSUME NEW e \in Requests, Landed(e) PROVE Landed(e)'
  <2>1. e.ver \in Nat
    BY Fields
  <2>2. e.ver <= landed'
    BY <1>2, <1>7, <2>1 DEF Landed
  <2>3. ASSUME NEW u \in Units, InRequest(e, u) PROVE raw'[u] >= e.ver
    BY <1>2, <1>6, <1>7, <2>1, <2>3 DEF Landed
  <2> QED BY <2>2, <2>3 DEF Landed, InRequest
<1>8. ASSUME NEW q \in Producers, ppc'[q] = "stamp" PROVE Landed(pentry[q])'
  <2>1. CASE q = p
    <3>1. \A u \in Units : iv[1] <= u /\ u < iv[2] => raw'[u] = landed + 1
      BY <1>1
    <3> QED BY <1>2, <1>4, <2>1, <3>1 DEF Landed, InRequest
  <2>2. CASE q # p
    <3>1. pentry[q] \in Requests /\ Landed(pentry[q])
      BY <1>3, <1>8, <2>2 DEF RequestInv, TypeOK
    <3>2. \A e \in Requests : Landed(e) => Landed(e)'
      BY <1>7
    <3>3. pentry'[q] = pentry[q]
      BY <1>3, <2>2
    <3> QED BY <3>1, <3>2, <3>3 DEF Landed, InRequest
  <2> QED BY <2>1, <2>2
<1>9. \A e \in Asked' : Landed(e)' /\ e.at <= clock'
  <2>1. \A e \in Requests : Landed(e) => Landed(e)'
    BY <1>7
  <2> QED BY <1>2, <1>5, <2>1, AskedFacts DEF RequestInv
<1>10. \A e \in Plain(Asked)', s \in objects' : mtime'[s] >= e.at => Held(e, s, content'[s])
  BY <1>2, <1>5 DEF RequestInv, Plain
<1>11. /\ \A s \in Shards : mtime'[s] <= clock'
       /\ \A s \in objects' : End(s) <= now'
  BY <1>2 DEF RequestInv
<1> QED BY <1>8, <1>9, <1>10, <1>11 DEF RequestInv, Held

LEMMA StampRequests ==
    ASSUME TypeOK, RequestInv, NEW p \in Producers, Stamp(p)
    PROVE  RequestInv'
<1>1. /\ UNCHANGED <<raw, landed, now, objects, mtime, content, journal, unread, passed>>
      /\ clock' = clock + 1 /\ clock \in Nat /\ ppc[p] = "stamp"
      /\ ppc' = [ppc EXCEPT ![p] = "load"] /\ pentry' = [pentry EXCEPT ![p].at = clock + 1]
  BY DEF Stamp, rawVars, storeVars, history, TypeOK
<1>2. \A q \in Producers : q # p => ppc'[q] = ppc[q] /\ pentry'[q] = pentry[q]
  BY <1>1 DEF TypeOK
<1>3. /\ ppc'[p] = "load" /\ pentry[p] \in Requests
      /\ pentry'[p] = [from |-> pentry[p].from, to |-> pentry[p].to, at |-> clock + 1,
                       ver |-> pentry[p].ver]
  BY <1>1 DEF TypeOK, Requests
<1>4. Asked' \subseteq Asked \cup {pentry'[p]}
  BY <1>1, <1>2, <1>3 DEF Asked
<1>5. \A s \in Shards : mtime[s] \in Nat /\ mtime[s] <= clock
  BY DEF TypeOK, RequestInv
<1>6. ASSUME NEW e \in Asked'
      PROVE  /\ Landed(e)' /\ e.at <= clock'
             /\ e \notin unread \cup passed => \A s \in objects : mtime[s] >= e.at => Held(e, s, content[s])
  <2>1. CASE e \in Asked
    <3>1. e \in Requests /\ e.at \in Nat
      BY <2>1, AskedFacts, Fields
    <3>2. Landed(e) /\ e.at <= clock
      BY <2>1 DEF RequestInv
    <3>3. e \notin unread \cup passed => \A s \in objects : mtime[s] >= e.at => Held(e, s, content[s])
      BY <2>1 DEF RequestInv, Plain
    <3> QED BY <1>1, <3>1, <3>2, <3>3 DEF Landed
  <2>2. CASE e = pentry'[p]
    <3>1. Landed(pentry[p])
      BY <1>1 DEF RequestInv
    <3>2. Landed(e)' /\ e.at = clock + 1
      BY <1>1, <1>3, <2>2, <3>1 DEF Landed, InRequest
    <3>3. \A s \in objects : ~(mtime[s] >= e.at)
      BY <1>1, <1>5, <3>2 DEF TypeOK
    <3> QED BY <1>1, <3>2, <3>3
  <2> QED BY <1>4, <2>1, <2>2
<1>7. \A q \in Producers : ppc'[q] = "stamp" => Landed(pentry[q])'
  BY <1>1, <1>2, <1>3 DEF RequestInv, Landed
<1>8. \A s \in Shards : mtime'[s] <= clock'
  BY <1>1, <1>5
<1>9. \A s \in objects' : End(s) <= now'
  BY <1>1 DEF RequestInv
<1>10. \A e \in Asked' : Landed(e)' /\ e.at <= clock'
  BY <1>6
<1>11. \A e \in Plain(Asked)', s \in objects' : mtime'[s] >= e.at => Held(e, s, content'[s])
  <2>1. Plain(Asked)' = Asked' \ (unread \cup passed) /\ objects' = objects /\ mtime' = mtime /\ content' = content
    BY <1>1 DEF Plain
  <2> QED BY <1>6, <2>1
<1> QED BY <1>7, <1>8, <1>9, <1>10, <1>11 DEF RequestInv, Held

LEMMA PutRequests ==
    ASSUME TypeOK, RequestInv, FillInv, PutShard
    PROVE  RequestInv'
<1>1. /\ UNCHANGED <<raw, landed, clock, now, journal, ppc, pentry, passed>> /\ fpc = "put"
      /\ objects' = objects \cup {fcur} /\ mtime' = [mtime EXCEPT ![fcur] = clock]
      /\ content' = [content EXCEPT ![fcur] = fbuf] /\ fcur \in Shards /\ clock \in Nat
      /\ unread' = unread \cup {e \in Asked \ finvs : Overlaps(e, fcur)}
  BY DEF PutShard, rawVars, producerVars, TypeOK
<1>2. /\ End(fcur) <= now
      /\ \A e \in Plain(finvs) : Held(e, fcur, fbuf)
  BY <1>1 DEF FillInv, Expected
<1>3. Asked' = Asked
  BY <1>1 DEF Asked
<1>4. mtime'[fcur] = clock /\ content'[fcur] = fbuf
  BY <1>1 DEF TypeOK
<1>5. \A s \in objects : s # fcur => mtime'[s] = mtime[s] /\ content'[s] = content[s]
  BY <1>1 DEF TypeOK
<1>6. Plain(Asked)' \subseteq Plain(Asked)
  BY <1>1, <1>3 DEF Plain
<1>7. ASSUME NEW e \in Plain(Asked)', NEW s \in objects', mtime'[s] >= e.at
      PROVE  Held(e, s, content'[s])
  <2>1. e \in Asked /\ e \in Requests /\ e \in Plain(Asked) /\ e \notin unread' /\ e \notin passed
    BY <1>1, <1>3, <1>6, <1>7, AskedFacts DEF Plain
  <2>2. CASE s = fcur /\ e \in finvs
    <3>1. e \in Plain(finvs)
      BY <2>1, <2>2 DEF Plain
    <3> QED BY <1>2, <1>4, <2>2, <3>1
  <2>3. CASE s = fcur /\ e \notin finvs
    <3>1. ~Overlaps(e, fcur)
      BY <1>1, <2>1, <2>3
    <3>2. e.from \in Nat /\ e.to \in Nat /\ fcur.start \in Nat /\ End(fcur) \in Nat
      BY <1>1, <2>1, Fields, ShardFacts
    <3>3. \A u \in UnitsOf(fcur) : u \in Nat /\ fcur.start <= u /\ u < End(fcur)
      BY UnitFacts DEF UnitsOf
    <3>4. \A u \in UnitsOf(fcur) : ~InRequest(e, u)
      BY <3>1, <3>2, <3>3 DEF Overlaps, InRequest
    <3> QED BY <2>3, <3>4 DEF Held
  <2>4. CASE s # fcur
    BY <1>1, <1>5, <1>7, <2>1, <2>4 DEF RequestInv
  <2> QED BY <2>2, <2>3, <2>4
<1>8. \A e \in Asked' : Landed(e)' /\ e.at <= clock'
  BY <1>1, <1>3 DEF RequestInv, Landed
<1>9. /\ \A s \in objects' : End(s) <= now'
      /\ \A p \in Producers : ppc'[p] = "stamp" => Landed(pentry[p])'
  BY <1>1, <1>2 DEF RequestInv, Landed
<1>10. \A s \in Shards : mtime'[s] <= clock'
  BY <1>1 DEF TypeOK, RequestInv
<1> QED BY <1>7, <1>8, <1>9, <1>10 DEF RequestInv, Held

\* A gap is read from raw data and from tiles that are there, so it holds the
\* data of every plain request the tick has read.
LEMMA InputHeld ==
    ASSUME RepairInv, fpc = "gaps", NEW g \in Shards, HolesFilled(g), TilesThere(g),
           NEW e \in Plain(finvs)
    PROVE  Held(e, g, Input(g))
<1> SUFFICES ASSUME NEW u \in UnitsOf(g), InRequest(e, u) PROVE Input(g)[u] >= e.ver
  BY DEF Held
<1>1. /\ e \in finvs \ passed /\ e \in Plain(Asked) /\ e \in Requests /\ Landed(e)
  BY AskedFacts DEF RepairInv, RequestInv, FillInv, Plain
<1>2. /\ \A s \in fkeys \cap objects : Overlaps(e, s) => mtime[s] >= e.at
      /\ \A s \in objects : mtime[s] >= e.at => Held(e, s, content[s])
  BY <1>1 DEF RepairInv, RequestInv, FillInv
<1>3. u \in Units /\ u \in Nat
  BY UnitFacts DEF UnitsOf
<1>4. CASE Tiles(g, u) = {}
  BY <1>1, <1>3, <1>4 DEF Input, Landed
<1>5. ASSUME NEW s \in Tiles(g, u) PROVE content[s][u] >= e.ver
  <2>1. s \in fkeys /\ u \in UnitsOf(s)
    BY <1>5 DEF Tiles, SubTiles, SourceTiles, Longest
  <2>2. s \in objects
    BY <1>5 DEF HolesFilled, TilesThere, Tiles
  <2>3. s \in Shards /\ s.start \in Nat /\ End(s) \in Nat /\ s.start <= u /\ u < End(s)
    BY <2>1, <2>2, ShardFacts DEF RepairInv, TypeOK, UnitsOf
  <2>4. Overlaps(e, s)
    BY <1>1, <1>3, <2>3, Fields DEF Overlaps, InRequest
  <2>5. Held(e, s, content[s])
    BY <1>2, <2>1, <2>2, <2>4
  <2> QED BY <2>1, <2>5 DEF Held
<1>6. CASE Tiles(g, u) # {}
  <2>1. (CHOOSE s \in Tiles(g, u) : TRUE) \in Tiles(g, u)
    BY <1>6
  <2>2. Input(g)[u] = content[CHOOSE s \in Tiles(g, u) : TRUE][u]
    BY <1>3, <1>6 DEF Input
  <2> QED BY <1>5, <2>1, <2>2
<1> QED BY <1>4, <1>6

\* A producer disturbs nothing the tick relies on: the journal only grows.
LEMMA ProducerFill ==
    ASSUME FillInv, NEW p \in Producers, Producer(p)
    PROVE  FillInv'
<1>1. /\ UNCHANGED <<fpc, now, finvs, fkeys, fgaps, fcur, fbuf, objects, mtime, unread, passed>>
      /\ journal \subseteq journal'
  BY DEF Producer, Invalidate, Land, Stamp, Load, PutEntry, AppendEntry, AppendConflict, Matches,
    tickVars, storeVars, history
<1> QED BY <1>1 DEF FillInv, Held, Plain

LEMMA DiscoverFill ==
    ASSUME FillInv, TypeOK, Discover
    PROVE  FillInv'
<1>1. /\ UNCHANGED <<now, finvs, journal, objects, mtime, unread>> /\ fpc = "discover"
      /\ fpc' = "gaps" /\ now \in Ranges /\ finvs \subseteq journal
      /\ fkeys' = objects \ Stale(finvs, Expected(now)) /\ fgaps' \subseteq Expected(now)
      /\ passed' = passed \cup {e \in finvs : Stale({e}, objects \ Expected(now)) # {}}
  BY DEF Discover, FillInv, storeVars, producerVars
<1>2. ASSUME NEW s \in fkeys' \cap objects', NEW e \in finvs' \ passed', Overlaps(e, s)
      PROVE  mtime'[s] >= e.at
  <2>1. s \in Shards /\ s \in objects /\ e \in finvs /\ e \notin passed'
    BY <1>1, <1>2 DEF TypeOK
  <2>2. ~StaleFor(e, s)
    <3>1. CASE s \in Expected(now)
      BY <1>1, <1>2, <2>1, <3>1 DEF Stale
    <3>2. CASE s \notin Expected(now)
      BY <1>1, <2>1, <3>2 DEF Stale
    <3> QED BY <3>1, <3>2
  <2>3. mtime[s] \in Nat /\ e.at \in Nat
    BY <2>1, Fields DEF TypeOK
  <2> QED BY <1>1, <1>2, <2>1, <2>2, <2>3 DEF StaleFor
<1> QED BY <1>1, <1>2 DEF FillInv

LEMMA MaterializeFill ==
    ASSUME RepairInv, NEW g \in Shards, Materialize(g)
    PROVE  FillInv'
<1>1. /\ UNCHANGED <<now, finvs, journal, objects, mtime, unread, passed>>
      /\ fpc = "gaps" /\ g \in fgaps /\ FillInv
  BY DEF Materialize, Due, RepairInv, storeVars, history
<1>2. CASE HeadExists(g)
  <2>1. fkeys' = fkeys \cup {g} /\ fgaps' = fgaps \ {g} /\ fpc' = "gaps"
    BY <1>1, <1>2 DEF Materialize, Skip
  <2>2. \A e \in finvs : ~Overlaps(e, g)
    BY <1>2 DEF HeadExists
  <2> QED BY <1>1, <2>1, <2>2 DEF FillInv
<1>3. CASE ~HeadExists(g) /\ ~(HolesFilled(g) /\ TilesThere(g) /\ Input(g) # NoData)
  <2>1. fkeys' = fkeys /\ fgaps' = fgaps \ {g} /\ fpc' = "gaps"
    BY <1>1, <1>3 DEF Materialize, Skip
  <2> QED BY <1>1, <2>1 DEF FillInv
<1>4. CASE ~HeadExists(g) /\ HolesFilled(g) /\ TilesThere(g) /\ Input(g) # NoData
  <2>1. fkeys' = fkeys /\ fgaps' = fgaps /\ fcur' = g /\ fbuf' = Input(g) /\ fpc' = "put"
    BY <1>4 DEF Materialize, Skip
  <2>2. \A e \in Plain(finvs) : Held(e, g, Input(g))
    BY <1>1, <1>4, InputHeld
  <2> QED BY <1>1, <2>1, <2>2 DEF FillInv, Held, Plain
<1> QED BY <1>2, <1>3, <1>4

LEMMA PutFill ==
    ASSUME RepairInv, PutShard
    PROVE  FillInv'
<1>1. /\ UNCHANGED <<now, finvs, journal, clock, passed>> /\ fpc = "put" /\ fpc' = "gaps"
      /\ objects' = objects \cup {fcur} /\ mtime' = [mtime EXCEPT ![fcur] = clock]
      /\ fkeys' = fkeys \cup {fcur} /\ fgaps' \subseteq fgaps /\ fcur \in Shards
      /\ FillInv /\ TypeOK
  BY DEF PutShard, producerVars, RepairInv, TypeOK
<1>2. \A e \in finvs : e.at <= clock
  BY <1>1, AskedFacts DEF RepairInv, RequestInv, FillInv
<1>3. ASSUME NEW s \in fkeys' \cap objects', NEW e \in finvs' \ passed', Overlaps(e, s)
      PROVE  mtime'[s] >= e.at
  <2>1. e \in finvs \ passed /\ e.at \in Nat /\ clock \in Nat
    BY <1>1, <1>3, Fields DEF TypeOK
  <2>2. CASE s = fcur
    BY <1>1, <1>2, <2>1, <2>2 DEF TypeOK
  <2>3. CASE s # fcur
    <3>1. s \in fkeys \cap objects /\ mtime'[s] = mtime[s]
      BY <1>1, <1>3, <2>3 DEF TypeOK
    <3> QED BY <1>1, <1>3, <2>1, <3>1 DEF FillInv
  <2> QED BY <2>2, <2>3
<1> QED BY <1>1, <1>3 DEF FillInv

LEMMA CollectRepair ==
    ASSUME RepairInv, NEW s \in Shards, Collect(s)
    PROVE  RequestInv' /\ FillInv'
<1>1. /\ UNCHANGED <<raw, landed, clock, now, journal, ppc, pentry, fpc, finvs, fkeys, fgaps, fcur, fbuf>>
      /\ UNCHANGED <<unread, passed>>
      /\ objects' = objects \ {s} /\ mtime' = [mtime EXCEPT ![s] = 0]
      /\ content' = [content EXCEPT ![s] = NoData]
      /\ TypeOK /\ RequestInv /\ FillInv
  BY DEF Collect, RepairInv, rawVars, producerVars, tickVars, history
<1>2. /\ \A o \in objects' : o \in objects /\ mtime'[o] = mtime[o] /\ content'[o] = content[o]
      /\ \A o \in Shards : mtime'[o] \in Nat /\ mtime'[o] <= mtime[o]
  BY <1>1 DEF TypeOK
<1>3. Asked' = Asked /\ now \in Nat
  BY <1>1 DEF Asked, TypeOK
<1>4. RequestInv'
  BY <1>1, <1>2, <1>3, RequestsCarry
<1>5. FillInv'
  BY <1>1, <1>2 DEF FillInv, Held, Plain
<1> QED BY <1>4, <1>5

LEMMA NextRepair == RepairInv /\ [Next]_vars => RepairInv'
<1> SUFFICES ASSUME RepairInv, [Next]_vars PROVE RepairInv'
  OBVIOUS
<1>0. TypeOK /\ RequestInv /\ FillInv /\ TypeOK'
  BY NextType DEF RepairInv
<1> SUFFICES RequestInv' /\ FillInv'
  BY <1>0 DEF RepairInv
<1>1. now \in Nat /\ now' \in Nat /\ \A s \in Shards : mtime[s] \in Nat /\ mtime'[s] \in Nat
  BY <1>0 DEF TypeOK
<1>2. CASE UNCHANGED vars
  <2>1. /\ UNCHANGED <<raw, landed, clock, now, objects, mtime, content, journal, ppc, pentry>>
        /\ UNCHANGED <<fpc, finvs, fkeys, fgaps, fcur, fbuf, unread, passed>>
    BY <1>2 DEF vars, rawVars, storeVars, producerVars, tickVars, history
  <2>2. Asked' = Asked
    BY <2>1 DEF Asked
  <2>3. RequestInv'
    BY <1>0, <1>1, <2>1, <2>2, RequestsCarry
  <2> QED BY <1>0, <2>1, <2>3 DEF FillInv, Held, Plain
<1>3. ASSUME NEW p \in Producers, Producer(p) PROVE RequestInv' /\ FillInv'
  <2>1. FillInv'
    BY <1>0, <1>3, ProducerFill
  <2>2. CASE Land(p)
    BY <1>0, <2>1, <2>2, LandRequests
  <2>3. CASE Stamp(p)
    BY <1>0, <2>1, <2>3, StampRequests
  <2>4. CASE Load(p) \/ AppendEntry(p) \/ AppendConflict(p)
    <3>1. /\ UNCHANGED <<raw, landed, clock, now, objects, mtime, content, unread, passed>>
          /\ journal' \subseteq journal \cup {pentry[p]} /\ ppc[p] \in {"load", "cas"}
          /\ ppc'[p] \in {"load", "cas", "idle"}
          /\ ppc'[p] \in {"load", "cas"} => pentry'[p] = pentry[p]
          /\ \A q \in Producers : q # p => ppc'[q] = ppc[q] /\ pentry'[q] = pentry[q]
      BY <1>0, <2>4 DEF Load, AppendEntry, AppendConflict, CallOver, Matches, rawVars, storeVars,
        history, TypeOK
    <3>2. Asked' \subseteq Asked
      BY <3>1 DEF Asked
    <3>3. \A q \in Producers : ppc'[q] = "stamp" => ppc[q] = "stamp" /\ pentry'[q] = pentry[q]
      BY <3>1
    <3>4. RequestInv'
      BY <1>0, <1>1, <3>1, <3>2, <3>3, RequestsCarry
    <3> QED BY <2>1, <3>4
  <2> QED BY <1>3, <2>2, <2>3, <2>4 DEF Producer, Invalidate, PutEntry
<1>4. CASE PutShard
  BY <1>0, <1>4, PutRequests, PutFill DEF RepairInv
<1>5. ASSUME \/ \E to \in Ranges : FillStart(to)
             \/ TickFault
             \/ TickStep /\ ~PutShard
      PROVE  RequestInv'
  <2>1. /\ UNCHANGED <<raw, landed, clock, objects, mtime, content, ppc, pentry, unread>>
        /\ journal' \subseteq journal /\ passed \subseteq passed'
    BY <1>5 DEF FillStart, TickFault, RawNotReady, StopEarly, TickDies, TickStep, Discover,
      Materialize, TileGone, FillDone, PruneLoad, PutPruned, Prune, PruneConflict, Matches, Keep,
      rawVars, storeVars, producerVars, history
  <2>2. now <= now'
    <3>1. CASE \E to \in Ranges : FillStart(to)
      BY <3>1 DEF FillStart
    <3>2. CASE TickFault
      BY <1>1, <3>2 DEF TickFault, RawNotReady, StopEarly, TickDies
    <3>3. CASE TickStep /\ ~PutShard
      BY <1>1, <3>3 DEF TickStep, Discover, Materialize, TileGone, FillDone, PruneLoad, PutPruned,
        Prune, PruneConflict
    <3> QED BY <1>5, <3>1, <3>2, <3>3
  <2>3. Asked' \subseteq Asked
    BY <2>1 DEF Asked
  <2> QED BY <1>0, <1>1, <2>1, <2>2, <2>3, RequestsCarry
<1>6. ASSUME NEW to \in Ranges, FillStart(to) PROVE FillInv'
  BY <1>6 DEF FillStart, FillInv, producerVars
<1>7. ASSUME Discover PROVE FillInv'
  BY <1>0, <1>7, DiscoverFill
<1>8. ASSUME NEW g \in Shards, Materialize(g) PROVE FillInv'
  BY <1>8, MaterializeFill
<1>9. ASSUME fpc' = "idle" PROVE FillInv'
  BY <1>9 DEF FillInv
<1>10. ASSUME StopEarly \/ \E g \in Shards : RawNotReady(g) PROVE FillInv'
  <2>1. /\ UNCHANGED <<now, finvs, journal, objects, mtime, fkeys, unread, passed>>
        /\ fpc = "gaps" /\ fpc' = "gaps" /\ fgaps' \subseteq fgaps
    BY <1>10 DEF StopEarly, RawNotReady, Due, Skip, storeVars, producerVars, history
  <2> QED BY <1>0, <2>1 DEF FillInv
<1>11. ASSUME FillDone \/ PruneLoad \/ PruneConflict, fpc' # "idle" PROVE FillInv'
  <2>1. UNCHANGED <<now, finvs, journal>> /\ fpc # "idle" /\ fpc' \notin {"gaps", "put"}
    BY <1>11 DEF FillDone, PruneLoad, PruneConflict, TickOver, tickVars, producerVars
  <2> QED BY <1>0, <2>1 DEF FillInv
<1>12. ASSUME Prune \/ TickDies \/ \E g \in Shards : TileGone(g) PROVE fpc' = "idle"
  BY <1>12 DEF Prune, TickDies, TileGone, TickOver
<1>13. ASSUME NEW s \in Shards, Collect(s) PROVE RequestInv' /\ FillInv'
  BY <1>13, CollectRepair
<1> QED BY <1>2, <1>3, <1>4, <1>5, <1>6, <1>7, <1>8, <1>9, <1>10, <1>11, <1>12, <1>13
  DEF Next, TickStep, PutPruned, TickFault

\* A prune takes a plain request only when the shards hold its data.
LEMMA PruneRepaired ==
    ASSUME RepairInv, Prune, NEW e \in Plain(journal \ journal'), NEW s \in Cover \cap objects
    PROVE  Held(e, s, content[s])
<1>1. e \in journal /\ e \in Plain(Asked) /\ e \in Requests /\ ~Kept(e) /\ now \in Ranges
  BY AskedFacts DEF Prune, Matches, Keep, RepairInv, FillInv, Plain
<1>2. s \in Shards /\ s \in objects /\ s.start \in Nat /\ End(s) \in Nat /\ mtime[s] \in Nat /\ End(s) <= now
  BY ShardFacts DEF RepairInv, RequestInv, TypeOK
<1>3. e.from \in Nat /\ e.to \in Nat /\ e.at \in Nat
  BY <1>1, Fields
<1>4. s \in Expected(now)
  <2>1. now \in Nat /\ now <= Horizon /\ Horizon \in Nat
    BY <1>1, FillAssumption
  <2>2. ASSUME NEW o \in Shards, Covers(o, s) PROVE End(o) > now
    <3>1. End(o) > Horizon /\ End(o) \in Nat
      BY <2>2, ShardFacts DEF Cover, Expected
    <3> QED BY <2>1, <3>1
  <2> QED BY <1>2, <2>2 DEF Expected
<1>5. CASE Overlaps(e, s)
  <2>1. ~StaleFor(e, s)
    BY <1>1, <1>4 DEF Kept, Stale
  <2>2. mtime[s] >= e.at
    BY <1>2, <1>3, <1>5, <2>1 DEF StaleFor
  <2> QED BY <1>1, <1>2, <2>2 DEF RepairInv, RequestInv
<1>6. CASE ~Overlaps(e, s)
  <2>1. \A u \in UnitsOf(s) : u \in Nat /\ s.start <= u /\ u < End(s)
    BY UnitFacts DEF UnitsOf
  <2>2. \A u \in UnitsOf(s) : ~InRequest(e, u)
    BY <1>2, <1>3, <1>6, <2>1 DEF Overlaps, InRequest
  <2> QED BY <2>2 DEF Held
<1> QED BY <1>5, <1>6

\* For every ladder, horizon, number of producers and attempts, whatever
\* requests, ticks and collections do to each other: a request that is pruned is
\* repaired in every shard of the cover, unless a tick that had not read it put
\* a shard it overlaps, or a shard left behind by the cover was too old for it.
THEOREM PrunedMeansRepairedHolds == Spec => PrunedMeansRepaired
<1>1. Init => RepairInv
  BY InitRepair
<1>2. RepairInv /\ [Next]_vars => RepairInv'
  BY NextRepair
<1>3. ASSUME RepairInv, [Next]_vars
      PROVE  [RepairedAll((journal \ journal') \ (unread \cup passed))]_vars
  <2> SUFFICES ASSUME Next, NEW e \in Plain(journal \ journal'), NEW s \in Cover \cap objects
               PROVE  Held(e, s, content[s])
    BY <1>3 DEF RepairedAll, Plain
  <2>1. Prune
    BY OnlyPrunes DEF Plain
  <2> QED BY <1>3, <2>1, PruneRepaired
<1> QED BY <1>1, <1>2, <1>3, PTL DEF Spec, PrunedMeansRepaired
=============================================================================
