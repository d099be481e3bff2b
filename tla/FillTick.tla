------------------------------- MODULE FillTick -------------------------------
(***************************************************************************)
(* The extension-fill tick and the invalidation journal: producers change  *)
(* raw data and append repair requests (pyrmts/invalidation.py), a tick    *)
(* discovers missing and stale shards, rebuilds them in place and prunes   *)
(* the spent requests (pyrmts_engine/consolidate.py, discovery.py,         *)
(* invalidation.py), the registry collection deletes shards that larger    *)
(* ones cover (pyrmts_ops/gc.py).  Each may come between any two steps of  *)
(* another.                                                                *)
(*                                                                         *)
(* Time is a row of units 0 .. Horizon-1.  A shard is a tier, a duration   *)
(* and a start; its content is the version of the raw data it holds, unit  *)
(* by unit, 0 for no rows.  The template is hashless: the listing says     *)
(* what is built and the mtime when.  Only the tick writes shards.         *)
(***************************************************************************)
EXTENDS Integers, FiniteSets, FiniteSetsExt

CONSTANTS
    Rungs,         \* per tier, finest first: the durations of its shards
    Horizon,       \* units of time
    Ranges,        \* the instants at which ticks run, over all units before
    Intervals,     \* the intervals <<a, b>> raw data changes on
    Outage,        \* units without raw data until a change brings some
    Producers,     \* calls of invalidate() that may be under way at a time
    CasAttempts,   \* CAS_ATTEMPTS
    MaxEvents      \* bound on changes of the raw data, ticks that die or stop, and raw
                   \* reads put off, together

Tiers == DOMAIN Rungs

ASSUME FillAssumption ==
    /\ Horizon \in Nat /\ CasAttempts \in Nat \ {0}
    /\ MaxEvents \in Nat /\ Producers \subseteq Nat
    /\ Tiers \subseteq Nat /\ Ranges \subseteq 1 .. Horizon
    /\ Intervals \subseteq Nat \X Nat

Units == 0 .. Horizon - 1

Shards ==
    {s \in [tier : Tiers, dur : 1 .. Horizon, start : Units] :
        s.dur \in Rungs[s.tier] /\ s.start % s.dur = 0}

End(s)     == s.start + s.dur
UnitsOf(s) == {u \in Units : s.start <= u /\ u < End(s)}

\* The least multiple of d from x on.
Ceil(x, d) == ((x + d - 1) \div d) * d

VARIABLES
    raw,       \* per unit: version of the raw data
    landed,    \* number of changes so far
    clock,     \* number of requests stamped so far: the order of builds and requests
    now,       \* the instant of the tick, or of the last one: the end of its range
    objects, mtime, content,   \* the shards in storage
    journal,   \* set of requests
    ppc, pentry, ploaded, ptries,   \* invalidate: step, request, journal as loaded
    fpc, finvs, fkeys, fgaps, fcur, fbuf,   \* the tick
    floaded, ftries,                        \* prune_spent
    faults,
    \* History: the requests that were made while a tick built a shard they
    \* overlap, those a shard left behind by the cover is too old for, and those
    \* whose producer gave up.
    unread, passed, refused

producerVars == <<ppc, pentry, ploaded, ptries>>
tickVars     == <<finvs, fkeys, fgaps, fcur, fbuf>>
pruneVars    == <<floaded, ftries>>
storeVars    == <<objects, mtime, content>>
rawVars      == <<raw, landed>>
history      == <<unread, passed, refused>>
vars == <<rawVars, clock, now, storeVars, journal, producerVars, fpc, tickVars, pruneVars,
          faults, history>>

\* `ver` is history: which change of the raw data the request is about.
Requests == [from : Nat, to : Nat, at : Nat, ver : Nat]
NoRequest == [from |-> 0, to |-> 0, at |-> 0, ver |-> 0]
NoShard   == [tier |-> 0, dur |-> 0, start |-> 0]
NoData    == [u \in Units |-> 0]

InRequest(e, u)  == e.from <= u /\ u < e.to
\* Half-open intervals that meet (in the mutant, the shard lies inside).
Inside(e, s)     == e.from <= s.start /\ End(s) <= e.to
Overlaps(e, s)   == s.start < e.to /\ e.from < End(s)

\* A larger shard of the tier over all of s.
Covers(o, s) == o.tier = s.tier /\ o.dur > s.dur /\ UnitsOf(s) \subseteq UnitsOf(o)

\* The minimal cover of [0, to): largest shards first, what they leave to
\* smaller ones.
Expected(to) ==
    {s \in Shards : End(s) <= to /\ \A o \in Shards : Covers(o, s) => End(o) > to}
Cover == Expected(Horizon)

\* An existing shard is stale for a request made after its last build.
StaleFor(e, s) == s \in objects /\ Overlaps(e, s) /\ mtime[s] < e.at
Stale(es, ss)  == {s \in ss : \E e \in es : StaleFor(e, s)}

\* When the source tile with the shard's last unit is closed.
BuildableAt[t \in Nat, x \in Nat] ==
    IF t <= 1 THEN x ELSE BuildableAt[t - 1, Ceil(x, Min(Rungs[t - 1]))]
\* In the mutant, only when the time is past.
BuildablePast(s, to) == BuildableAt[s.tier, End(s)] < to
Buildable(s, to) == BuildableAt[s.tier, End(s)] <= to

\* sort_by_dependency
Before(s, o) ==
    \/ s.tier < o.tier
    \/ s.tier = o.tier /\ s.dur < o.dur
    \/ s.tier = o.tier /\ s.dur = o.dur /\ s.start < o.start

-----------------------------------------------------------------------------

Init ==
    /\ raw = [u \in Units |-> IF u \in Outage THEN 0 ELSE 1]
    /\ landed = 1 /\ clock = 0 /\ now = 0
    /\ objects = {} /\ mtime = [s \in Shards |-> 0] /\ content = [s \in Shards |-> NoData]
    /\ journal = {}
    /\ ppc = [p \in Producers |-> "idle"] /\ pentry = [p \in Producers |-> NoRequest]
    /\ ploaded = [p \in Producers |-> {}] /\ ptries = [p \in Producers |-> 0]
    /\ fpc = "idle" /\ finvs = {} /\ fkeys = {} /\ fgaps = {}
    /\ fcur = NoShard /\ fbuf = NoData
    /\ floaded = {} /\ ftries = 0
    /\ faults = 0
    /\ unread = {} /\ passed = {} /\ refused = {}

EventsLeft == landed - 1 + faults < MaxEvents

-----------------------------------------------------------------------------
(* A producer: raw data lands, then invalidate() *)

\* Producers are alike: the first one that is idle is the next.
Land(p) ==
    /\ EventsLeft
    /\ ppc[p] = "idle" /\ \A q \in Producers : ppc[q] = "idle" => p <= q
    /\ \E iv \in Intervals :
          /\ raw' = [u \in Units |-> IF iv[1] <= u /\ u < iv[2] THEN landed + 1 ELSE raw[u]]
          /\ pentry' = [pentry EXCEPT ![p] = [from |-> iv[1], to |-> iv[2],
                                              at |-> 0, ver |-> landed + 1]]
    /\ landed' = landed + 1
    /\ ppc' = [ppc EXCEPT ![p] = "stamp"]
    /\ UNCHANGED <<clock, now, storeVars, journal, ploaded, ptries, fpc, tickVars, pruneVars,
                   faults, history>>

\* requested_at is the time of the call.
Stamp(p) ==
    /\ ppc[p] = "stamp"
    /\ clock' = clock + 1
    /\ pentry' = [pentry EXCEPT ![p].at = clock + 1]
    /\ ppc' = [ppc EXCEPT ![p] = "load"]
    /\ ptries' = [ptries EXCEPT ![p] = 0]
    /\ UNCHANGED <<rawVars, now, storeVars, journal, ploaded, fpc, tickVars, pruneVars, faults,
                   history>>

Load(p) ==
    /\ ppc[p] = "load"
    /\ ploaded' = [ploaded EXCEPT ![p] = journal]
    /\ ppc' = [ppc EXCEPT ![p] = "cas"]
    /\ UNCHANGED <<rawVars, clock, now, storeVars, journal, pentry, ptries, fpc, tickVars,
                   pruneVars, faults, history>>

\* put_if_match: the etag is a digest of the document, so a put succeeds
\* when the journal is what was loaded (in the mutant, always).
AnyEtag(seen) == TRUE
Matches(seen) == journal = seen

\* The call returns or raises.
CallOver(p) ==
    /\ ppc' = [ppc EXCEPT ![p] = "idle"]
    /\ pentry' = [pentry EXCEPT ![p] = NoRequest]
    /\ ploaded' = [ploaded EXCEPT ![p] = {}]
    /\ ptries' = [ptries EXCEPT ![p] = 0]

AppendEntry(p) ==
    /\ ppc[p] = "cas" /\ Matches(ploaded[p])
    /\ journal' = ploaded[p] \cup {pentry[p]}
    /\ CallOver(p)
    /\ UNCHANGED <<rawVars, clock, now, storeVars, fpc, tickVars, pruneVars, faults, history>>

\* EtagConflict: another attempt, and after the last one the call raises; the
\* request is refused.
LastTry(tries)  == tries + 1 = CasAttempts
AppendConflict(p) ==
    /\ ppc[p] = "cas" /\ ~Matches(ploaded[p])
    /\ IF LastTry(ptries[p])
       THEN CallOver(p) /\ refused' = refused \cup {pentry[p]}
       ELSE /\ ppc' = [ppc EXCEPT ![p] = "load"]
            /\ ploaded' = [ploaded EXCEPT ![p] = {}]
            /\ ptries' = [ptries EXCEPT ![p] = @ + 1]
            /\ UNCHANGED <<pentry, refused>>
    /\ UNCHANGED <<rawVars, clock, now, storeVars, journal, fpc, tickVars, pruneVars, faults,
                   unread, passed>>

\* One call, two outcomes.
PutEntry(p) == IF Matches(ploaded[p]) THEN AppendEntry(p) ELSE AppendConflict(p)

Invalidate(p) == Stamp(p) \/ Load(p) \/ PutEntry(p)
Producer(p)   == Land(p) \/ Invalidate(p)

\* The requests with a time stamp: in the journal, or on the way to it.
Asked == journal \cup {pentry[p] : p \in {q \in Producers : ppc[q] \in {"load", "cas"}}}

-----------------------------------------------------------------------------
(* run_extension_fill: discovery *)

FillStart(to) ==
    /\ fpc = "idle" /\ now <= to
    /\ fpc' = "discover" /\ now' = to /\ finvs' = journal
    /\ UNCHANGED <<rawVars, clock, storeVars, journal, producerVars, fkeys, fgaps, fcur,
                   fbuf, pruneVars, faults, history>>

\* Only expected shards are looked at for staleness.  `passed` are the
\* requests for which a shard that the cover has left behind is too old.
Discover ==
    /\ fpc = "discover"
    /\ fkeys' = objects \ Stale(finvs, Expected(now))
    /\ fgaps' = {s \in Expected(now) \ fkeys' : Buildable(s, now)}
    /\ fpc' = "gaps"
    /\ passed' = passed \cup {e \in finvs : Stale({e}, objects \ Expected(now)) # {}}
    /\ UNCHANGED <<rawVars, clock, now, storeVars, journal, producerVars, finvs, fcur, fbuf,
                   pruneVars, faults, unread, refused>>

-----------------------------------------------------------------------------
(* materialize_extension_shard *)

\* Fine before coarse.
IsNext(g) == \A o \in fgaps \ {g} : Before(g, o)

\* Of the tiles that cover u, a longest one.
Longest(tiles) == {s \in tiles : \A o \in tiles : o.dur <= s.dur}
\* tile_from_existing: the tier's own smaller shards.
SubTiles(g, u) == Longest({s \in fkeys : s.tier = g.tier /\ s.dur < g.dur /\ u \in UnitsOf(s)})
\* overlap_cover: any shard of the source tier.
SourceTiles(g, u) == Longest({s \in fkeys : s.tier = g.tier - 1 /\ u \in UnitsOf(s)})
\* What the unit is read from; none for the finest tier, which reads raw data.
Tiles(g, u) ==
    IF SubTiles(g, u) # {} \/ g.tier = 1 THEN SubTiles(g, u) ELSE SourceTiles(g, u)
ReadsRaw(g) == g.tier = 1 /\ \E u \in UnitsOf(g) : SubTiles(g, u) = {}
\* Every hole has its source tiles, and they are still there.
HolesFilled(g) ==
    \A u \in UnitsOf(g) :
        SubTiles(g, u) = {} /\ g.tier # 1 => Tiles(g, u) # {} /\ Tiles(g, u) \subseteq objects
\* The tier's own tiles are still there.
TilesThere(g) == \A u \in UnitsOf(g) : SubTiles(g, u) \subseteq objects
Input(g) ==
    [u \in Units |->
        IF u \notin UnitsOf(g) THEN 0
        ELSE IF Tiles(g, u) = {} THEN raw[u]
        ELSE LET s == CHOOSE s \in Tiles(g, u) : TRUE IN content[s][u]]

\* A gap is done with: the next one is due.
Skip(g) == fgaps' = fgaps \ {g} /\ UNCHANGED <<fpc, fcur, fbuf>>

\* The tick is over.
TickOver ==
    /\ fpc' = "idle" /\ finvs' = {} /\ fkeys' = {} /\ fgaps' = {}
    /\ fcur' = NoShard /\ fbuf' = NoData /\ floaded' = {} /\ ftries' = 0

\* A key that exists is skipped, unless a request overlaps it (in the mutant,
\* always).
HeadAlways(g) == g \in objects
HeadExists(g) == g \in objects /\ \A e \in finvs : ~Overlaps(e, g)

Due(g) == fpc = "gaps" /\ g \in fgaps /\ IsNext(g)

\* The shard is there, cannot be filled ("no_inputs"), has no rows ("empty"),
\* or is computed.
Materialize(g) ==
    /\ Due(g)
    /\ IF HeadExists(g) THEN fkeys' = fkeys \cup {g} /\ Skip(g)
       ELSE /\ UNCHANGED fkeys
            /\ IF HolesFilled(g) /\ TilesThere(g) /\ Input(g) # NoData
               THEN fcur' = g /\ fbuf' = Input(g) /\ fpc' = "put" /\ UNCHANGED fgaps
               ELSE (HolesFilled(g) => TilesThere(g)) /\ Skip(g)
    /\ UNCHANGED <<rawVars, clock, now, storeVars, journal, producerVars, finvs, pruneVars,
                   faults, history>>

\* A tile of the tier itself was deleted after the listing: the tick raises.
TileGone(g) ==
    /\ Due(g) /\ ~HeadExists(g) /\ HolesFilled(g) /\ ~TilesThere(g)
    /\ TickOver
    /\ UNCHANGED <<rawVars, clock, now, storeVars, journal, producerVars, faults, history>>

\* raw_fill returns None: retry later.
RawNotReady(g) ==
    /\ Due(g) /\ ~HeadExists(g) /\ ReadsRaw(g)
    /\ EventsLeft /\ faults' = faults + 1
    /\ Skip(g)
    /\ UNCHANGED <<rawVars, clock, now, storeVars, journal, producerVars, finvs, fkeys,
                   pruneVars, history>>

\* `unread` are the requests that meet a shard which is put after they were
\* stamped by a tick that has not read them.
PutShard ==
    /\ fpc = "put"
    /\ objects' = objects \cup {fcur}
    /\ mtime' = [mtime EXCEPT ![fcur] = clock]
    /\ content' = [content EXCEPT ![fcur] = fbuf]
    /\ fkeys' = fkeys \cup {fcur}
    /\ fgaps' = fgaps \ {fcur}
    /\ fcur' = NoShard /\ fbuf' = NoData
    /\ fpc' = "gaps"
    /\ unread' = unread \cup {e \in Asked \ finvs : Overlaps(e, fcur)}
    /\ UNCHANGED <<rawVars, clock, now, journal, producerVars, finvs, pruneVars, faults,
                   passed, refused>>

\* fill_limit or time_budget_s.
StopEarly ==
    /\ fpc = "gaps" /\ fgaps # {}
    /\ EventsLeft /\ faults' = faults + 1
    /\ fgaps' = {}
    /\ UNCHANGED <<rawVars, clock, now, storeVars, journal, producerVars, fpc, finvs, fkeys,
                   fcur, fbuf, pruneVars, history>>

-----------------------------------------------------------------------------
(* prune_spent *)

\* What a tick keeps: requests that reach out of its range, or with a stale
\* shard (the mutant: that it has not read).
KeptUnread(e) == e.to > now \/ e \notin finvs
Kept(e) == e.to > now \/ Stale({e}, Expected(now)) # {}
Keep(es) == {e \in es : Kept(e)}

FillDone ==
    /\ fpc = "gaps" /\ fgaps = {}
    /\ IF finvs = {} THEN TickOver
       ELSE fpc' = "prune" /\ UNCHANGED <<tickVars, pruneVars>>
    /\ UNCHANGED <<rawVars, clock, now, storeVars, journal, producerVars, faults, history>>

PruneLoad ==
    /\ fpc = "prune"
    /\ IF Keep(journal) = journal THEN TickOver
       ELSE fpc' = "cas" /\ floaded' = journal /\ UNCHANGED <<tickVars, ftries>>
    /\ UNCHANGED <<rawVars, clock, now, storeVars, journal, producerVars, faults, history>>

Prune ==
    /\ fpc = "cas" /\ Matches(floaded)
    /\ journal' = Keep(floaded)
    /\ TickOver
    /\ UNCHANGED <<rawVars, clock, now, storeVars, producerVars, faults, history>>

PruneConflict ==
    /\ fpc = "cas" /\ ~Matches(floaded)
    /\ IF LastTry(ftries) THEN TickOver
       ELSE fpc' = "prune" /\ ftries' = ftries + 1 /\ floaded' = {} /\ UNCHANGED tickVars
    /\ UNCHANGED <<rawVars, clock, now, storeVars, journal, producerVars, faults, history>>

PutPruned == IF Matches(floaded) THEN Prune ELSE PruneConflict

\* The process dies, or raw_fill raises.
TickDies ==
    /\ fpc # "idle"
    /\ EventsLeft /\ faults' = faults + 1
    /\ TickOver
    /\ UNCHANGED <<rawVars, clock, now, storeVars, journal, producerVars, history>>

-----------------------------------------------------------------------------
(* The registry collection: a shard goes when a larger one that is there
   covers it *)

Collect(s) ==
    /\ s \in objects /\ \E o \in objects : Covers(o, s)
    /\ objects' = objects \ {s}
    /\ mtime' = [mtime EXCEPT ![s] = 0] /\ content' = [content EXCEPT ![s] = NoData]
    /\ UNCHANGED <<rawVars, clock, now, journal, producerVars, fpc, tickVars, pruneVars, faults,
                   history>>

-----------------------------------------------------------------------------
TickStep ==
    \/ Discover
    \/ \E g \in Shards : Materialize(g) \/ TileGone(g)
    \/ PutShard
    \/ FillDone \/ PruneLoad \/ PutPruned
TickFault == (\E g \in Shards : RawNotReady(g)) \/ StopEarly \/ TickDies

Next ==
    \/ \E p \in Producers : Producer(p)
    \/ \E to \in Ranges : FillStart(to)
    \/ TickStep
    \/ TickFault
    \/ \E s \in Shards : Collect(s)

\* A producer that started to call invalidate() goes on, so does a tick, and
\* the cron runs over the whole of time again and again.
Fairness ==
    /\ \A p \in Producers : WF_vars(Invalidate(p))
    /\ WF_vars(TickStep)
    /\ SF_vars(Horizon \in Ranges /\ FillStart(Horizon))

Spec     == Init /\ [][Next]_vars
FairSpec == Spec /\ Fairness

-----------------------------------------------------------------------------
(* Properties *)

Shard == Shards \cup {NoShard}

\* Types.
TypeOK ==
    /\ raw \in [Units -> Nat] /\ landed \in Nat /\ clock \in Nat /\ now \in Nat
    /\ objects \subseteq Shards /\ mtime \in [Shards -> Nat]
    /\ content \in [Shards -> [Units -> Nat]]
    /\ journal \subseteq Requests
    /\ ppc \in [Producers -> {"idle", "stamp", "load", "cas"}]
    /\ pentry \in [Producers -> Requests] /\ ploaded \in [Producers -> SUBSET Requests]
    /\ ptries \in [Producers -> 0 .. CasAttempts]
    /\ \A p \in Producers : ppc[p] \in {"load", "cas"} => ptries[p] < CasAttempts
    /\ fpc \in {"idle", "discover", "gaps", "put", "prune", "cas"}
    /\ finvs \subseteq Requests /\ fkeys \subseteq Shards /\ fgaps \subseteq Shards
    /\ fcur \in Shard /\ fbuf \in [Units -> Nat] /\ (fpc = "put" => fcur \in Shards)
    /\ floaded \subseteq Requests /\ ftries \in Nat /\ ftries < CasAttempts
    /\ faults \in Nat
    /\ unread \subseteq Requests /\ passed \subseteq Requests /\ refused \subseteq Requests

Held(e, s, data) == \A u \in UnitsOf(s) : InRequest(e, u) => data[u] >= e.ver

\* Every shard of the cover that is there holds the data of the requests.
RepairedAll(es) == \A e \in es : \A s \in Cover \cap objects : Held(e, s, content[s])

\* A request is pruned only when every shard of the cover that it overlaps
\* holds the changed data ("coarse rebuilds read repaired fine tiles",
\* consolidate.py:435-439; a prune, invalidation.py:113-117), whatever
\* producers, other requests and the collection do meanwhile.  Except for what
\* the next two properties are about: requests made while a tick builds, and
\* shards the cover has left behind.
PrunedMeansRepaired == [][RepairedAll((journal \ journal') \ (unread \cup passed))]_vars

\* "shards overlapping [start, end) that were last built before requested_at
\* are stale" (pyrmts/invalidation.py:38-41), so that a pruned request is
\* repaired.
SpentMeansRepaired == [][RepairedAll(journal \ journal')]_vars

\* The same of requests no tick has missed: what it reads is repaired
\* (consolidate.py:435-439).
ReadMeansRepaired == [][RepairedAll((journal \ journal') \ unread)]_vars

\* Nothing is lost between concurrent read-modify-write cycles of the journal
\* (of two producers, or of a producer and a prune): a request leaves it only
\* by a prune that has loaded it.
NoDroppedAppend == [][journal \ journal' \subseteq floaded]_vars

\* Every request is pruned in the end, after ticks that stop early or die,
\* conflicts, and data that arrives late.
JournalDrains == <>[](journal = {})

\* The newest change of the unit was asked for in vain: the request was refused
\* (invalidation.py:106-109), or spent as the properties above say.
Lost(u) == \E e \in unread \cup passed \cup refused : e.ver = raw[u]

\* In the end every shard of the cover holds the newest data, through all its
\* tiers, but for changes whose request was lost.
Repaired ==
    <>[](\A s \in Cover \cap objects : \A u \in UnitsOf(s) :
            content[s][u] = raw[u] \/ Lost(u))

\* A shard has rows, and so has every shard of the cover below it.
HasRows(s) == \E u \in UnitsOf(s) : raw[u] > 0 /\ ~Lost(u)
Fed[s \in Shards] ==
    /\ HasRows(s)
    /\ \A o \in Cover :
          o.tier = s.tier - 1 /\ UnitsOf(o) \cap UnitsOf(s) # {} => Fed[o]

\* In the end every shard of the cover that can be built is there, also those
\* for which data came late.  A shard without rows is not stored, and nothing is
\* built over the hole it leaves (consolidate.py:187-189).
Filled ==
    <>[](\A s \in Cover :
            BuildableAt[s.tier, End(s)] <= Horizon /\ Fed[s] => s \in objects)

\* "no data is a valid, final answer" (consolidate.py:179-181): a shard over some
\* rows is built whatever has none.
OutageFinal ==
    <>[](\A s \in Cover :
            BuildableAt[s.tier, End(s)] <= Horizon /\ HasRows(s) => s \in objects)
=============================================================================
