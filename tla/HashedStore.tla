----------------------------- MODULE HashedStore -----------------------------
(***************************************************************************)
(* The life of shards whose key carries the hash of their content: the     *)
(* write protocol of pyrmts/keys.py (put_shard, then the row is swapped),  *)
(* the garbage collection of pyrmts/gc.py and the adoption of lost writes  *)
(* of pyrmts_engine/gc.py, over one storage and one registry.              *)
(*                                                                         *)
(* A slot is a (tier, rung, period); a version stands for the bytes of a   *)
(* shard, so a key is a slot and a version.  Every call to the storage or  *)
(* to the registry is a step of its own.                                   *)
(***************************************************************************)
EXTENDS Integers, FiniteSets

CONSTANTS
    Slots, Versions, Writers,
    None,          \* no row, no key
    Grace,         \* age of a blob before it may be deleted
    WriteTime,     \* environment: a write takes at most this long
    ReadTime,      \* how long a reader may use a key it resolved
    Reuse,         \* a rewrite may produce the bytes of an earlier version
    CachedIndex,   \* the registry instance of gc reads the manifest once
    QuietDeletes,  \* environment: nothing is written during the deletes of gc
    QuietAdopt,    \* environment: nothing is written during an adoption
    MaxClock,      \* bound on time
    MaxGcs, MaxAdopts  \* bounds on passes

Keys == Slots \X Versions
SlotOf(k) == k[1]

ASSUME StoreAssumption ==
    /\ Grace \in Nat /\ WriteTime \in Nat /\ ReadTime \in Nat
    /\ MaxClock \in Nat /\ MaxGcs \in Nat /\ MaxAdopts \in Nat
    /\ Reuse \in BOOLEAN /\ CachedIndex \in BOOLEAN
    /\ QuietDeletes \in BOOLEAN /\ QuietAdopt \in BOOLEAN
    /\ None \notin Versions /\ None \notin Keys
    /\ \A s \in Slots, v \in Versions : SlotOf(<<s, v>>) = s

VARIABLES
    clock,
    objects,   \* keys in storage
    mtime,     \* per key: when it was last put
    registry,  \* per slot: the version its row points at, or None
    rowTime,   \* per slot: written_at of its row
    wpc, wkey, wsince,   \* writers: step, key, start
    produced,  \* history: keys some writer has derived
    lost,      \* history: per slot, the version whose registration was lost last
    replaced,  \* history: per key, when its row was last swapped to another
    gpc, gnow, grefs, gcand, gcs,   \* gc_orphans: step, now, refs, old, passes
    apc, arows, atimes, acand, akey, adopts   \* adopt_unregistered

writerVars == <<wpc, wkey, wsince, produced>>
gcVars     == <<gpc, gnow, grefs, gcand, gcs>>
adoptVars  == <<apc, arows, atimes, acand, akey, adopts>>
storeVars  == <<objects, mtime>>
rowVars    == <<registry, rowTime, lost, replaced>>
vars == <<clock, storeVars, rowVars, writerVars, gcVars, adoptVars>>

\* The keys the registry's rows point at.
Referenced == {k \in Keys : registry[SlotOf(k)] = k[2]}

Writing  == \E w \in Writers : wpc[w] # "idle"
Adopting == apc # "idle"

Init ==
    /\ clock = 0
    /\ objects = {} /\ mtime = [k \in Keys |-> 0]
    /\ registry = [s \in Slots |-> None] /\ rowTime = [s \in Slots |-> 0]
    /\ wpc = [w \in Writers |-> "idle"] /\ wkey = [w \in Writers |-> None]
    /\ wsince = [w \in Writers |-> 0] /\ produced = {}
    /\ lost = [s \in Slots |-> None] /\ replaced = [k \in Keys |-> 0]
    /\ gpc = "idle" /\ gnow = 0 /\ grefs = {} /\ gcand = {} /\ gcs = 0
    /\ apc = "idle" /\ arows = registry /\ atimes = rowTime
    /\ acand = {} /\ akey = None /\ adopts = 0

\* Time passes; a write keeps within its time.
Tick ==
    /\ clock < MaxClock
    /\ \A w \in Writers : wpc[w] # "idle" => clock - wsince[w] < WriteTime
    /\ clock' = clock + 1
    /\ UNCHANGED <<storeVars, rowVars, writerVars, gcVars, adoptVars>>

-----------------------------------------------------------------------------
(* put_shard and the registration that follows it *)

\* A writer has a payload and derives its key.  Two writes of one slot are
\* never in the same tick of the clock.
Produce(w, k) ==
    /\ wpc[w] = "idle"
    /\ Reuse \/ k \notin produced
    /\ registry[SlotOf(k)] # None => rowTime[SlotOf(k)] < clock
    /\ \A o \in objects : SlotOf(o) = SlotOf(k) => mtime[o] < clock
    /\ QuietDeletes => gpc # "delete"
    /\ QuietAdopt => ~Adopting
    /\ wpc' = [wpc EXCEPT ![w] = "head"]
    /\ wkey' = [wkey EXCEPT ![w] = k]
    /\ wsince' = [wsince EXCEPT ![w] = clock]
    /\ produced' = produced \cup {k}
    /\ UNCHANGED <<clock, storeVars, rowVars, gcVars, adoptVars>>

\* storage.head: an existing key has these bytes already and is not put again
\* (the mutant has no guard).
HeadAnytime(w) ==
    /\ wpc' = [wpc EXCEPT ![w] = IF wkey[w] \in objects THEN "record" ELSE "put"]
    /\ UNCHANGED <<clock, storeVars, rowVars, wkey, wsince, produced, gcVars, adoptVars>>
HeadObject(w) ==
    /\ wpc[w] = "head"
    /\ wpc' = [wpc EXCEPT ![w] = IF wkey[w] \in objects THEN "record" ELSE "put"]
    /\ UNCHANGED <<clock, storeVars, rowVars, wkey, wsince, produced, gcVars, adoptVars>>

Put(w) ==
    /\ wpc[w] = "put"
    /\ objects' = objects \cup {wkey[w]}
    /\ mtime' = [mtime EXCEPT ![wkey[w]] = clock]
    /\ wpc' = [wpc EXCEPT ![w] = "record"]
    /\ UNCHANGED <<clock, rowVars, wkey, wsince, produced, gcVars, adoptVars>>

\* INSERT OR REPLACE of the slot's row.
SwapRow(k) ==
    /\ registry' = [registry EXCEPT ![SlotOf(k)] = k[2]]
    /\ rowTime' = [rowTime EXCEPT ![SlotOf(k)] = clock]
    /\ replaced' = [o \in Keys |-> IF o \in Referenced \ {k} /\ SlotOf(o) = SlotOf(k)
                                  THEN clock ELSE replaced[o]]

Forget(w) ==
    /\ wpc' = [wpc EXCEPT ![w] = "idle"]
    /\ wkey' = [wkey EXCEPT ![w] = None]
    /\ wsince' = [wsince EXCEPT ![w] = 0]

Record(w) ==
    /\ wpc[w] = "record"
    /\ SwapRow(wkey[w])
    /\ lost' = [lost EXCEPT ![SlotOf(wkey[w])] = None]
    /\ Forget(w)
    /\ UNCHANGED <<clock, storeVars, produced, gcVars, adoptVars>>

\* The writer dies; after put_shard its registration is lost.
WriterDies(w) ==
    /\ wpc[w] # "idle"
    /\ Forget(w)
    /\ lost' = IF wpc[w] = "record"
               THEN [lost EXCEPT ![SlotOf(wkey[w])] = wkey[w][2]] ELSE lost
    /\ UNCHANGED <<clock, storeVars, registry, rowTime, replaced, produced,
                   gcVars, adoptVars>>

Writer(w) == (\E k \in Keys : Produce(w, k)) \/ HeadObject(w) \/ Put(w) \/ Record(w) \/ WriterDies(w)

-----------------------------------------------------------------------------
(* gc_orphans *)

\* now and the referenced set; an empty set is refused.
GcStart ==
    /\ gpc = "idle" /\ gcs < MaxGcs /\ Referenced # {}
    /\ gpc' = "list" /\ gnow' = clock /\ grefs' = Referenced /\ gcs' = gcs + 1
    /\ UNCHANGED <<clock, storeVars, rowVars, writerVars, gcand, adoptVars>>

\* Orphans past the grace period, by the time they were put (the mutant does
\* not wait).
AnyAge(o)       == TRUE
PastGrace(o)    == gnow - mtime[o] >= Grace
\* The pass goes on while it has something to delete.
PassTo(step) ==
    IF gcand' = {} THEN gpc' = "idle" /\ gnow' = 0 /\ grefs' = {}
                   ELSE gpc' = step /\ UNCHANGED <<gnow, grefs>>

GcList ==
    /\ gpc = "list"
    /\ gcand' = {o \in objects \ grefs : PastGrace(o)}
    /\ PassTo("reread")
    /\ UNCHANGED <<clock, storeVars, rowVars, writerVars, gcs, adoptVars>>

\* referenced() once more before the deletes: a registry instance that keeps
\* what it parsed returns the same set (as the mutant does).
RefsOfPlan == grefs
RefsAgain  == IF CachedIndex THEN grefs ELSE Referenced
GcReread ==
    /\ gpc = "reread"
    /\ QuietDeletes => ~Writing /\ ~Adopting
    /\ gcand' = IF RefsAgain = {} THEN {} ELSE gcand \ RefsAgain
    /\ PassTo("delete")
    /\ UNCHANGED <<clock, storeVars, rowVars, writerVars, gcs, adoptVars>>

GcDelete ==
    /\ gpc = "delete"
    /\ \E o \in gcand :
          /\ objects' = objects \ {o}
          /\ gcand' = gcand \ {o}
    /\ PassTo("delete")
    /\ UNCHANGED <<clock, mtime, rowVars, writerVars, gcs, adoptVars>>

Gc == GcStart \/ GcList \/ GcReread \/ GcDelete

-----------------------------------------------------------------------------
(* adopt_unregistered *)

\* The rows are read first, then the storage is listed.
AdoptStart ==
    /\ apc = "idle" /\ adopts < MaxAdopts
    /\ QuietAdopt => ~Writing
    /\ QuietDeletes => gpc # "delete"
    /\ apc' = "list" /\ arows' = registry /\ atimes' = rowTime /\ adopts' = adopts + 1
    /\ UNCHANGED <<clock, storeVars, rowVars, writerVars, gcVars, acand, akey>>

\* The unregistered blobs of a slot without a row, or newer than its row (in
\* the mutant, all of them).
AnyOrphan(o)   == TRUE
NewerThanRow(o) == arows[SlotOf(o)] = None \/ mtime[o] > atimes[SlotOf(o)]
AdoptList ==
    /\ apc = "list"
    /\ acand' = {<<o, mtime[o]>> : o \in {k \in objects : arows[SlotOf(k)] # k[2] /\ NewerThanRow(k)}}
    /\ apc' = "adopt"
    /\ UNCHANGED <<clock, storeVars, rowVars, writerVars, gcVars, arows, atimes,
                   akey, adopts>>

\* The newest candidate of a slot is taken, if it can still be read (the
\* mutant takes the oldest).
Oldest(c) == \A d \in acand : SlotOf(d[1]) = SlotOf(c[1]) => c[2] <= d[2]
Newest(c) == \A d \in acand : SlotOf(d[1]) = SlotOf(c[1]) => d[2] <= c[2]
AdoptGet ==
    /\ apc = "adopt" /\ akey = None
    /\ \E c \in acand :
          /\ Newest(c)
          /\ IF c[1] \in objects
             THEN /\ akey' = c[1]
                  /\ acand' = {d \in acand : SlotOf(d[1]) # SlotOf(c[1])}
             ELSE /\ akey' = None
                  /\ acand' = acand \ {c}
    /\ UNCHANGED <<clock, storeVars, rowVars, writerVars, gcVars, apc, arows,
                   atimes, adopts>>

AdoptRecord ==
    /\ akey # None
    /\ SwapRow(akey)
    /\ lost' = [lost EXCEPT ![SlotOf(akey)] = IF @ = akey[2] THEN None ELSE @]
    /\ akey' = None
    /\ UNCHANGED <<clock, storeVars, writerVars, gcVars, apc, arows, atimes, acand,
                   adopts>>

AdoptEnd ==
    /\ apc = "adopt" /\ akey = None /\ acand = {}
    /\ apc' = "idle"
    /\ arows' = [s \in Slots |-> None] /\ atimes' = [s \in Slots |-> 0]
    /\ UNCHANGED <<clock, storeVars, rowVars, writerVars, gcVars, acand, akey, adopts>>

Adopt == AdoptStart \/ AdoptList \/ AdoptGet \/ AdoptRecord \/ AdoptEnd

-----------------------------------------------------------------------------

\* The bounds are reached and nothing is in flight.
Over ==
    /\ clock = MaxClock
    /\ UNCHANGED vars

Next ==
    \/ Tick
    \/ \E w \in Writers : Writer(w)
    \/ Gc
    \/ Adopt
    \/ Over

Spec == Init /\ [][Next]_vars

-----------------------------------------------------------------------------
(* Properties *)

TypeOK ==
    /\ clock \in Nat
    /\ objects \subseteq Keys /\ mtime \in [Keys -> Nat]
    /\ registry \in [Slots -> Versions \cup {None}] /\ rowTime \in [Slots -> Nat]
    /\ lost \in [Slots -> Versions \cup {None}] /\ replaced \in [Keys -> Nat]
    /\ wpc \in [Writers -> {"idle", "head", "put", "record"}]
    /\ wkey \in [Writers -> Keys \cup {None}] /\ wsince \in [Writers -> Nat]
    /\ \A w \in Writers : wpc[w] # "idle" => wkey[w] \in Keys
    /\ produced \subseteq Keys
    /\ gpc \in {"idle", "list", "reread", "delete"} /\ gnow \in Nat /\ gcs \in Nat
    /\ grefs \subseteq Keys /\ gcand \subseteq Keys
    /\ apc \in {"idle", "list", "adopt"} /\ adopts \in Nat
    /\ arows \in [Slots -> Versions \cup {None}] /\ atimes \in [Slots -> Nat]
    /\ acand \subseteq Keys \X Nat
    /\ akey \in Keys \cup {None}

\* "never a registered-but-absent key" (shard_index.py): every row points at an
\* object that is in storage.
RegisteredPresent == Referenced \subseteq objects

\* "a grace period ... which covers in-flight reads of the previous version"
\* (content-addressed-shards.md): an object is not deleted while a reader that
\* resolved its key from the row may still fetch it.
GraceCoversReads ==
    [][\A o \in objects \ objects' : replaced[o] > 0 => clock - replaced[o] >= ReadTime]_vars

\* "Heals both a first write and a rewrite whose registration was lost"
\* (adopt_unregistered): after an adoption the version whose registration was
\* lost last is registered, unless its blob is gone.
AdoptHeals ==
    [][(apc = "adopt" /\ apc' = "idle") =>
          \A s \in Slots : lost[s] \in {None, registry[s]} \/ <<s, lost[s]>> \notin objects]_vars

\* A row is only ever replaced by a version that was put later than it.
NoRollback ==
    [][\A s \in Slots :
          (registry[s] # None /\ registry'[s] # registry[s]) =>
              mtime[<<s, registry'[s]>>] > mtime[<<s, registry[s]>>]]_vars

\* An adoption heals or keeps the row of every slot it looked at, and no row is
\* replaced by a version older than its own (gc.adopt_unregistered).
AdoptionsSound == AdoptHeals /\ NoRollback
=============================================================================
