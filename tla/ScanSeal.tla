------------------------------ MODULE ScanSeal ------------------------------
(***************************************************************************)
(* Sealing of scans into archives: seal_new_groups, seal_dyadic,            *)
(* _consolidate_one and drop_consolidated_scans of                          *)
(* pyrmts_engine/multiscan_driver.py over the manifest of                   *)
(* pyrmts_engine/multiscan_index.py.  A scan is its place in the order; a   *)
(* tile is a scan's shard of one period.  An archive holds, for each member *)
(* scan, the rows of some period's tile: the right ones are its own         *)
(* period's.                                                                *)
(***************************************************************************)
EXTENDS Integers, Sequences, FiniteSets, FiniteSetsExt

CONSTANTS SealPolicies,   \* policies: [scheme: "fixed" or "exponential", periods]
          GroupSize,      \* policy.group_size
          Base,           \* policy.base
          MaxLabels,      \* bound on the number of scans
          MaxSealFaults   \* bound on the crashes of a seal

(* consolidate_groups and dyadic_decompose refuse smaller sizes and bases.     *)
ASSUME SealAssumption ==
    /\ \A s \in SealPolicies : s.scheme \in {"fixed", "exponential"} /\ s.periods \in Nat \ {0}
    /\ GroupSize \in Nat \ {0} /\ Base \in Nat \ {0, 1}
    /\ MaxLabels \in Nat /\ MaxSealFaults \in Nat

VARIABLES policy,      \* the policy, with the number of periods of the range
          arrived,     \* the tiles scans have brought: <<scan, period>>
          singles,     \* the tiles whose individual shard exists
          archives,    \* key -> (scan -> the period whose rows are held)
          manifest,    \* the records, in order: [key, period, scans]
          sealJob,         \* the seal under way
          sealFaults

sealVars == <<policy, arrived, singles, archives, manifest, sealJob, sealFaults>>

NoJob == [stage |-> "idle", work |-> <<>>, left |-> <<>>, current |-> <<>>, target |-> <<>>, count |-> 0]

Labels == {t[1] : t \in arrived}
Count  == Cardinality(Labels)
Key(p, first, size) == <<p, first, size>>

Members(r) == {r.scans[i] : i \in DOMAIN r.scans}

(* resolve_scan: the records that cover a scan, of which the first counts.    *)
Covering(records, l) == {i \in DOMAIN records : l \in Members(records[i])}

-----------------------------------------------------------------------------
(* seal_new_groups: complete groups of the scans no record names.             *)
SealedLabels == UNION {Members(manifest[i]) : i \in DOMAIN manifest}
Remaining    == Labels \ SealedLabels

(* The scans that no record names, in their order.                            *)
Unsealed == [i \in 1..Cardinality(Remaining) |->
                CHOOSE l \in Remaining : Cardinality({o \in Remaining : o < l}) = i - 1]

GroupCount == Cardinality(Remaining) \div GroupSize
Groups     == [g \in 1..GroupCount |-> [i \in 1..GroupSize |-> Unsealed[(g - 1) * GroupSize + i]]]

(* consolidate_groups: each period's groups, one period after the other.      *)
FixedItem(p, g) == [key |-> Key(p, Groups[g][1], 0), period |-> p, scans |-> Groups[g]]
FixedWork == [i \in 1..(policy.periods * GroupCount) |->
                 FixedItem(((i - 1) \div GroupCount) + 1, ((i - 1) % GroupCount) + 1)]

(* dyadic_decompose: the maximal blocks of a power of the base aligned to     *)
(* their own size.                                                           *)
BlockSize(start, m) == Max({s \in 1..m : /\ s = 1 \/ \E n \in 1..m : s = Base ^ n
                                         /\ start % s = 0 /\ start + s <= m})

Decompose(m) ==
    LET from[n \in 0..m] == IF n = 0 THEN <<>> ELSE
            LET s == BlockSize(m - n, m) IN <<<<m - n, s>>>> \o from[n - s]
    IN  from[m]

BlocksOf(p, m) == LET bs == Decompose(m) IN
    [b \in DOMAIN bs |-> [key    |-> Key(p, bs[b][1] + 1, bs[b][2]), period |-> p,
                          scans  |-> [i \in 1..bs[b][2] |-> bs[b][1] + i]]]

-----------------------------------------------------------------------------
InitSeal ==
    /\ policy \in SealPolicies
    /\ arrived = {} /\ singles = {} /\ archives = [k \in {} |-> <<>>]
    /\ manifest = <<>> /\ sealJob = NoJob /\ sealFaults = 0

(* A scan is written, period by period; its first tile makes it a scan.       *)
TileArrives(l, p) ==
    /\ <<l, p>> \notin arrived
    /\ p > 1 => <<l, p - 1>> \in arrived
    /\ l > 1 => <<l - 1, policy.periods>> \in arrived
    /\ arrived' = arrived \union {<<l, p>>}
    /\ singles' = singles \union {<<l, p>>}
    /\ UNCHANGED <<policy, archives, manifest, sealJob, sealFaults>>

(* seal: the job starts on what it lists.                                     *)
StartFixed ==
    /\ policy.scheme = "fixed" /\ sealJob.stage = "idle" /\ GroupCount > 0
    /\ sealJob' = [NoJob EXCEPT !.stage = "put", !.work = FixedWork]
    /\ UNCHANGED <<policy, arrived, singles, archives, manifest, sealFaults>>

Item == sealJob.work[1]

(* The archives with one more, or with one rewritten.                          *)
Archived(k, rows) == [o \in {k} \union DOMAIN archives |-> IF o = k THEN rows ELSE archives[o]]

(* The next item of the job, or its end.                                      *)
Onward(j) == IF Len(j.work) = 1 THEN NoJob ELSE [j EXCEPT !.work = Tail(j.work), !.stage = "put"]

(* A scan without the tile fails the job (_scan_tiles).                       *)
Missing(item) == {l \in Members(item) : <<l, item.period>> \notin singles}

(* (Mutant: the record comes after the drop.)                                  *)
PutThenDrop ==
    /\ policy.scheme = "fixed" /\ sealJob.stage = "put"
    /\ IF Missing(Item) # {} THEN sealJob' = NoJob /\ UNCHANGED archives
       ELSE /\ archives' = Archived(Item.key, [l \in Members(Item) |-> Item.period])
            /\ sealJob' = [sealJob EXCEPT !.stage = "drop", !.left = Item.scans]
    /\ UNCHANGED <<policy, arrived, singles, manifest, sealFaults>>

PutGroup ==
    /\ policy.scheme = "fixed" /\ sealJob.stage = "put"
    /\ IF Missing(Item) # {} THEN sealJob' = NoJob /\ UNCHANGED archives
       ELSE /\ archives' = Archived(Item.key, [l \in Members(Item) |-> Item.period])
            /\ sealJob' = [sealJob EXCEPT !.stage = "record"]
    /\ UNCHANGED <<policy, arrived, singles, manifest, sealFaults>>

RecordGroup ==
    /\ policy.scheme = "fixed" /\ sealJob.stage = "record"
    /\ manifest' = Append(manifest, Item)
    /\ sealJob' = [sealJob EXCEPT !.stage = "drop", !.left = Item.scans]
    /\ UNCHANGED <<policy, arrived, singles, archives, sealFaults>>

(* drop_consolidated_scans: each member is read back from the archive before   *)
(* its own shard goes.                                                        *)
DropMember ==
    /\ policy.scheme = "fixed" /\ sealJob.stage = "drop"
    /\ IF Item.key \in DOMAIN archives /\ sealJob.left[1] \in DOMAIN archives[Item.key]
       THEN /\ singles' = singles \ {<<sealJob.left[1], Item.period>>}
            /\ sealJob' = IF Len(sealJob.left) = 1 THEN Onward(sealJob) ELSE [sealJob EXCEPT !.left = Tail(@)]
       ELSE sealJob' = NoJob /\ UNCHANGED singles
    /\ UNCHANGED <<policy, arrived, archives, manifest, sealFaults>>

-----------------------------------------------------------------------------
(* seal_dyadic, one period after the other: the records are read anew, ...     *)
StartPeriod(p, m, records) == [stage |-> "build", work |-> BlocksOf(p, m), left |-> <<>>,
                               current |-> records, target |-> <<>>, count |-> m]

StartDyadic ==
    /\ policy.scheme = "exponential" /\ sealJob.stage = "idle" /\ Labels # {}
    /\ sealJob' = StartPeriod(1, Count, manifest)
    /\ UNCHANGED <<policy, arrived, singles, archives, manifest, sealFaults>>

Reused(item) == \E i \in DOMAIN sealJob.current : sealJob.current[i] = item

(* _resolve_scan_table: from the first record that covers the scan, whatever   *)
(* its period, or from its own shard; <<>> where neither can be read.          *)
Rows(l, p) ==
    LET c == Covering(sealJob.current, l)
        k == sealJob.current[Min(c)].key
    IN  IF c # {} THEN IF k \in DOMAIN archives THEN <<archives[k][l]>> ELSE <<>>
        ELSE IF <<l, p>> \in singles THEN <<p>> ELSE <<>>

(* ... each block is kept or built, ...                                        *)
BuildBlock ==
    /\ sealJob.stage = "build"
    /\ LET broken == ~Reused(Item) /\ \E l \in Members(Item) : Rows(l, Item.period) = <<>>
       IN  /\ archives' = IF broken \/ Reused(Item) THEN archives
                          ELSE Archived(Item.key, [l \in Members(Item) |-> Rows(l, Item.period)[1]])
           /\ sealJob' = IF broken THEN NoJob
                     ELSE [sealJob EXCEPT !.target = Append(@, Item), !.work = Tail(@),
                                      !.stage  = IF Len(sealJob.work) = 1 THEN "delete" ELSE "build"]
    /\ UNCHANGED <<policy, arrived, singles, manifest, sealFaults>>

PeriodOfJob == sealJob.target[1].period

(* ... the superseded archives are deleted, ...                                *)
DeleteSuperseded ==
    /\ sealJob.stage = "delete"
    /\ LET kept == {sealJob.target[i].key : i \in DOMAIN sealJob.target}
           gone == {sealJob.current[i].key : i \in DOMAIN sealJob.current} \ kept
       IN  archives' = [k \in (DOMAIN archives) \ gone |-> archives[k]]
    /\ sealJob' = [sealJob EXCEPT !.stage = "singles"]
    /\ UNCHANGED <<policy, arrived, singles, manifest, sealFaults>>

(* ... then the individual shards the blocks cover, ...                        *)
DropCovered ==
    /\ sealJob.stage = "singles"
    /\ singles' = {t \in singles : ~(t[2] = PeriodOfJob /\ \E i \in DOMAIN sealJob.target :
                                         t[1] \in Members(sealJob.target[i]))}
    /\ sealJob' = [sealJob EXCEPT !.stage = "rewrite"]
    /\ UNCHANGED <<policy, arrived, archives, manifest, sealFaults>>

(* ... and the manifest is replaced by the records of this period.             *)
Rewrite ==
    /\ sealJob.stage = "rewrite"
    /\ manifest' = sealJob.target
    /\ sealJob' = IF PeriodOfJob = policy.periods THEN NoJob
              ELSE StartPeriod(PeriodOfJob + 1, sealJob.count, sealJob.target)
    /\ UNCHANGED <<policy, arrived, singles, archives, sealFaults>>

(* The job dies between two of its steps.                                      *)
SealDies ==
    /\ sealJob.stage # "idle" /\ sealFaults < MaxSealFaults
    /\ sealJob' = NoJob /\ sealFaults' = sealFaults + 1
    /\ UNCHANGED <<policy, arrived, singles, archives, manifest>>

Dyadic == StartDyadic \/ BuildBlock \/ DeleteSuperseded \/ DropCovered \/ Rewrite

NextSeal ==
    \/ \E l \in 1..MaxLabels, p \in 1..policy.periods : TileArrives(l, p)
    \/ StartFixed \/ PutGroup \/ RecordGroup \/ DropMember
    \/ Dyadic
    \/ SealDies

SpecSeal == InitSeal /\ [][NextSeal]_sealVars

TypeSeal ==
    /\ singles \subseteq arrived
    /\ sealJob.stage \in {"idle", "put", "record", "drop", "build", "delete", "singles", "rewrite"}
    /\ \A k \in DOMAIN archives : \A l \in DOMAIN archives[k] : archives[k][l] \in 1..policy.periods

-----------------------------------------------------------------------------
(* What a reader of a tile gets: through the first record of its period that   *)
(* names the scan, otherwise the individual shard.                             *)
Serves(l, p) ==
    LET c == {i \in Covering(manifest, l) : manifest[i].period = p}
        k == manifest[Min(c)].key
    IN  IF c = {} THEN <<l, p>> \in singles
        ELSE k \in DOMAIN archives /\ l \in DOMAIN archives[k] /\ archives[k][l] = p

(* Whatever step a seal is at or died at, every tile that arrived can be read.   *)
EveryScanServed == \A t \in arrived : Serves(t[1], t[2])

(* Nothing is lost to a job that died: at rest, every tile can be read.          *)
CrashSafe == sealJob = NoJob => EveryScanServed

(* Every tile can be read at every step of the fixed scheme.  The exponential    *)
(* scheme deletes before it records, so it is at rest, with no crash before it   *)
(* and a range of one period, that every tile can be read, and there that no     *)
(* superseded archive is left and that a scan is in one record only              *)
(* (seal_dyadic, resolve_scan).                                                  *)
SealsKeepScans ==
    /\ policy.scheme = "fixed" => EveryScanServed
    /\ policy = [scheme |-> "exponential", periods |-> 1] /\ sealJob = NoJob /\ sealFaults = 0 =>
           /\ EveryScanServed
           /\ DOMAIN archives = {manifest[i].key : i \in DOMAIN manifest}
           /\ \A l \in Labels : Cardinality(Covering(manifest, l)) <= 1
=============================================================================
