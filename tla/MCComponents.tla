---------------------------- MODULE MCComponents ----------------------------
(***************************************************************************)
(* Components that are checked on small instances of their own, one run for *)
(* all: a behaviour is one of one component, chosen at the start.  The      *)
(* components that theorems are about are extended, and rest in one of      *)
(* their initial states where they are not the one that runs; the others    *)
(* are instances, and hold a blank value.                                   *)
(***************************************************************************)
EXTENDS MCHashedStore, TileSource, HeldFill, Rebuild, TipWriter, LambdaDeploy, ScanSeal, Cascade, MultiScan, Materializer, Intervals

VARIABLES
    part,  \* the component that runs
    \* of Runs
    feed, bufs, last, ended, merged, pending, groups, closed, mode, given

-----------------------------------------------------------------------------
(* The instances. *)

\* Tiles of one unit and of three.
TileRungs == <<{<<u, u + 1>> : u \in 0 .. 8}, {<<0, 3>>, <<3, 6>>, <<6, 9>>}>>
TileRow(r) == {<<r, iv[1], iv[2]>> : iv \in TileRungs[r]}
SomeListings ==
    {TileRow(2), {<<2, 0, 3>>, <<2, 3, 6>>, <<1, 6, 7>>},
     {<<2, 0, 3>>, <<1, 3, 4>>, <<1, 5, 6>>, <<2, 6, 9>>}, (TileRow(1) \cup {<<2, 3, 6>>}) \ {<<1, 3, 4>>}}
NoneMissing == <<0, 1>>

\* Raw tiles longer than the fine shards, and not aligned with the windows.
HeldLadder == <<[bin |-> 1, shards |-> {1, 2}], [bin |-> 2, shards |-> {2, 6}]>>
HeldModes == {<<"raw", FALSE, <<0, 1>>>>, <<"raw", TRUE, <<0, 1>>>>, <<"raw", FALSE, <<1, 2>>>>, <<"shards", FALSE, <<0, 1>>>>}

\* A rung that is over the budget, and one unit in reach of the next clock.
TwoTiers == <<[bin |-> 1, shards |-> {1, 2}], [bin |-> 2, shards |-> {2, 4}]>>

\* The second rung straddles the base shards; the third has a longer bin.
Periods(d, n) == {<<k * d, (k + 1) * d>> : k \in 0 .. n - 1}
ThreeRungs ==
    <<[bin |-> 1, periods |-> Periods(2, 3)], [bin |-> 1, periods |-> Periods(3, 2)],
      [bin |-> 3, periods |-> Periods(6, 1)]>>
TwoTokens == {"a", "b"}
TwoMaps == {[k \in {"a", "b"} |-> "x"], [k \in {"b"} |-> "y"]}
OneBase == {<<1, 0, 2, 0, 1>>}

\* Batches that touch again what an earlier one has written, and leave a gap.
TwoRanges == {<<0, 2>>, <<2, 4>>}
ThreeBatches == <<[b \in {0, 1} |-> 1], [b \in {1, 2} |-> 2], [b \in {0, 3} |-> 3]>>

\* Two keys in three scans: a key may change, go, and come back; the grid around
\* them has keys below, between and above the cuts.
TwoScanKeys == {<<1, 2>>, <<2, 1>>}
SmallGrid == (1 .. 3) \X (1 .. 3)
ThreeStates == {[c |-> 1, x |-> 1], [c |-> 1, x |-> 2], [c |-> 2, x |-> 1]}
RowGroup(a, b, e, n) == [key |-> <<a, b>>, exact |-> e, rows |-> n]
TwoFooters ==
    {<<RowGroup(1, 1, TRUE, 2), RowGroup(1, 3, TRUE, 1), RowGroup(2, 1, FALSE, 2), RowGroup(2, 2, TRUE, 2)>>,
     <<RowGroup(1, 2, TRUE, 1), RowGroup(2, 1, TRUE, 3), RowGroup(1, 1, TRUE, 1)>>}

\* Every sorted input of three rows and of two over four keys, cut in several ways.
RunKeys == {<<1, 1>>, <<1, 2>>, <<2, 1>>, <<3, 1>>}
InOrder(n) ==
    {s \in [1 .. n -> RunKeys] :
        \A i \in 1 .. n - 1 : s[i][1] < s[i + 1][1] \/ (s[i][1] = s[i + 1][1] /\ s[i][2] <= s[i + 1][2])}
RunRow(k, v) == [id |-> k[1], rest |-> k[2], v |-> v]
Batched(vals, cuts) ==
    {[b \in DOMAIN c |-> [m \in 1 .. c[b][2] - c[b][1] + 1 |-> RunRow(s[c[b][1] + m - 1], vals[c[b][1] + m - 1])]] :
        s \in InOrder(Len(vals)), c \in cuts}
RunInputs ==
    {<<a, b>> : a \in Batched(<<3, 1, 5>>, {<<<<1, 3>>>>, <<<<1, 1>>, <<2, 1>>, <<2, 3>>>>, <<<<1, 2>>, <<3, 3>>>>}),
                b \in Batched(<<2, 4>>, {<<<<1, 2>>>>, <<<<1, 1>>, <<2, 2>>>>}) \cup {<<>>}}
Reduces == {"none", "min", "newest"}
GroupSizes == {2}

\* Five scans: births, deaths, a change that is undone, a row of the identity.
Scan(a, b) == [k \in {"a", "b"} |-> IF k = "a" THEN a ELSE b]
FiveShots == {[k \in {"b"} |-> 1], Scan(1, 1), Scan(0, 2), [k \in {} |-> 0]}

\* Groups of two in both schemes; the fixed one over two periods.
BothSchemes == {[scheme |-> "fixed", periods |-> 2], [scheme |-> "exponential", periods |-> 1]}

\* Two tiers above the base with a raw day that cuts across shards; a tier that
\* a coarse base shard straddles.
SomeMatLadders ==
    {<<[bin |-> 1, shards |-> {2, 4, 8}], [bin |-> 2, shards |-> {2, 4}], [bin |-> 4, shards |-> {8}]>>,
     <<[bin |-> 1, shards |-> {2, 6}], [bin |-> 3, shards |-> {3, 6}]>>}
RawSome == {0 .. 8, 3 .. 7}
RestingMat == <<CHOOSE l \in SomeMatLadders : TRUE, CHOOSE u \in RawSome : TRUE, TRUE, TRUE>>

\* Two rules of one function, whose package type is changed.
DeployCall(r, f, p, e) == [rule |-> r, fn |-> f, package |-> p, enabled |-> e]
ThreeJobs == {DeployCall("r1", "f1", "Zip", "preserve"), DeployCall("r1", "f1", "Image", "preserve"),
              DeployCall("r2", "f1", "Image", "ENABLED")}

-----------------------------------------------------------------------------
M == INSTANCE Runs

runsVars == <<feed, bufs, last, ended, merged, pending, groups, closed, mode, given>>
BlankRuns ==
    /\ feed = 0 /\ bufs = 0 /\ last = 0 /\ ended = 0 /\ merged = 0 /\ pending = 0
    /\ groups = 0 /\ closed = 0 /\ mode = 0 /\ given = 0

-----------------------------------------------------------------------------
Is(p) == part = p

Start ==
    /\ Init
    /\ part \in {"store", "tiles", "held", "rebuild", "cascade", "tip", "intervals", "runs", "scans", "seal", "materializer", "deploy"}
    /\ InitTiles /\ (Is("tiles") \/ listing = CHOOSE l \in Listings : TRUE)
    /\ InitFill /\ (Is("held") \/ <<heldSource, strictOpen, tolerance>> = CHOOSE m \in Modes : TRUE)
    /\ InitRebuild /\ (Is("rebuild") \/ (~cutoff /\ drought = {}))
    /\ InitTip /\ (Is("tip") \/ (onConflict = "keep-last" /\ index = "rows"))
    /\ InitDeploy /\ InitCascade /\ InitMulti
    /\ InitMat /\ (Is("materializer") \/ <<matLadder, rawUnits, rawGiven, whole>> = RestingMat)
    /\ InitSeal /\ (Is("seal") \/ policy = CHOOSE s \in SealPolicies : TRUE)
    /\ InitIntervals /\ (Is("intervals") \/ plan = CHOOSE p \in Plans : TRUE)
    /\ IF Is("runs") THEN M!InitRuns ELSE BlankRuns

ComponentStep ==
    \/ Is("store") /\ Next
       /\ UNCHANGED <<part, tileVars, rebuildVars, tipVars, deployVars, fillVars,
                      cascadeVars, intervalsVars, runsVars, multiScanVars, sealVars, materializerVars>>
    \/ Is("tiles") /\ NextTiles
       /\ UNCHANGED <<part, vars, rebuildVars, tipVars, deployVars, fillVars, cascadeVars,
                      intervalsVars, runsVars, multiScanVars, sealVars, materializerVars>>
    \/ Is("rebuild") /\ NextRebuild
       /\ UNCHANGED <<part, vars, tileVars, tipVars, deployVars, fillVars, cascadeVars,
                      intervalsVars, runsVars, multiScanVars, sealVars, materializerVars>>
    \/ Is("tip") /\ NextTip
       /\ UNCHANGED <<part, vars, tileVars, rebuildVars, deployVars, fillVars,
                      cascadeVars, intervalsVars, runsVars, multiScanVars, sealVars, materializerVars>>
    \/ Is("deploy") /\ NextDeploy
       /\ UNCHANGED <<part, vars, tileVars, rebuildVars, tipVars, fillVars, cascadeVars,
                      intervalsVars, runsVars, multiScanVars, sealVars, materializerVars>>
    \/ Is("held") /\ NextFill
       /\ UNCHANGED <<part, vars, tileVars, rebuildVars, tipVars, deployVars, cascadeVars,
                      intervalsVars, runsVars, multiScanVars, sealVars, materializerVars>>
    \/ Is("cascade") /\ NextCascade
       /\ UNCHANGED <<part, vars, tileVars, rebuildVars, tipVars, deployVars, fillVars,
                      intervalsVars, runsVars, multiScanVars, sealVars, materializerVars>>
    \/ Is("intervals") /\ NextIntervals
       /\ UNCHANGED <<part, vars, tileVars, rebuildVars, tipVars, deployVars, fillVars,
                      cascadeVars, runsVars, multiScanVars, sealVars, materializerVars>>
    \/ Is("runs") /\ M!NextRuns
       /\ UNCHANGED <<part, vars, tileVars, rebuildVars, tipVars, deployVars, fillVars,
                      cascadeVars, intervalsVars, multiScanVars, sealVars, materializerVars>>
    \/ Is("scans") /\ NextMulti
       /\ UNCHANGED <<part, vars, tileVars, rebuildVars, tipVars, deployVars, fillVars,
                      cascadeVars, intervalsVars, runsVars, sealVars, materializerVars>>
    \/ Is("seal") /\ NextSeal
       /\ UNCHANGED <<part, vars, tileVars, rebuildVars, tipVars, deployVars, fillVars,
                      cascadeVars, intervalsVars, runsVars, multiScanVars, materializerVars>>
    \/ Is("materializer") /\ NextMat
       /\ UNCHANGED <<part, vars, tileVars, rebuildVars, tipVars, deployVars, fillVars,
                      cascadeVars, intervalsVars, runsVars, multiScanVars, sealVars>>

Components == Start /\ [][ComponentStep]_<<part, vars, tileVars, rebuildVars, tipVars,
                                     deployVars, fillVars, cascadeVars, intervalsVars, runsVars, multiScanVars, sealVars,
                                     materializerVars>>

-----------------------------------------------------------------------------
(* Every component's state has its type. *)
Types ==
    /\ TypeOK
    /\ Is("tiles") => TypeTiles
    /\ Is("held") => TypeFill
    /\ Is("rebuild") => TypeRebuild
    /\ Is("cascade") => TypeCascade
    /\ Is("tip") => TypeTip
    /\ Is("intervals") => TypeIntervals
    /\ Is("runs") => M!TypeRuns
    /\ Is("scans") => TypeMulti
    /\ Is("seal") => TypeSeal
    /\ Is("materializer") => TypeMat
    /\ Is("deploy") => TypeDeploy

(* A streaming merge emits in order, with every row of an identity together,  *)
(* however its inputs are cut into batches (merge_sorted,                     *)
(* write_exact_row_groups).                                                  *)
MergeExact == Is("runs") => M!MergeExact

=============================================================================
