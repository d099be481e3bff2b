----------------------------- MODULE RaggedPacking -----------------------------
(***************************************************************************)
(* How the planner packs one output bin of a width that no tier has with   *)
(* bins of the tiers: the shortest path of decomposeBin for a fixed width, *)
(* the greedy packing of months and years, from watermarks and from the    *)
(* registered shards.                                                      *)
(***************************************************************************)
EXTENDS PlanLadder

\* An atom is a tier and an interval.
Atom(t, from, to) == [tier |-> t, from |-> from, to |-> to]
NoPath == <<Atom(0, 0, 0)>>

\* The bins of tier t inside [a, b).
BinsInside(t, a, b) == {Atom(t, x, After(Grid[t], x)) : x \in {x \in Grid[t] \ {Horizon} : a <= x /\ After(Grid[t], x) <= b}}

\* A registered shard of the tier holds the whole of the atom.
Held(atom, inventory) ==
    \E s \in inventory :
        TierOf(CellOf(s)) = atom.tier /\ StartOf(s) <= atom.from /\ EndOf(s) >= atom.to

\* A shortest sequence of the atoms from a to b; of the shortest ones the one
\* that starts with the finest tier (in the mutant, the first one found).
DecomposeFinest(atoms, a, b) ==
    LET path[c \in a .. b] ==
            IF c = b THEN <<>>
            ELSE LET ways == {w \in {<<x, path[x.to]>> : x \in {x \in atoms : x.from = c}} : w[2] # NoPath}
                 IN IF ways = {} THEN NoPath
                    ELSE LET w == CHOOSE w \in ways : \A v \in ways : w[1].tier <= v[1].tier
                         IN <<w[1]>> \o w[2]
    IN path[a]
Better(w, v) ==
    \/ Len(w[2]) < Len(v[2])
    \/ Len(w[2]) = Len(v[2]) /\ Width[w[1].tier] <= Width[v[1].tier]
BestWay(ways) == CHOOSE w \in ways : \A v \in ways : Better(w, v)
Ways(path, atoms, c) ==
    {w \in {<<x, path[x.to]>> : x \in {x \in atoms : x.from = c}} : w[2] # NoPath}
Solve(path, atoms, c) ==
    LET ways == Ways(path, atoms, c)
    IN IF ways = {} THEN NoPath ELSE <<BestWay(ways)[1]>> \o BestWay(ways)[2]
Decompose(atoms, a, b) ==
    LET path[c \in a .. b] == IF c = b THEN <<>> ELSE Solve(path, atoms, c)
    IN path[a]

\* The bins of a base tier divide the day (in the mutant, any fixed width).
BaseFixed(t) == t \notin Calendar
Base(t) == t \notin Calendar /\ Day \subseteq Grid[t]

\* The tiers a calendar bin of nominal width w may be packed from, the
\* coarsest first; none without a base.
DayAligned(t) == t \in Calendar \/ Day \subseteq Grid[t] \/ Grid[t] \subseteq Day
Usable(w) == {t \in Tiers : DayAligned(t) /\ (t \in Calendar => Width[t] < w)}
Outranks(x, y) ==
    \/ Width[x] > Width[y]
    \/ Width[x] = Width[y] /\ Base(x) /\ ~Base(y)
    \/ Width[x] = Width[y] /\ (Base(x) <=> Base(y)) /\ x < y
Ahead(tiers, t) == {x \in tiers \ {t} : Outranks(x, t)}
PackTiers(w) ==
    IF \E t \in Usable(w) : Base(t)
    THEN [i \in 1 .. Cardinality(Usable(w)) |->
              CHOOSE t \in Usable(w) : Cardinality(Ahead(Usable(w), t)) = i - 1]
    ELSE <<>>

\* What the packing takes of tier t in [s, e): the whole bins that are sealed,
\* and of a base tier also the one that is cut by its watermark or by the end ...
TakeSealed(t, sealed, early, s, e) ==
    LET upto  == Min({e, sealed[t]})
        first == Ceil(Grid[t], Max({s, early[t]}))
        last  == Floor(Grid[t], upto)
        whole == IF first < last THEN {Atom(t, first, last)} ELSE {}
        cut   == IF Base(t) /\ last < upto /\ last >= s /\ early[t] <= last
                 THEN {Atom(t, last, upto)} ELSE {}
    IN whole \cup cut

\* ... or every bin that a registered shard holds.
TakeRegistered(t, inventory, s, e) == {x \in BinsInside(t, s, e) : Held(x, inventory)}

\* The edges, and what is between them, go to the finer tiers.
Residues(taken, s, e) ==
    {g \in ({s} \cup {x.to : x \in taken}) \X ({e} \cup {x.from : x \in taken}) :
        /\ g[1] < g[2]
        /\ \A x \in taken : x.to <= g[1] \/ x.from >= g[2]}
Descend(finer, taken, s, e) == taken \cup UNION {finer[g] : g \in Residues(taken, s, e)}
Pack(tiers, take, a, b) ==
    LET pack[i \in 1 .. Len(tiers) + 1] ==
            [g \in Times \X Times |->
                IF i > Len(tiers) THEN {}
                ELSE Descend(pack[i + 1], take[tiers[i]][g], g[1], g[2])]
    IN pack[1][<<a, b>>]

PackSealed(tiers, sealed, early, a, b) ==
    Pack(tiers, [t \in Tiers |-> [g \in Times \X Times |-> TakeSealed(t, sealed, early, g[1], g[2])]], a, b)
PackRegistered(tiers, inventory, a, b) ==
    Pack(tiers, [t \in Tiers |-> [g \in Times \X Times |-> TakeRegistered(t, inventory, g[1], g[2])]], a, b)
===============================================================================
