------------------------------- MODULE Cadence -------------------------------
(***************************************************************************)
(* How raw frames of one amplifier become calibration targets: the frames   *)
(* of a kind in the planning window are put into groups by their times, the  *)
(* Hg and Cd groups are paired into arcs, and what is not registered under   *)
(* the same group identity is made.  Scans go on between the plans and       *)
(* during a run, in any order; the row of a frame comes before the details   *)
(* from its header.  A group is the set of its frames: its identity depends  *)
(* on them, not on the interval it is meant for.                             *)
(***************************************************************************)
EXTENDS Integers, Sequences, FiniteSets

CONSTANTS
  Campaigns,  \* what may be taken: sets of frames
  Policy,     \* kind -> how it is grouped; "time" and "count" stand for the
              \* two custom cadences, which give windows without an identity
  Span,       \* kind -> the longest isolated group, the calendar period, or max_span_days
  Minimum,    \* kind -> frames a group or a window needs
  Intervals,  \* configured intervals <<start, end>>, the first one counts
  Names,      \* what each is called; several may have one name
  GroupId(_), \* the hash of a group's frames
  Day,        \* length of a day
  Separation, \* between the centers of a lamp pair
  Windows,    \* what a run is asked to plan: [by |-> "utc" or "night", first, last]
  Everything, \* the window that stands for none
  MaxPlans    \* bound: planned runs; what is scanned after the last is planned no more

Kind == {"bias", "dark", "sci", "hg", "cd", "flat", "twi"}

\* A raw frame and what its header says, the label of an observing block too, if it
\* has one; the night of the archive or directory it is in.
NoNight == -1
NoBlock == -1
Frame   == [id : Nat, kind : Kind, time : Nat, exptime : Nat \ {0},
            block : Nat \union {NoBlock}, night : Nat \union {NoNight}]

ASSUME CadenceAssumption ==
  /\ \A C \in Campaigns : /\ C \subseteq Frame /\ IsFiniteSet(C)
                          /\ \A f, g \in C : f.id = g.id => f = g
                          /\ \A g, h \in SUBSET C : /\ GroupId(g) \in Nat
                                                   /\ (GroupId(g) = GroupId(h) => g = h)
  /\ Policy \in [Kind -> {"isolated", "rolling_24h", "calendar", "intervals", "block",
                         "time", "count"}]
  /\ Span \in [Kind -> Nat \ {0}] /\ Minimum \in [Kind -> Nat]
  /\ Intervals \in Seq(Nat \X Nat) /\ DOMAIN Names = DOMAIN Intervals
  /\ Day \in Nat \ {0} /\ Separation \in Nat /\ MaxPlans \in Nat
  /\ Windows \subseteq [by : {"utc", "night"}, first : Nat, last : Nat]

VARIABLES
  taken,   \* the frames of the campaign
  catalog, \* frame -> what the registry has of it
  seen,    \* the catalog as the last plan read it, within its window
  plan,    \* the targets of the last plan
  todo,    \* those its run still has to make
  made,    \* registered groups
  plans,
  orderly  \* history: frames came in time, and whole, before they were planned

cadenceVars == <<taken, catalog, seen, plan, todo, made, plans, orderly>>

\* The lamp of a comparison frame is in its header, a science frame has to be long
\* enough: without details such a frame is excluded.
ByHeader == {"hg", "cd", "sci"}

Visible(v, k) ==
  {f \in DOMAIN v : f.kind = k /\ v[f] \in (IF k \in ByHeader THEN {} ELSE {"row"}) \union {"whole"}}

\* The nominal exposure class of a dark; without details it has none.
Class(v, k, f) == IF k = "dark" /\ v[f] = "whole" THEN f.exptime ELSE 0

\* sorted(): the members of S in the order of the pairs in R.
Sorted(S, R) ==
  CHOOSE s \in [1..Cardinality(S) -> S] : \A i, j \in DOMAIN s : i < j => <<s[i], s[j]>> \in R

\* Mutant: as the registry listed them.
Listed(S) == Sorted(S, {p \in S \X S : p[1].id < p[2].id})

ByTime(S) ==
  {p \in S \X S : p[1].time < p[2].time \/ (p[1].time = p[2].time /\ p[1].id < p[2].id)}

Chronological(S) == Sorted(S, ByTime(S))

FirstTime(g) == CHOOSE t \in {f.time : f \in g} : \A f \in g : t <= f.time
LastTime(g)  == CHOOSE t \in {f.time : f \in g} : \A f \in g : t >= f.time

-----------------------------------------------------------------------------
(* Groups                                                                  *)

\* Mutant: the span is measured from the frame before.
FitsPrevious(rows, first, i, limit) == rows[i].time - rows[i - 1].time <= limit

Fits(rows, first, i, limit) == rows[i].time - rows[first].time <= limit

\* Where the group of a frame begins: a frame that does not fit begins one.
Begins(rows, limit) ==
  LET first[i \in DOMAIN rows] ==
        IF i > 1 /\ Fits(rows, first[i - 1], i, limit) THEN first[i - 1] ELSE i
  IN  first

PartitionBy(S, key) == {{g \in S : key[g] = key[f]} : f \in S}

\* _split_isolated
Split(S, limit) ==
  LET rows  == Chronological(S)
      first == Begins(rows, limit)
  IN  {{rows[j] : j \in places} : places \in PartitionBy(DOMAIN rows, first)}

\* The first configured interval that has the time.
IntervalsAt(t) == {i \in DOMAIN Intervals : Intervals[i][1] <= t /\ t < Intervals[i][2]}
IntervalAt(t)  == CHOOSE i \in IntervalsAt(t) : \A j \in IntervalsAt(t) : i <= j

Inside(k, f) == Policy[k] = "intervals" => IntervalsAt(f.time) # {}

\* What a frame is grouped by: the name of the configured interval, or the label
\* of its block; a frame without one, by the calendar.
KeyOf(v, k, f) ==
  IF Policy[k] = "intervals" THEN <<"interval", Names[IntervalAt(f.time)]>>
  ELSE IF Policy[k] = "block" /\ v[f] = "whole" /\ f.block # NoBlock THEN <<"block", f.block>>
  ELSE <<"period", f.time \div Span[k]>>

Buckets(v, k) ==
  LET S == {f \in Visible(v, k) : Inside(k, f)}
  IN  CASE Policy[k] = "isolated"    -> Split(S, Span[k])
        [] Policy[k] = "rolling_24h" -> Split(S, Day)
        [] OTHER                     -> PartitionBy(S, [f \in S |-> KeyOf(v, k, f)])

Grouped == {k \in Kind : Policy[k] \notin {"time", "count"}}

\* Darks are told apart by their exposure class within a bucket.  A bucket
\* with too few frames stays unresolved.
Groups(v, k) ==
  {g \in UNION {PartitionBy(b, [f \in b |-> Class(v, k, f)]) : b \in Buckets(v, k)} :
     Cardinality(g) >= Minimum[k]}

GroupClass(v, k, g)  == Class(v, k, CHOOSE f \in g : TRUE)
GroupTarget(v, k, g) == [kind |-> k, frames |-> g, class |-> GroupClass(v, k, g)]

\* The interval a group is applicable in.
Applicable(k, g) ==
  CASE Policy[k] \in {"isolated", "block"} -> <<FirstTime(g), LastTime(g)>>
    [] Policy[k] = "rolling_24h" -> <<FirstTime(g), FirstTime(g) + Day>>
    [] Policy[k] = "calendar"    -> <<(FirstTime(g) \div Span[k]) * Span[k],
                                      (FirstTime(g) \div Span[k] + 1) * Span[k]>>
    [] Policy[k] = "intervals"   -> Intervals[IntervalAt(FirstTime(g))]

-----------------------------------------------------------------------------
(* Lamp pairs                                                              *)

\* Times are doubled, as a center may lie between two of them.
Center2(g) == FirstTime(g) + LastTime(g)

Apart2(g, h) == IF Center2(g) < Center2(h) THEN Center2(h) - Center2(g) ELSE Center2(g) - Center2(h)

Near(h, cds) == {c \in cds : Apart2(h, c) <= 2 * Separation}

\* min() of separation, center and identity.
Preferred(g, h) == Center2(g) < Center2(h) \/ (Center2(g) = Center2(h) /\ GroupId(g) <= GroupId(h))

Nearest(h, cds) ==
  CHOOSE c \in cds : \A d \in cds :
    Apart2(h, c) < Apart2(h, d) \/ (Apart2(h, c) = Apart2(h, d) /\ Preferred(c, d))

\* Mutant: a Cd group stays available.
AvailableAlways(cds, pairs) == cds

Available(cds, pairs) == {c \in cds : \A p \in pairs : p[2] # c}

\* pair_lamp_groups: every Hg group in turn takes the nearest that is left.
Choice(h, cds) == IF Near(h, cds) = {} THEN {} ELSE {<<h, Nearest(h, Near(h, cds))>>}

Earlier(g, h) ==
  FirstTime(g) < FirstTime(h) \/ (FirstTime(g) = FirstTime(h) /\ GroupId(g) < GroupId(h))

ByFirstTime(G) == {p \in G \X G : Earlier(p[1], p[2])}

Pairs(hgs, cds) ==
  LET n  == Cardinality(hgs)
      hg == Sorted(hgs, ByFirstTime(hgs))
      pairs[i \in 0..n] ==
        IF i = 0 THEN {} ELSE pairs[i - 1] \union Choice(hg[i], Available(cds, pairs[i - 1]))
  IN  pairs[n]

\* A window has no group that could be paired.
Arcs(v) ==
  IF {"hg", "cd"} \subseteq Grouped
  THEN {[kind |-> "arc", frames |-> p] : p \in Pairs(Groups(v, "hg"), Groups(v, "cd"))} ELSE {}

-----------------------------------------------------------------------------
(* Custom cadences                                                         *)

\* list_raw_files_scoped: by frame type, which the two lamps share, whatever the
\* header says.
RawType(k)   == IF k \in {"hg", "cd"} THEN "cmp" ELSE k
Scoped(v, k) == {f \in DOMAIN v : RawType(f.kind) = RawType(k) /\ v[f] # "absent"}

\* The same between two instants, both included.
Between(v, k, from, to) == {f \in Scoped(v, k) : from <= f.time /\ f.time <= to}

\* time_cadence_windows: one window, whatever the period; a planning window makes
\* up for frames that are missing.
TimeWindows(S, k, bounded) ==
  IF S = {} \/ (Cardinality(S) < Minimum[k] /\ ~bounded) THEN {}
  ELSE {<<FirstTime(S), LastTime(S)>>}

\* exposure_count_windows: a window from frame i goes on to as many as are needed, at
\* least one more, but to none more than the span of whole days after the first.
Days(rows, i, j) == (rows[j].time - rows[i].time) \div Day
More(k)          == IF Minimum[k] <= 1 THEN 1 ELSE Minimum[k] - 1
Ends(rows, k, i) == {j \in i..Len(rows) : j <= i + More(k) /\ Days(rows, i, j) <= Span[k]}
EndOf(rows, k, i)  == CHOOSE j \in Ends(rows, k, i) : \A l \in Ends(rows, k, i) : l <= j
Closed(rows, k, i) ==
  LET j == EndOf(rows, k, i) IN j - i + 1 >= Minimum[k] \/ Days(rows, i, j) >= Span[k]

CountWindows(S, k) ==
  LET rows == Chronological(S)
      roll[i \in 1..(Len(rows) + 1)] ==
        IF i > Len(rows) \/ ~Closed(rows, k, i) THEN {}
        ELSE {<<rows[i].time, rows[EndOf(rows, k, i)].time>>} \union roll[EndOf(rows, k, i) + 1]
  IN  roll[1]

CustomWindows(v, k, bounded) ==
  IF Policy[k] = "time" THEN TimeWindows(Scoped(v, k), k, bounded) ELSE CountWindows(Scoped(v, k), k)

WindowTarget(v, k, w) ==
  [kind |-> k, frames |-> Between(v, k, w[1], w[2]), from |-> w[1], to |-> w[2]]

\* One target for windows with the same frames.
WindowTargets(v, k, bounded) ==
  LET windows     == CustomWindows(v, k, bounded)
      earliest(w) == \A u \in windows :
                       WindowTarget(v, k, u).frames = WindowTarget(v, k, w).frames => w[1] <= u[1]
  IN  {WindowTarget(v, k, w) : w \in {u \in windows : earliest(u)}}

Targets(v, bounded) ==
  (UNION {{GroupTarget(v, k, g) : g \in Groups(v, k)} : k \in Grouped})
    \union (UNION {WindowTargets(v, k, bounded) : k \in Kind \ Grouped})
    \union Arcs(v)

Windowed(t) == t.kind \in Kind \ Grouped

-----------------------------------------------------------------------------
(* The catalog and the runs                                                *)

CadenceTypeOK ==
  /\ taken \in Campaigns
  /\ {catalog, seen} \subseteq [taken -> {"absent", "row", "whole"}]
  /\ {t.kind : t \in plan \union made} \subseteq Kind \union {"arc"}
  /\ todo \subseteq plan /\ \A t \in todo \intersect made : Windowed(t)
  /\ plans \in 0..MaxPlans
  /\ orderly \in BOOLEAN

CadenceInit ==
  /\ taken \in Campaigns
  /\ catalog = [f \in taken |-> "absent"] /\ seen = catalog
  /\ plan = {} /\ todo = {} /\ made = {}
  /\ plans = 0
  /\ orderly = TRUE

Known == {f \in taken : catalog[f] # "absent"}

ScanRow(f) ==
  /\ f \in taken /\ catalog[f] = "absent" /\ plans < MaxPlans
  /\ catalog' = [catalog EXCEPT ![f] = "row"]
  /\ orderly' = (orderly /\ \A g \in Known : catalog[g] = "whole" /\ g.time <= f.time)
  /\ UNCHANGED <<taken, seen, plan, todo, made, plans>>

ScanDetails(f) ==
  /\ f \in taken /\ catalog[f] = "row" /\ plans < MaxPlans
  /\ catalog' = [catalog EXCEPT ![f] = "whole"]
  /\ UNCHANGED <<taken, seen, plan, todo, made, plans, orderly>>

\* observing_night_from_provenance: the label of the directory or archive, whatever
\* the time of the frame.
Night(f) == f.night

InNights(w, f) == Night(f) # NoNight /\ w.first <= Night(f) /\ Night(f) <= w.last

InWindow(w, f) ==
  IF w.by = "night" THEN InNights(w, f) ELSE w.first <= f.time \div Day /\ f.time \div Day <= w.last

Listing(w) == [f \in taken |-> IF InWindow(w, f) THEN catalog[f] ELSE "absent"]

\* list_zipcodes: is the amplifier in the window at all?
Discovered(w) == \E f \in Known : InWindow(w, f)

Plan(w) ==
  /\ todo = {} /\ plans < MaxPlans
  /\ seen' = Listing(w)
  /\ plan' = IF Discovered(w) THEN Targets(seen', w.by = "utc" /\ w # Everything) ELSE {}
  /\ todo' = {t \in plan' : Windowed(t) \/ t \notin made}
  /\ plans' = plans + 1
  /\ orderly' = (orderly /\ \A f \in Known :
                   catalog[f] = "whole" /\ \A g \in Known :
                     InWindow(w, g) /\ f.time <= g.time => InWindow(w, f))
  /\ UNCHANGED <<taken, catalog, made>>

\* list_raw_files_by_ids: it raises if one is gone; no row ever is.
ById(ids) == ids \intersect Known

\* query_inputs: planned ids, or what is in the window by now, of whatever night.
QueryInputs(t) ==
  CASE Windowed(t)    -> Between(catalog, t.kind, t.from, t.to)
    [] t.kind = "arc" -> t.frames
    [] OTHER          -> ById(t.frames)

\* The headers decide: darks planned without details may be of several classes.
Compatible(k, S) == k = "dark" => Cardinality({f.exptime : f \in S}) = 1

LampsMade(p) == \A i \in 1..2 : \E m \in made : m.kind # "arc" /\ m.frames = p[i]

\* As it is registered: under the planned identity, with the raw parents it had.
Registered(t) == [t EXCEPT !.frames = QueryInputs(t)]

Make(t) ==
  /\ t \in todo
  /\ Compatible(t.kind, QueryInputs(t))
  /\ t.kind = "arc" => LampsMade(t.frames)
  /\ made' = made \union {Registered(t)} /\ todo' = todo \ {t}
  /\ UNCHANGED <<taken, catalog, seen, plan, plans, orderly>>

\* What was not made failed, or the run was cut short.
EndRun ==
  /\ todo # {}
  /\ todo' = {}
  /\ UNCHANGED <<taken, catalog, seen, plan, made, plans, orderly>>

CadenceNext ==
  \/ \E f \in taken : ScanRow(f) \/ ScanDetails(f)
  \/ \E w \in Windows : Plan(w)
  \/ \E t \in todo : Make(t)
  \/ EndRun

CadenceSpec == CadenceInit /\ [][CadenceNext]_cadenceVars

-----------------------------------------------------------------------------
(* Properties                                                              *)

Planned(k) == {t.frames : t \in {u \in plan : u.kind = k}}

\* The frames that belong together with l, whatever their class.
Together(k, l) ==
  {f \in Visible(seen, k) :
     CASE Policy[k] = "isolated"    -> f.time - l.time \in 0..Span[k]
       [] Policy[k] = "rolling_24h" -> f.time - l.time \in 0..Day
       [] OTHER -> Inside(k, f) /\ KeyOf(seen, k, f) = KeyOf(seen, k, l)}

Overlap(a, b) == a[1] < b[2] /\ b[1] < a[2]

\* Groups that may be applicable at one time: those of named blocks, which are
\* interleaved as the blocks are; darks of a class, a day from the first of it;
\* those of intervals that were configured to overlap.
MayOverlap(k, g, h) ==
  \/ Policy[k] = "block"
  \/ Policy[k] = "rolling_24h" /\ k = "dark"
  \/ Policy[k] = "intervals" /\ Applicable(k, g) # Applicable(k, h)
                             /\ Overlap(Applicable(k, g), Applicable(k, h))

\* Whatever the times, a group is all frames of its class that belong together
\* with one of them, with a dark of any class, and no other group has some of
\* these and some others; the intervals of two groups meet in a point at most,
\* with the exceptions above; and no frame is dropped without a reason
\* (resolve_calibration_groups).  The windows of a custom cadence are apart too,
\* and frames are left out from some time on only (exposure_count_windows).
GroupsWhole ==
  /\ \A k \in Grouped :
       /\ \A g \in Planned(k) : \E l \in Visible(seen, k) :
            /\ l \in g \/ k = "dark"
            /\ \A e \in g :
                 g = {f \in Together(k, l) : Class(seen, k, f) = Class(seen, k, e)}
            /\ \A h \in Planned(k) : h \subseteq Together(k, l) \/ h \intersect Together(k, l) = {}
       /\ \A g, h \in Planned(k) :
            FirstTime(g) < FirstTime(h) /\ GroupClass(seen, k, g) = GroupClass(seen, k, h)
              /\ ~ MayOverlap(k, g, h)
              => Applicable(k, g)[2] <= Applicable(k, h)[1]
       /\ Minimum[k] <= 1 =>
            \A f \in Visible(seen, k) \ UNION Planned(k) : ~ Inside(k, f)
  /\ \A k \in Kind \ Grouped :
       /\ \A s, t \in {u \in plan : u.kind = k} : s.from < t.from => s.to <= t.from
       /\ \A f \in Scoped(seen, k) \ UNION Planned(k) :
            \A t \in {u \in plan : u.kind = k} : t.to <= f.time

\* The pairs are the stable ones when an Hg group prefers the nearest Cd group
\* and a Cd group goes to the earliest Hg group: one-to-one, within the limit,
\* and a Cd group that is nearer than the partner went to an earlier one
\* (pair_lamp_groups).  Lamps under a custom cadence are in no pair.
PairsNearest ==
  /\ Planned("arc") \subseteq Planned("hg") \X Planned("cd")
  /\ \A p, q \in Planned("arc") : p[1] = q[1] <=> p[2] = q[2]
  /\ \A p \in Planned("arc") : Apart2(p[1], p[2]) <= 2 * Separation
  /\ {"hg", "cd"} \subseteq Grouped =>
     \A h \in Planned("hg") : \A c \in Near(h, Planned("cd")) :
       \E p \in Planned("arc") :
         \/ p[1] = h /\ Apart2(h, p[2]) <= Apart2(h, c)
         \/ p[2] = c /\ Earlier(p[1], h)

\* Registered masters of a kind are of disjoint frames, or the one continues
\* the other: no frame changes to another group, however often the plans are
\* made and the runs cut short, as long as frames are scanned in time, with
\* their details, and no planning window begins after one of them
\* (graph.py:already_has_inputs, cadence.py:_split_isolated).
OnlyExtended ==
  orderly => \A m, n \in {t \in made : t.kind # "arc"} :
    LET shared == m.frames \intersect n.frames
        apart  == Windowed(m) /\ (m.to = n.from \/ n.to = m.from)
    IN  m.kind = n.kind /\ shared # {} /\ ~apart =>
          /\ FirstTime(m.frames) = FirstTime(n.frames)
          /\ m.frames \subseteq n.frames \/ n.frames \subseteq m.frames
=============================================================================
