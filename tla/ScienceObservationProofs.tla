----------------------- MODULE ScienceObservationProofs -----------------------
(***************************************************************************)
(* What an observation is assembled from, for any exposures, any number of  *)
(* workers, commands and faults.                                            *)
(***************************************************************************)
EXTENDS ScienceObservation, TLAPS

\* The order in which a task publishes its products.
Rank(k) ==
  CASE k = "initial" -> 1 [] k = "final" -> 2 [] k = "response" -> 3
    [] k = "source" -> 4 [] k = "times" -> 5 [] k = "completion" -> 6

\* The kinds a task at l has behind it.
Behind(l) ==
  CASE l = <<"match">> -> {"initial"}
    [] l \in {<<"select">>, <<"import">>} -> {"initial", "final"}
    [] l = <<"done">> -> Kind
    [] l \in {"publish", "judge"} \X Kind -> {k \in Kind : Rank(k) < Rank(l[2])}
    [] OTHER -> {}

There(e, k) == Revision(e, k) \in ToSet(made[e][k])

\* What a task has behind it is registered and judged; what it is about to
\* judge is registered.  An observation begins when all tasks are done.
Progress ==
  /\ \A e \in Exposure : \A k \in Behind(at[e]) \intersect Products(e) :
       There(e, k) /\ <<e, k, Revision(e, k)>> \in judged
  /\ \A e \in Exposure : \A k \in Kind : at[e] = <<"judge", k>> => There(e, k)
  /\ observing \notin {"idle", "exposures"} => \A e \in Exposure : at[e] = <<"done">>

\* The kinds a task has published.
Out(l) == IF l \in {"judge"} \X Kind THEN Behind(l) \union {l[2]} ELSE Behind(l)

\* The newest row is what the task published, unless its row was there when
\* the command was given; what it has not published is as it was then.
Newest(e, k) ==
  \/ made[e][k] # <<>> /\ made[e][k][Len(made[e][k])] = Revision(e, k)
  \/ Revision(e, k) \in ToSet(earlier.made[e][k])

Rows ==
  \A e \in Exposure : at[e] # <<"failed">> =>
    \A k \in Read : IF k \in Out(at[e]) THEN Newest(e, k) ELSE made[e][k] = earlier.made[e][k]

Selected ==
  /\ observing \in {"idle", "exposures"} => DOMAIN chosen = {}
  /\ \A e \in DOMAIN chosen : \A k \in Read : chosen[e][k] = SelectBest(e, k)

\* Baselines that came since the command was given, all after those it found.
Came == ToSet(baselines) \ ToSet(earlier.baselines)
Appended ==
  /\ Len(earlier.baselines) <= Len(baselines)
  /\ \A i \in DOMAIN earlier.baselines : baselines[i] = earlier.baselines[i]
  /\ \A i \in DOMAIN baselines : i > Len(earlier.baselines) => baselines[i] \in Came

\* What a task selected is valid for its exposure and came since, or is the
\* newest of those the command found that are.
NewestFound(e) ==
  \E i \in DOMAIN earlier.baselines :
    /\ earlier.baselines[i] = baseline[e]
    /\ \A j \in DOMAIN earlier.baselines : Applies(earlier.baselines[j], e) => j <= i
Selection(e) == Applies(baseline[e], e) /\ (baseline[e] \in Came \/ NewestFound(e))
HasSelected(l) == "final" \in Behind(l) /\ l \notin {<<"select">>, <<"import">>}
NoneFound(e) == \A b \in ToSet(earlier.baselines) : ~Applies(b, e)

Baselines ==
  observing # "idle" =>
    /\ Appended
    /\ \A e \in Exposure : at[e] = <<"import">> => NoneFound(e)
    /\ \A e \in Exposure : HasSelected(at[e]) => Selection(e)

IInv ==
  /\ TypeOK
  /\ Progress
  /\ Rows
  /\ Selected
  /\ Baselines

-----------------------------------------------------------------------------
(* Rows and places                                                         *)

LEMMA ToSetAppend ==
  ASSUME NEW S, NEW s \in Seq(S), NEW x
  PROVE  /\ Append(s, x) # <<>> /\ Append(s, x)[Len(Append(s, x))] = x
         /\ ToSet(Append(s, x)) = ToSet(s) \union {x}
<1>1. /\ Len(s) \in Nat /\ DOMAIN s = 1..Len(s)
      /\ Len(Append(s, x)) = Len(s) + 1
      /\ DOMAIN Append(s, x) = 1..(Len(s) + 1)
      /\ \A i \in 1..Len(s) : Append(s, x)[i] = s[i]
      /\ Append(s, x)[Len(s) + 1] = x
  OBVIOUS
<1>2. 1..(Len(s) + 1) = 1..Len(s) \union {Len(s) + 1}
  BY <1>1
<1>3. Append(s, x) # <<>>
  BY <1>1
<1>4. ToSet(Append(s, x)) = {Append(s, x)[i] : i \in 1..Len(s)} \union {x}
  BY <1>1, <1>2 DEF ToSet
<1>5. ToSet(s) = {Append(s, x)[i] : i \in 1..Len(s)}
  BY <1>1 DEF ToSet
<1> QED
  BY <1>1, <1>3, <1>4, <1>5

LEMMA ToSetEmpty == ToSet(<<>>) = {}
BY DEF ToSet

LEMMA ExtendedRows ==
  ASSUME NEW S, NEW s \in Seq(S), NEW x \in S
  PROVE  /\ Extended(s, x) \in Seq(S)
         /\ ToSet(Extended(s, x)) = ToSet(s) \union {x}
         /\ x \notin ToSet(s) =>
              Extended(s, x) # <<>> /\ Extended(s, x)[Len(Extended(s, x))] = x
<1>1. CASE x \in ToSet(s)
  BY <1>1 DEF Extended
<1>2. CASE x \notin ToSet(s)
  <2>1. Extended(s, x) = Append(s, x) /\ Append(s, x) \in Seq(S)
    BY <1>2 DEF Extended
  <2> QED
    BY <2>1, ToSetAppend
<1> QED
  BY <1>1, <1>2

LEMMA Places ==
  ASSUME NEW k \in Kind
  PROVE  /\ <<"publish", k>> \in Steps /\ <<"judge", k>> \in Steps
         /\ Behind(<<"publish", k>>) = {j \in Kind : Rank(j) < Rank(k)}
         /\ Behind(<<"judge", k>>) = Behind(<<"publish", k>>)
         /\ k \notin Behind(<<"judge", k>>)
         /\ Out(<<"judge", k>>) = Behind(<<"judge", k>>) \union {k}
         /\ Out(<<"publish", k>>) = Behind(<<"publish", k>>)
<1>1. Rank(k) \in 1..6
  BY DEF Kind, Rank
<1>2. <<"publish", k>> \in {"publish", "judge"} \X Kind /\ <<"judge", k>> \in {"publish", "judge"} \X Kind
  OBVIOUS
<1>3. \A l \in {<<"publish", k>>, <<"judge", k>>} :
        Behind(l) = {j \in Kind : Rank(j) < Rank(l[2])}
  BY <1>2 DEF Behind
<1> QED
  BY <1>1, <1>2, <1>3 DEF Steps, Out

LEMMA OtherPlaces ==
  /\ Behind(<<"idle">>) = {} /\ Behind(<<"failed">>) = {}
  /\ Behind(<<"match">>) = {"initial"}
  /\ Behind(<<"select">>) = {"initial", "final"} /\ Behind(<<"import">>) = {"initial", "final"}
  /\ Behind(<<"done">>) = Kind
  /\ \A l \in {<<"idle">>, <<"failed">>, <<"match">>, <<"select">>, <<"import">>, <<"done">>} :
       Out(l) = Behind(l)
BY DEF Behind, Out

\* After a product is judged, what a task has behind it is that product more,
\* or one the exposure does not have as well.
LEMMA AfterPlaces ==
  ASSUME NEW e, NEW k \in Kind
  PROVE  /\ After(e, k) \in Steps \ ({<<"failed">>, <<"idle">>, <<"import">>} \union ({"judge"} \X Kind))
         /\ Behind(After(e, k)) \intersect Products(e) \subseteq Behind(<<"judge", k>>) \union {k}
         /\ \A j \in Read : j \in Out(After(e, k)) <=> j \in Out(<<"judge", k>>)
         /\ "final" \in Behind(After(e, k)) /\ After(e, k) # <<"select">> => "final" \in Behind(<<"judge", k>>)
<1>1. /\ Kind = {"initial", "final", "response", "source", "times", "completion"}
      /\ Rank("initial") = 1 /\ Rank("final") = 2 /\ Rank("response") = 3
      /\ Rank("source") = 4 /\ Rank("times") = 5 /\ Rank("completion") = 6
  BY DEF Kind, Rank
<1> HIDE DEF Rank
<1>2. /\ Behind(<<"publish", "final">>) = {"initial"}
      /\ Behind(<<"publish", "response">>) = {"initial", "final"}
      /\ Behind(<<"publish", "source">>) = {"initial", "final", "response"}
      /\ Behind(<<"publish", "times">>) = {"initial", "final", "response", "source"}
      /\ Behind(<<"publish", "completion">>) = {"initial", "final", "response", "source", "times"}
      /\ Behind(<<"publish", "initial">>) = {}
  BY <1>1, Places
<1>3. /\ Behind(<<"judge", k>>) = Behind(<<"publish", k>>)
      /\ Out(<<"judge", k>>) = Behind(<<"publish", k>>) \union {k}
  BY Places
<1>4. \A j \in Kind : Out(<<"publish", j>>) = Behind(<<"publish", j>>)
  BY Places
<1> USE DEF After, Read, Products, Steps
<1>a. CASE k = "initial"
  BY <1>a, <1>1, <1>2, <1>3, <1>4, OtherPlaces
<1>b. CASE k = "final"
  BY <1>b, <1>1, <1>2, <1>3, <1>4, OtherPlaces
<1>c. CASE k = "response"
  BY <1>c, <1>1, <1>2, <1>3, <1>4, OtherPlaces
<1>d. CASE k = "source"
  BY <1>d, <1>1, <1>2, <1>3, <1>4, OtherPlaces
<1>f. CASE k = "times"
  BY <1>f, <1>1, <1>2, <1>3, <1>4, OtherPlaces
<1>g. CASE k = "completion"
  BY <1>g, <1>1, <1>2, <1>3, <1>4, OtherPlaces
<1> QED
  BY <1>a, <1>b, <1>c, <1>d, <1>f, <1>g, <1>1

-----------------------------------------------------------------------------
LEMMA RevisionType ==
  ASSUME TypeOK, NEW e \in Exposure, NEW k \in Kind
  PROVE  Revision(e, k) \in Rev
BY DEF TypeOK, Revision, Rev

LEMMA InitIInv == Init => IInv
<1> SUFFICES ASSUME Init PROVE IInv
  OBVIOUS
<1> USE DEF Init, Nothing, NothingMade
<1>1. TypeOK
  BY ScienceObservationAssumption DEF TypeOK, Steps
<1>2. \A e \in Exposure : Behind(at[e]) = {} /\ Out(at[e]) = {} /\ at[e] = <<"idle">>
  BY OtherPlaces
<1>3. Progress /\ Rows
  BY <1>2 DEF Progress, Rows, Read
<1>4. DOMAIN chosen = {}
  OBVIOUS
<1>5. Selected /\ Baselines
  BY <1>2, <1>4 DEF Selected, Baselines
<1> QED
  BY <1>1, <1>3, <1>5 DEF IInv

\* A step that leaves the baselines and the selections alone.
LEMMA BaselinesKept ==
  ASSUME Baselines, UNCHANGED <<baselines, baseline, earlier>>,
         observing' # "idle" => observing # "idle",
         \A f \in Exposure : at'[f] = <<"import">> => at[f] = <<"import">>,
         \A f \in Exposure : HasSelected(at'[f]) => HasSelected(at[f])
  PROVE  Baselines'
<1>1. Came' = Came /\ (Appended => Appended')
  BY DEF Came, Appended
<1>2. \A f \in Exposure : NewestFound(f)' = NewestFound(f) /\ NoneFound(f)' = NoneFound(f)
  BY DEF NewestFound, NoneFound, Applies
<1>3. \A f \in Exposure : Selection(f) => Selection(f)'
  BY <1>1, <1>2 DEF Selection, Applies
<1> QED
  BY <1>1, <1>2, <1>3 DEF Baselines, HasSelected

LEMMA PublishStep ==
  ASSUME IInv, NEW e \in Exposure, NEW k \in Kind, Publish(e, k)
  PROVE  IInv'
<1> DEFINE rev == Revision(e, k)
<1>1. /\ observing = "exposures" /\ at[e] = <<"publish", k>>
      /\ made' = [made EXCEPT ![e][k] = Extended(made[e][k], rev)]
      /\ at' = [at EXCEPT ![e] = <<"judge", k>>]
      /\ UNCHANGED <<judged, baselines, catalog, baseline, observing, chosen, runs, faults, earlier>>
  BY DEF Publish, Stepping, Goto, Published, KeepsRun, counters
<1>2. TypeOK /\ rev \in Rev
  BY RevisionType DEF IInv
<1>3. /\ Extended(made[e][k], rev) \in Seq(Rev)
      /\ ToSet(Extended(made[e][k], rev)) = ToSet(made[e][k]) \union {rev}
      /\ rev \notin ToSet(made[e][k]) =>
           /\ Extended(made[e][k], rev) # <<>>
           /\ Extended(made[e][k], rev)[Len(Extended(made[e][k], rev))] = rev
      /\ rev \in ToSet(made[e][k]) => Extended(made[e][k], rev) = made[e][k]
  <2>1. made[e][k] \in Seq(Rev)
    BY <1>2 DEF TypeOK
  <2> QED
    BY <1>2, <2>1, ExtendedRows DEF Extended
<1>4. \A f \in Exposure : \A j \in Kind : Revision(f, j)' = Revision(f, j)
  BY <1>1 DEF Revision
<1>5. /\ \A f \in Exposure : \A j \in Kind :
           made'[f][j] = IF f = e /\ j = k THEN Extended(made[e][k], rev) ELSE made[f][j]
      /\ \A f \in Exposure : at'[f] = IF f = e THEN <<"judge", k>> ELSE at[f]
  BY <1>1, <1>2 DEF TypeOK
<1> HIDE DEF rev
<1>6. \A f \in Exposure : \A j \in Kind : There(f, j) => There(f, j)'
  BY <1>3, <1>4, <1>5 DEF There
<1>7. There(e, k)'
  BY <1>3, <1>4, <1>5 DEF There, rev
<1>p. Behind(<<"judge", k>>) = Behind(<<"publish", k>>) /\ k \notin Behind(<<"publish", k>>)
        /\ Out(<<"judge", k>>) = Out(<<"publish", k>>) \union {k} /\ k \notin Out(<<"publish", k>>)
        /\ <<"judge", k>> \in Steps
  BY Places
<1>8. TypeOK'
  BY <1>1, <1>2, <1>3, <1>p DEF TypeOK
<1>9. Progress'
  <2>1. \A f \in Exposure : Behind(at'[f]) = Behind(at[f])
    BY <1>1, <1>5, <1>p
  <2>2. Products(e) \subseteq Kind /\ \A f \in Exposure : Products(f) \subseteq Kind
    BY DEF Products
  <2>3. \A f \in Exposure : \A j \in Kind : at'[f] = <<"judge", j>> => There(f, j)'
    BY <1>1, <1>5, <1>6, <1>7 DEF IInv, Progress
  <2> QED
    BY <1>1, <1>4, <1>6, <2>1, <2>2, <2>3 DEF IInv, Progress
<1>10. Rows'
  <2> SUFFICES ASSUME NEW f \in Exposure, at'[f] # <<"failed">>, NEW j \in Read
               PROVE  IF j \in Out(at'[f]) THEN Newest(f, j)' ELSE made'[f][j] = earlier'.made[f][j]
    BY DEF Rows
  <2>0. j \in Kind /\ at[f] # <<"failed">>
    BY <1>1, <1>5 DEF Read
  <2>1. CASE f = e /\ j = k
    <3>1. made[e][k] = earlier.made[e][k]
      BY <1>1, <1>p, <2>0, <2>1 DEF IInv, Rows
    <3>2. Newest(e, k)'
      BY <1>1, <1>3, <1>4, <1>5, <3>1 DEF Newest, rev
    <3> QED
      BY <1>5, <1>p, <2>1, <3>2
  <2>2. CASE ~(f = e /\ j = k)
    <3>1. j \in Out(at'[f]) <=> j \in Out(at[f])
      BY <1>1, <1>5, <1>p, <2>2
    <3>2. made'[f][j] = made[f][j] /\ Revision(f, j)' = Revision(f, j) /\ earlier' = earlier
      BY <1>1, <1>4, <1>5, <2>0, <2>2
    <3>3. Newest(f, j) => Newest(f, j)'
      BY <3>2 DEF Newest
    <3> QED
      BY <2>0, <3>1, <3>2, <3>3 DEF IInv, Rows
  <2> QED
    BY <2>1, <2>2
<1>11. Selected'
  BY <1>1 DEF IInv, Selected
<1>12. Baselines'
  <2>1. \A f \in Exposure : (at'[f] = <<"import">> => at[f] = <<"import">>) /\ (HasSelected(at'[f]) => HasSelected(at[f]))
    BY <1>1, <1>5, <1>p DEF HasSelected
  <2> QED
    BY <1>1, <2>1, BaselinesKept DEF IInv
<1> QED
  BY <1>8, <1>9, <1>10, <1>11, <1>12 DEF IInv

LEMMA JudgeStep ==
  ASSUME IInv, NEW e \in Exposure, NEW k \in Kind, Judge(e, k)
  PROVE  IInv'
<1>1. /\ observing = "exposures" /\ at[e] = <<"judge", k>>
      /\ judged' = judged \union {<<e, k, Revision(e, k)>>}
      /\ at' = [at EXCEPT ![e] = After(e, k)]
      /\ UNCHANGED <<made, baselines, catalog, baseline, observing, chosen, runs, faults, earlier>>
  BY DEF Judge, Stepping, Goto, KeepsRun, counters
<1>2. TypeOK /\ Revision(e, k) \in Rev
  BY RevisionType DEF IInv
<1>3. \A f \in Exposure : \A j \in Kind : Revision(f, j)' = Revision(f, j) /\ There(f, j)' = There(f, j)
  BY <1>1 DEF Revision, There
<1>4. \A f \in Exposure : at'[f] = IF f = e THEN After(e, k) ELSE at[f]
  BY <1>1, <1>2 DEF TypeOK
<1>p. /\ After(e, k) \in Steps /\ After(e, k) \notin {<<"failed">>, <<"idle">>, <<"import">>}
      /\ \A j \in Kind : After(e, k) # <<"judge", j>>
      /\ Behind(After(e, k)) \intersect Products(e) \subseteq Behind(<<"judge", k>>) \union {k}
      /\ \A j \in Read : j \in Out(After(e, k)) <=> j \in Out(<<"judge", k>>)
      /\ "final" \in Behind(After(e, k)) /\ After(e, k) # <<"select">> => "final" \in Behind(<<"judge", k>>)
  BY AfterPlaces
<1>5. TypeOK'
  BY <1>1, <1>2, <1>p DEF TypeOK
<1>6. Progress'
  <2>1. \A f \in Exposure : \A j \in Behind(at'[f]) \intersect Products(f) :
          There(f, j)' /\ <<f, j, Revision(f, j)'>> \in judged'
    <3> SUFFICES ASSUME NEW f \in Exposure, NEW j \in Behind(at'[f]) \intersect Products(f)
                 PROVE  There(f, j)' /\ <<f, j, Revision(f, j)'>> \in judged'
      OBVIOUS
    <3>0. j \in Kind
      BY DEF Products
    <3>1. CASE f = e /\ j = k
      BY <1>1, <1>3, <3>1 DEF IInv, Progress
    <3>2. CASE ~(f = e /\ j = k)
      <4>1. j \in Behind(at[f])
        BY <1>1, <1>4, <1>p, <3>2
      <4> QED
        BY <1>1, <1>3, <3>0, <4>1 DEF IInv, Progress
    <3> QED
      BY <3>1, <3>2
  <2>2. \A f \in Exposure : \A j \in Kind : at'[f] = <<"judge", j>> => There(f, j)'
    BY <1>3, <1>4, <1>p DEF IInv, Progress
  <2> QED
    BY <1>1, <2>1, <2>2 DEF Progress, Products
<1>7. Rows'
  <2>1. \A f \in Exposure : \A j \in Read : j \in Out(at'[f]) <=> j \in Out(at[f])
    BY <1>1, <1>4, <1>p
  <2>2. \A f \in Exposure : \A j \in Read : Newest(f, j)' = Newest(f, j)
    BY <1>1, <1>3 DEF Newest, Read
  <2>3. \A f \in Exposure : at'[f] # <<"failed">> => at[f] # <<"failed">>
    BY <1>1, <1>4
  <2> QED
    BY <1>1, <2>1, <2>2, <2>3 DEF IInv, Rows
<1>8. Selected'
  BY <1>1 DEF IInv, Selected, SelectBest
<1>9. Baselines'
  <2>1. \A f \in Exposure : (at'[f] = <<"import">> => at[f] = <<"import">>) /\ (HasSelected(at'[f]) => HasSelected(at[f]))
    BY <1>1, <1>4, <1>p DEF HasSelected
  <2> QED
    BY <1>1, <2>1, BaselinesKept DEF IInv
<1> QED
  BY <1>5, <1>6, <1>7, <1>8, <1>9 DEF IInv

\* A step of a task that publishes and judges nothing, and that moves from l
\* to m without another product behind it.
LEMMA MovesOn ==
  ASSUME IInv, NEW e \in Exposure, NEW m \in Steps,
         m # <<"failed">> => at[e] # <<"failed">> /\ Behind(m) = Behind(at[e]) /\ Out(m) = Out(at[e]),
         m = <<"failed">> => Behind(m) = {},
         \A j \in Kind : m # <<"judge", j>>,
         at' = [at EXCEPT ![e] = m],
         \A f \in Exposure : \A j \in Behind(at'[f]) \union Out(at'[f]) : Revision(f, j)' = Revision(f, j),
         \A f \in Exposure : \A j \in Kind : at'[f] = <<"judge", j>> => Revision(f, j)' = Revision(f, j),
         observing = "exposures", UNCHANGED <<made, judged, observing, earlier>>
  PROVE  Progress' /\ Rows'
<1>1. \A f \in Exposure : at'[f] = IF f = e THEN m ELSE at[f]
  BY DEF IInv, TypeOK
<1>2. \A f \in Exposure : \A j \in Behind(at'[f]) \intersect Products(f) :
        There(f, j)' /\ <<f, j, Revision(f, j)'>> \in judged'
  <2> SUFFICES ASSUME NEW f \in Exposure, NEW j \in Behind(at'[f]) \intersect Products(f)
               PROVE  There(f, j)' /\ <<f, j, Revision(f, j)'>> \in judged'
    OBVIOUS
  <2>1. Revision(f, j)' = Revision(f, j) /\ j \in Behind(at[f])
    BY <1>1
  <2> QED
    BY <2>1 DEF IInv, Progress, There
<1>3. \A f \in Exposure : \A j \in Kind : at'[f] = <<"judge", j>> => There(f, j)'
  BY <1>1 DEF IInv, Progress, There
<1>4. Progress'
  BY <1>2, <1>3 DEF Progress, Products
<1>5. Rows'
  <2> SUFFICES ASSUME NEW f \in Exposure, at'[f] # <<"failed">>, NEW j \in Read
               PROVE  IF j \in Out(at'[f]) THEN Newest(f, j)' ELSE made'[f][j] = earlier'.made[f][j]
    BY DEF Rows
  <2>1. at[f] # <<"failed">> /\ (j \in Out(at'[f]) <=> j \in Out(at[f]))
    BY <1>1
  <2>2. CASE j \in Out(at'[f])
    <3>1. Revision(f, j)' = Revision(f, j)
      BY <2>2
    <3>2. Newest(f, j)
      BY <2>1, <2>2 DEF IInv, Rows
    <3> QED
      BY <2>2, <3>1, <3>2 DEF Newest
  <2>3. CASE j \notin Out(at'[f])
    BY <2>1, <2>3 DEF IInv, Rows
  <2> QED
    BY <2>2, <2>3
<1> QED
  BY <1>4, <1>5

\* The facts about places a task step from one to the other needs.
LEMMA Moves ==
  /\ Behind(<<"publish", "initial">>) = {} /\ Out(<<"publish", "initial">>) = {}
  /\ Behind(<<"publish", "final">>) = {"initial"} /\ Out(<<"publish", "final">>) = {"initial"}
  /\ Behind(<<"publish", "response">>) = {"initial", "final"}
  /\ Out(<<"publish", "response">>) = {"initial", "final"}
  /\ \A l \in {"initial", "final", "response"} : <<"publish", l>> \in Steps
<1>1. /\ Kind = {"initial", "final", "response", "source", "times", "completion"}
      /\ Rank("initial") = 1 /\ Rank("final") = 2 /\ Rank("response") = 3
      /\ Rank("source") = 4 /\ Rank("times") = 5 /\ Rank("completion") = 6
  BY DEF Kind, Rank
<1> HIDE DEF Rank
<1> QED
  BY <1>1, Places

LEMMA StartStep ==
  ASSUME IInv, NEW e \in Exposure, Start(e)
  PROVE  IInv'
<1>1. /\ observing = "exposures" /\ at[e] = <<"idle">>
      /\ at' = [at EXCEPT ![e] = <<"publish", "initial">>]
      /\ UNCHANGED <<made, judged, baselines, catalog, baseline, observing, chosen, runs, faults, earlier>>
  BY DEF Start, Goto, KeepsRun, counters, registry
<1>2. \A f \in Exposure : \A j : Revision(f, j)' = Revision(f, j)
  BY <1>1 DEF Revision
<1>3. TypeOK'
  BY <1>1, Moves DEF IInv, TypeOK
<1>4. Progress' /\ Rows'
  <2>1. \A f \in Exposure : \A j \in Behind(at'[f]) \union Out(at'[f]) : Revision(f, j)' = Revision(f, j)
    BY <1>2
  <2>2. \A f \in Exposure : \A j \in Kind : at'[f] = <<"judge", j>> => Revision(f, j)' = Revision(f, j)
    BY <1>2
  <2>3. (\A j \in Kind : <<"publish", "initial">> # <<"judge", j>>) /\ <<"publish", "initial">> \in Steps
    BY Moves
  <2>4. at[e] # <<"failed">> /\ Behind(at[e]) = {} /\ Out(at[e]) = {}
    BY <1>1, OtherPlaces
  <2>5. <<"publish", "initial">> # <<"failed">>
          /\ Behind(<<"publish", "initial">>) = {} /\ Out(<<"publish", "initial">>) = {}
    BY Moves
  <2> QED
    BY <1>1, <2>1, <2>2, <2>3, <2>4, <2>5, MovesOn
<1>5. Selected'
  BY <1>1 DEF IInv, Selected, SelectBest
<1>6. Baselines'
  <2>1. \A f \in Exposure : at'[f] = IF f = e THEN <<"publish", "initial">> ELSE at[f]
    BY <1>1 DEF IInv, TypeOK
  <2>2. ~HasSelected(<<"publish", "initial">>)
    BY Moves DEF HasSelected
  <2> QED
    BY <1>1, <2>1, <2>2, BaselinesKept DEF IInv
<1> QED
  BY <1>3, <1>4, <1>5, <1>6 DEF IInv

LEMMA FailStep ==
  ASSUME IInv, NEW e \in Exposure, Fail(e)
  PROVE  IInv'
<1>1. /\ observing = "exposures" /\ MayFault /\ faults' = faults + 1
      /\ at' = [at EXCEPT ![e] = <<"failed">>]
      /\ UNCHANGED <<made, judged, baselines, catalog, baseline, observing, chosen, runs, earlier>>
  BY DEF Fail, Stepping, Goto, registry
<1>2. \A f \in Exposure : \A j : Revision(f, j)' = Revision(f, j)
  BY <1>1 DEF Revision
<1>3. TypeOK'
  <2>1. faults' \in 0..MaxRuns
    BY <1>1, ScienceObservationAssumption DEF IInv, TypeOK, MayFault
  <2> QED
    BY <1>1, <2>1 DEF IInv, TypeOK, Steps
<1>4. Progress' /\ Rows'
  <2>1. <<"failed">> \in Steps
    BY DEF Steps
  <2> QED
    BY <1>1, <1>2, <2>1, OtherPlaces, MovesOn
<1>5. Selected'
  BY <1>1 DEF IInv, Selected, SelectBest
<1>6. Baselines'
  <2>1. \A f \in Exposure : at'[f] = IF f = e THEN <<"failed">> ELSE at[f]
    BY <1>1 DEF IInv, TypeOK
  <2>2. ~HasSelected(<<"failed">>)
    BY OtherPlaces DEF HasSelected
  <2> QED
    BY <1>1, <2>1, <2>2, BaselinesKept DEF IInv
<1> QED
  BY <1>3, <1>4, <1>5, <1>6 DEF IInv

LEMMA MatchStep ==
  ASSUME IInv, NEW e \in Exposure, Match(e)
  PROVE  IInv'
<1>1. /\ observing = "exposures" /\ at[e] = <<"match">>
      /\ \E c \in Catalog : catalog' = [catalog EXCEPT ![e] = c]
      /\ at' = [at EXCEPT ![e] = <<"publish", "final">>]
      /\ UNCHANGED <<made, judged, baselines, baseline, observing, chosen, runs, faults, earlier>>
  BY DEF Match, Stepping, Goto, KeepsRun, counters, registry
<1>2. /\ \A f \in Exposure \ {e} : \A j : Revision(f, j)' = Revision(f, j)
      /\ Revision(e, "initial")' = Revision(e, "initial")
  BY <1>1 DEF IInv, TypeOK, Revision
<1>3. \A f \in Exposure : at'[f] = IF f = e THEN <<"publish", "final">> ELSE at[f]
  BY <1>1 DEF IInv, TypeOK
<1>4. TypeOK'
  BY <1>1, Moves DEF IInv, TypeOK
<1>5. Progress' /\ Rows'
  <2>1. \A f \in Exposure : \A j \in Behind(at'[f]) \union Out(at'[f]) : Revision(f, j)' = Revision(f, j)
    BY <1>2, <1>3, Moves
  <2>2. \A f \in Exposure : \A j \in Kind : at'[f] = <<"judge", j>> => Revision(f, j)' = Revision(f, j)
    BY <1>2, <1>3
  <2> QED
    BY <1>1, <2>1, <2>2, Moves, OtherPlaces, MovesOn, ZenonT(60)
<1>6. Selected'
  BY <1>1 DEF IInv, Selected, SelectBest
<1>7. Baselines'
  <2>1. ~HasSelected(<<"publish", "final">>)
    BY Moves DEF HasSelected
  <2> QED
    BY <1>1, <1>3, <2>1, BaselinesKept DEF IInv
<1> QED
  BY <1>4, <1>5, <1>6, <1>7 DEF IInv

\* A selection, of the newest row that is valid or of none.
LEMMA Selections ==
  ASSUME IInv, NEW e \in Exposure, SelectBaseline(e)
  PROVE  \/ /\ at' = [at EXCEPT ![e] = <<"import">>] /\ baseline' = baseline /\ NoneFound(e)
         \/ /\ at' = [at EXCEPT ![e] = <<"publish", "response">>]
            /\ \E b \in Base : /\ baseline' = [baseline EXCEPT ![e] = b]
                              /\ Selection(e)'
<1>1. /\ Appended /\ baselines \in Seq(Base) /\ earlier.baselines \in Seq(Base)
      /\ baseline \in [Exposure -> Base \union {None}]
      /\ UNCHANGED <<baselines, earlier>>
  BY DEF IInv, TypeOK, Baselines, SelectBaseline, Stepping, KeepsRun, registry
<1>2. /\ DOMAIN earlier.baselines = 1..Len(earlier.baselines) /\ Len(earlier.baselines) \in Nat
      /\ DOMAIN baselines = 1..Len(baselines) /\ Len(baselines) \in Nat
      /\ Len(earlier.baselines) <= Len(baselines)
  BY <1>1 DEF Appended
<1>3. \A i \in DOMAIN earlier.baselines : i \in DOMAIN baselines /\ baselines[i] = earlier.baselines[i]
  BY <1>1, <1>2 DEF Appended
<1>4. CASE Candidates(e) = {} /\ UNCHANGED baseline /\ Goto(e, <<"import">>)
  <2>1. NoneFound(e)
    BY <1>3, <1>4 DEF NoneFound, ToSet, Candidates
  <2> QED
    BY <1>4, <2>1 DEF Goto
<1>5. ASSUME NEW i \in Candidates(e), \A j \in Candidates(e) : j <= i,
             baseline' = [baseline EXCEPT ![e] = baselines[i]], Goto(e, <<"publish", "response">>)
      PROVE  \/ /\ at' = [at EXCEPT ![e] = <<"import">>] /\ baseline' = baseline /\ NoneFound(e)
             \/ /\ at' = [at EXCEPT ![e] = <<"publish", "response">>]
                /\ \E b \in Base : /\ baseline' = [baseline EXCEPT ![e] = b]
                                  /\ Selection(e)'
  <2>1. /\ i \in DOMAIN baselines /\ baselines[i] \in Base /\ Applies(baselines[i], e)
        /\ baseline'[e] = baselines[i]
    BY <1>1, <1>5 DEF Candidates
  <2>2. Came' = Came /\ (Applies(baseline[e], e))'
    BY <1>1, <2>1 DEF Came, Applies
  <2>3. baselines[i] \in Came \/ NewestFound(e)'
    <3>1. CASE i > Len(earlier.baselines)
      BY <1>1, <2>1, <3>1 DEF Appended
    <3>2. CASE ~(i > Len(earlier.baselines))
      <4>1. i \in DOMAIN earlier.baselines /\ earlier.baselines[i] = baselines[i]
        BY <1>2, <1>3, <2>1, <3>2
      <4>2. \A j \in DOMAIN earlier.baselines : Applies(earlier.baselines[j], e) => j <= i
        BY <1>3, <1>5 DEF Candidates
      <4> QED
        BY <1>1, <2>1, <4>1, <4>2 DEF NewestFound, Applies
    <3> QED
      BY <3>1, <3>2
  <2>4. Selection(e)'
    BY <2>1, <2>2, <2>3 DEF Selection
  <2> QED
    BY <1>5, <2>1, <2>4 DEF Goto
<1> QED
  BY <1>4, <1>5 DEF SelectBaseline

LEMMA SelectStep ==
  ASSUME IInv, NEW e \in Exposure, SelectBaseline(e)
  PROVE  IInv'
<1>1. /\ observing = "exposures" /\ at[e] = <<"select">>
      /\ UNCHANGED <<made, judged, baselines, catalog, observing, chosen, runs, faults, earlier>>
  BY DEF SelectBaseline, Stepping, KeepsRun, counters, registry
<1>2. PICK m \in {<<"import">>, <<"publish", "response">>}, b \in Base \union {None} :
        /\ at' = [at EXCEPT ![e] = m] /\ baseline' = [baseline EXCEPT ![e] = b]
        /\ (m = <<"import">> => NoneFound(e)) /\ (m # <<"import">> => Selection(e)')
  <2>1. baseline[e] \in Base \union {None} /\ baseline = [baseline EXCEPT ![e] = baseline[e]]
    BY DEF IInv, TypeOK
  <2> QED
    BY <2>1, Selections
<1>3. /\ \A f \in Exposure : at'[f] = IF f = e THEN m ELSE at[f]
      /\ \A f \in Exposure : baseline'[f] = IF f = e THEN b ELSE baseline[f]
  BY <1>1, <1>2 DEF IInv, TypeOK
<1>p. m \in Steps /\ m # <<"failed">> /\ (\A j \in Kind : m # <<"judge", j>>) /\ m # <<"select">>
        /\ Behind(m) = {"initial", "final"} /\ Out(m) = {"initial", "final"}
        /\ Behind(<<"select">>) = {"initial", "final"} /\ Out(<<"select">>) = {"initial", "final"}
  BY Moves, OtherPlaces DEF Steps
<1>4. /\ \A f \in Exposure \ {e} : \A j : Revision(f, j)' = Revision(f, j)
      /\ \A j \in {"initial", "final"} : Revision(e, j)' = Revision(e, j)
  BY <1>1, <1>3 DEF Revision
<1>5. TypeOK'
  BY <1>1, <1>2, <1>p DEF IInv, TypeOK
<1>6. Progress' /\ Rows'
  <2>1. \A f \in Exposure : \A j \in Behind(at'[f]) \union Out(at'[f]) : Revision(f, j)' = Revision(f, j)
    BY <1>3, <1>4, <1>p
  <2>2. \A f \in Exposure : \A j \in Kind : at'[f] = <<"judge", j>> => Revision(f, j)' = Revision(f, j)
    BY <1>3, <1>4, <1>p
  <2>3. at[e] # <<"failed">> /\ Behind(m) = Behind(at[e]) /\ Out(m) = Out(at[e])
    BY <1>1, <1>p
  <2> QED
    BY <1>1, <1>2, <2>1, <2>2, <2>3, <1>p, MovesOn
<1>7. Selected'
  BY <1>1 DEF IInv, Selected, SelectBest
<1>8. Baselines'
  <2>1. Came' = Came /\ Appended'
    BY <1>1 DEF IInv, Baselines, Came, Appended
  <2>2. \A f \in Exposure : NoneFound(f)' = NoneFound(f)
    BY <1>1 DEF NoneFound, Applies
  <2>3. \A f \in Exposure \ {e} : Selection(f)' = Selection(f)
    BY <1>1, <1>3, <2>1 DEF Selection, NewestFound, Applies
  <2>4. \A f \in Exposure : at'[f] = <<"import">> => NoneFound(f)'
    BY <1>1, <1>2, <1>3, <2>2 DEF IInv, Baselines
  <2>5. \A f \in Exposure : HasSelected(at'[f]) => Selection(f)'
    <3>1. ~HasSelected(<<"import">>)
      BY DEF HasSelected
    <3>2. \A f \in Exposure \ {e} : HasSelected(at'[f]) => Selection(f)'
      BY <1>1, <1>3, <2>3 DEF IInv, Baselines
    <3>3. HasSelected(at'[e]) => Selection(e)'
      BY <1>2, <1>3, <3>1
    <3> QED
      BY <3>2, <3>3
  <2> QED
    BY <2>1, <2>4, <2>5 DEF Baselines, HasSelected
<1> QED
  BY <1>5, <1>6, <1>7, <1>8 DEF IInv

\* A row is appended: what came and what was selected stay.
LEMMA RowComes ==
  ASSUME IInv, NEW b \in Base, observing # "idle", earlier' = earlier,
         baselines' = Extended(baselines, b)
  PROVE  /\ Appended' /\ Came \subseteq Came' /\ b \in ToSet(baselines')
         /\ \A f \in Exposure : NoneFound(f)' = NoneFound(f)
         /\ \A f \in Exposure : Selection(f) /\ baseline'[f] = baseline[f] => Selection(f)'
<1>1. /\ Appended /\ baselines \in Seq(Base) /\ earlier.baselines \in Seq(Base)
  BY DEF IInv, TypeOK, Baselines
<1>2. ToSet(baselines') = ToSet(baselines) \union {b}
  BY <1>1, ExtendedRows
<1>3. Came \subseteq Came' /\ b \in ToSet(baselines')
  BY <1>2 DEF Came
<1>4. Appended'
  <2>1. CASE b \in ToSet(baselines)
    BY <1>1, <2>1 DEF Appended, Came, Extended
  <2>2. CASE b \notin ToSet(baselines)
    <3>1. /\ Len(earlier.baselines) \in Nat /\ DOMAIN earlier.baselines = 1..Len(earlier.baselines)
          /\ Len(baselines) \in Nat /\ DOMAIN baselines = 1..Len(baselines)
          /\ DOMAIN baselines' = 1..(Len(baselines) + 1) /\ Len(baselines') = Len(baselines) + 1
          /\ \A i \in DOMAIN baselines : baselines'[i] = baselines[i]
          /\ baselines'[Len(baselines) + 1] = b
      BY <1>1, <2>2 DEF Extended
    <3>2. /\ Len(earlier.baselines) <= Len(baselines)
          /\ \A i \in DOMAIN earlier.baselines : baselines[i] = earlier.baselines[i]
          /\ \A i \in DOMAIN baselines : i > Len(earlier.baselines) => baselines[i] \in Came
      BY <1>1 DEF Appended
    <3>3. ToSet(earlier.baselines) \subseteq ToSet(baselines)
      <4>1. \A i \in DOMAIN earlier.baselines : i \in DOMAIN baselines
        BY <3>1, <3>2
      <4> QED
        BY <3>2, <4>1 DEF ToSet
    <3>4. b \in Came'
      BY <1>2, <2>2, <3>3 DEF Came
    <3>5. /\ Len(earlier'.baselines) <= Len(baselines')
          /\ \A i \in DOMAIN earlier'.baselines : baselines'[i] = earlier'.baselines[i]
      BY <3>1, <3>2
    <3>6. \A i \in DOMAIN baselines' : i > Len(earlier'.baselines) => baselines'[i] \in Came'
      <4> SUFFICES ASSUME NEW i \in DOMAIN baselines', i > Len(earlier'.baselines)
                   PROVE  baselines'[i] \in Came'
        OBVIOUS
      <4>1. i \in DOMAIN baselines \/ i = Len(baselines) + 1
        BY <3>1
      <4> QED
        BY <1>3, <3>1, <3>2, <3>4, <4>1
    <3> QED
      BY <3>5, <3>6 DEF Appended
  <2> QED
    BY <2>1, <2>2
<1>5. \A f \in Exposure : NoneFound(f)' = NoneFound(f)
  BY DEF NoneFound, Applies
<1>6. \A f \in Exposure : Selection(f) /\ baseline'[f] = baseline[f] => Selection(f)'
  BY <1>3 DEF Selection, NewestFound, Applies
<1> QED
  BY <1>3, <1>4, <1>5, <1>6

LEMMA ImportStep ==
  ASSUME IInv, NEW e \in Exposure, ImportBaseline(e)
  PROVE  IInv'
<1>1. /\ observing = "exposures" /\ at[e] = <<"import">>
      /\ baseline' = [baseline EXCEPT ![e] = "seed"]
      /\ baselines' = Extended(baselines, "seed")
      /\ at' = [at EXCEPT ![e] = <<"publish", "response">>]
      /\ UNCHANGED <<made, judged, catalog, observing, chosen, runs, faults, earlier>>
  BY DEF ImportBaseline, SeedOf, Stepping, Goto, KeepsRun, counters
<1>2. /\ baselines' \in Seq(Base)
      /\ ToSet(baselines') = ToSet(baselines) \union {"seed"}
  <2>1. baselines \in Seq(Base) /\ "seed" \in Base
    BY DEF IInv, TypeOK, Base
  <2> QED
    BY <1>1, <2>1, ExtendedRows
<1>3. /\ \A f \in Exposure : at'[f] = IF f = e THEN <<"publish", "response">> ELSE at[f]
      /\ \A f \in Exposure : baseline'[f] = IF f = e THEN "seed" ELSE baseline[f]
  BY <1>1 DEF IInv, TypeOK
<1>4. /\ \A f \in Exposure \ {e} : \A j : Revision(f, j)' = Revision(f, j)
      /\ \A j \in {"initial", "final"} : Revision(e, j)' = Revision(e, j)
  BY <1>1, <1>3 DEF Revision
<1>5. TypeOK'
  BY <1>1, <1>2, Moves DEF IInv, TypeOK, Base
<1>6. Progress' /\ Rows'
  <2>1. \A f \in Exposure : \A j \in Behind(at'[f]) \union Out(at'[f]) : Revision(f, j)' = Revision(f, j)
    BY <1>3, <1>4, Moves
  <2>2. \A f \in Exposure : \A j \in Kind : at'[f] = <<"judge", j>> => Revision(f, j)' = Revision(f, j)
    BY <1>3, <1>4
  <2> QED
    BY <1>1, <2>1, <2>2, Moves, OtherPlaces, MovesOn
<1>7. Selected'
  BY <1>1 DEF IInv, Selected, SelectBest
<1>8. Baselines'
  <2>0. "seed" \in Base /\ observing # "idle" /\ Baselines
    BY <1>1 DEF Base, IInv
  <2>1. /\ Appended' /\ "seed" \in ToSet(baselines')
        /\ \A f \in Exposure : NoneFound(f)' = NoneFound(f)
        /\ \A f \in Exposure : Selection(f) /\ baseline'[f] = baseline[f] => Selection(f)'
    BY <1>1, <2>0, RowComes
  <2>2. Applies("seed", e) /\ Applies("seed", e)'
    BY ScienceObservationAssumption DEF Applies
  <2>3. "seed" \notin ToSet(earlier.baselines)
    BY <1>1, <2>0, <2>2 DEF Baselines, NoneFound
  <2>4. Selection(e)'
    BY <1>1, <1>3, <2>1, <2>2, <2>3 DEF Selection, Came, Applies
  <2>5. \A f \in Exposure : at'[f] = <<"import">> => NoneFound(f)'
    BY <1>3, <2>0, <2>1 DEF Baselines
  <2>6. \A f \in Exposure : HasSelected(at'[f]) => Selection(f)'
    BY <1>3, <2>0, <2>1, <2>4 DEF Baselines
  <2> QED
    BY <2>1, <2>5, <2>6 DEF Baselines, HasSelected
<1> QED
  BY <1>5, <1>6, <1>7, <1>8 DEF IInv

LEMMA MeasureStep ==
  ASSUME IInv, NEW b \in Measured, MeasureBaseline(b)
  PROVE  IInv'
<1>1. /\ observing # "idle" /\ b \in Base
      /\ baselines' = Extended(baselines, b)
      /\ UNCHANGED <<made, judged, at, catalog, baseline, observing, chosen, runs, faults, earlier>>
  BY DEF MeasureBaseline, KeepsRun, counters, Base, Extended
<1>2. baselines' \in Seq(Base)
  BY <1>1, ExtendedRows DEF IInv, TypeOK
<1>3. TypeOK'
  BY <1>1, <1>2 DEF IInv, TypeOK
<1>4. \A f, j : Revision(f, j)' = Revision(f, j)
  BY <1>1 DEF Revision
<1>5. Progress' /\ Rows'
  BY <1>1, <1>4 DEF IInv, Progress, Rows, There, Newest, Products
<1>6. Selected'
  BY <1>1 DEF IInv, Selected, SelectBest
<1>7. Baselines'
  <2>1. /\ Appended'
        /\ \A f \in Exposure : NoneFound(f)' = NoneFound(f)
        /\ \A f \in Exposure : Selection(f) /\ baseline'[f] = baseline[f] => Selection(f)'
    BY <1>1, RowComes
  <2> QED
    BY <1>1, <2>1 DEF IInv, Baselines, HasSelected
<1> QED
  BY <1>3, <1>5, <1>6, <1>7 DEF IInv

-----------------------------------------------------------------------------
(* The command and its ObservationTask                                     *)

LEMMA CommandStep ==
  ASSUME IInv, Command
  PROVE  IInv'
<1> USE DEF Command, Nothing, registry
<1>1. \A f \in Exposure : at'[f] = <<"idle">> /\ Behind(at'[f]) = {} /\ Out(at'[f]) = {}
  BY OtherPlaces
<1>2. TypeOK'
  <2>1. runs' \in 0..MaxRuns
    BY ScienceObservationAssumption DEF IInv, TypeOK
  <2> QED
    BY <2>1 DEF IInv, TypeOK, Steps
<1>3. Progress' /\ Rows'
  BY <1>1 DEF Progress, Rows
<1>4. Selected'
  BY DEF IInv, Selected, SelectBest
<1>5. Baselines'
  <2>1. \A f \in Exposure : ~HasSelected(at'[f]) /\ at'[f] # <<"import">>
    BY <1>1 DEF HasSelected
  <2>2. Appended'
    BY DEF IInv, TypeOK, Appended
  <2> QED
    BY <2>1, <2>2 DEF Baselines, HasSelected
<1> QED
  BY <1>2, <1>3, <1>4, <1>5 DEF IInv

\* Steps that leave registry and tasks alone.
LEMMA KeepsTasksStep ==
  ASSUME IInv, KeepsTasks, earlier' = earlier, TypeOK', Selected',
         observing' = "idle" \/ observing # "idle",
         observing' \notin {"idle", "exposures"} => \A e \in Exposure : at[e] = <<"done">>
  PROVE  IInv'
<1> USE DEF KeepsTasks, registry
<1>1. \A f, j : Revision(f, j)' = Revision(f, j)
  BY DEF Revision
<1>2. Progress' /\ Rows'
  BY <1>1 DEF IInv, Progress, Rows, There, Newest, Products
<1>3. Baselines'
  BY BaselinesKept DEF IInv
<1> QED
  BY <1>2, <1>3 DEF IInv

LEMMA SettleStep ==
  ASSUME IInv, Settle
  PROVE  IInv'
<1> USE DEF Settle, KeepsTasks, registry, counters, Ends
<1>1. TypeOK'
  BY DEF IInv, TypeOK
<1>2. Selected'
  BY DEF IInv, Selected, SelectBest
<1> QED
  BY <1>1, <1>2, KeepsTasksStep DEF MayObserve

LEMMA ObserveStep ==
  ASSUME IInv, NEW e \in Exposure, Observe(e)
  PROVE  IInv'
<1>1. /\ observing = "states" /\ observing' \in {"summary", "states"}
      /\ chosen' = [f \in DOMAIN chosen \union {e} |->
           IF f = e THEN [k \in Read |-> SelectBest(e, k)] ELSE chosen[f]]
      /\ KeepsTasks /\ UNCHANGED <<runs, faults, earlier>>
  BY DEF Observe, counters
<1>2. TypeOK'
  BY <1>1 DEF IInv, TypeOK, KeepsTasks, registry
<1>3. Selected'
  BY <1>1 DEF IInv, Selected, SelectBest, KeepsTasks, registry
<1> QED
  BY <1>1, <1>2, <1>3, KeepsTasksStep DEF IInv, Progress

LEMMA AssembleStep ==
  ASSUME IInv, Summarise \/ Combine \/ CombineSpectra \/ Break
  PROVE  IInv'
<1> USE DEF Summarise, Combine, CombineSpectra, Break, KeepsTasks, registry, counters, Ends
<1>1. TypeOK'
  <2>1. faults' \in 0..MaxRuns
    BY ScienceObservationAssumption DEF IInv, TypeOK, MayFault
  <2> QED
    BY <2>1 DEF IInv, TypeOK
<1>2. Selected'
  BY DEF IInv, Selected, SelectBest
<1>3. earlier' = earlier /\ KeepsTasks /\ observing # "idle"
  OBVIOUS
<1>4. observing' \notin {"idle", "exposures"} => \A e \in Exposure : at[e] = <<"done">>
  BY DEF IInv, Progress
<1> QED
  BY <1>1, <1>2, <1>3, <1>4, KeepsTasksStep

LEMMA StutterStep ==
  ASSUME IInv, UNCHANGED vars
  PROVE  IInv'
<1> USE DEF vars, registry, counters, KeepsTasks
<1>1. TypeOK'
  BY DEF IInv, TypeOK
<1>2. Selected'
  BY DEF IInv, Selected, SelectBest
<1>3. observing' \notin {"idle", "exposures"} => \A e \in Exposure : at[e] = <<"done">>
  BY DEF IInv, Progress
<1> QED
  BY <1>1, <1>2, <1>3, KeepsTasksStep

-----------------------------------------------------------------------------
(* The theorems                                                            *)

\* The invariant that the others follow from.
THEOREM Invariance == Spec => []IInv
<1>1. IInv /\ [Next]_vars => IInv'
  <2> SUFFICES ASSUME IInv, [Next]_vars PROVE IInv'
    OBVIOUS
  <2>1. ASSUME NEW e \in Exposure, ExposureTask(e) PROVE IInv'
    BY <2>1, StartStep, MatchStep, SelectStep, ImportStep, FailStep, PublishStep, JudgeStep DEF ExposureTask
  <2>2. ASSUME NEW e \in Exposure, Observe(e) PROVE IInv'
    BY <2>2, ObserveStep
  <2>3. ASSUME NEW b \in Measured, MeasureBaseline(b) PROVE IInv'
    BY <2>3, MeasureStep
  <2> QED
    BY <2>1, <2>2, <2>3, CommandStep, SettleStep, AssembleStep, StutterStep DEF Next
<1> QED
  BY InitIInv, <1>1, PTL DEF Spec

\* Type correctness of run observation.
THEOREM TypeCorrect == Spec => []TypeOK
<1>1. IInv => TypeOK
  BY DEF IInv
<1> QED
  BY <1>1, Invariance, PTL

\* An observation is assembled from exposures whose products are registered
\* and judged, whatever commands failed or died before.
THEOREM MembersWholeCorrect == Spec => []MembersWhole
<1>1. IInv => MembersWhole
  BY OtherPlaces DEF IInv, Progress, MembersWhole, There, Products
<1> QED
  BY <1>1, Invariance, PTL

\* What is recorded of a member is what its fibers were calibrated with,
\* unless that row was there before the command.
THEOREM OwnUnlessReturnedCorrect == Spec => []OwnUnlessReturned
<1>1. IInv => OwnUnlessReturned
  <2> SUFFICES ASSUME IInv, NEW e \in DOMAIN chosen, NEW k \in Read
               PROVE  chosen[e][k] = Revision(e, k) \/ Revision(e, k) \in ToSet(earlier.made[e][k])
    BY DEF OwnUnlessReturned
  <2>1. e \in Exposure /\ observing \notin {"idle", "exposures"} /\ chosen[e][k] = SelectBest(e, k)
    BY DEF IInv, TypeOK, Selected
  <2>2. at[e] = <<"done">>
    BY <2>1 DEF IInv, Progress
  <2>3. Newest(e, k)
    BY <2>1, <2>2, OtherPlaces DEF IInv, Rows, Read
  <2> QED
    BY <2>1, <2>3 DEF Newest, SelectBest
<1> QED
  BY <1>1, Invariance, PTL

\* Exposures at which the same baselines are valid share theirs, unless one
\* that is valid for them came while they were reduced.
THEOREM BaselinesSharedCorrect == Spec => []BaselinesShared
<1>1. IInv => BaselinesShared
  <2> SUFFICES ASSUME IInv, observing \in {"combine", "spectrum"},
                      NEW e \in Exposure, NEW f \in Exposure,
                      \A b \in ToSet(baselines) : Applies(b, e) <=> Applies(b, f),
                      \A b \in Came : Applies(b, e) =>
                        b \notin Measured /\ \A c \in ToSet(earlier.baselines) : ~Applies(c, e)
               PROVE  baseline[e] = baseline[f]
    BY DEF BaselinesShared, Came, Applies
  <2>1. HasSelected(at[e]) /\ HasSelected(at[f])
    BY OtherPlaces DEF IInv, Progress, Kind, HasSelected
  <2>2. Selection(e) /\ Selection(f) /\ Appended
    BY <2>1 DEF IInv, Baselines
  <2>3. /\ earlier.baselines \in Seq(Base) /\ baselines \in Seq(Base)
        /\ ToSet(baselines) \subseteq Base
    BY DEF IInv, TypeOK, ToSet
  <2>4. ToSet(earlier.baselines) \subseteq ToSet(baselines)
    <3>1. \A i \in DOMAIN earlier.baselines :
            i \in DOMAIN baselines /\ baselines[i] = earlier.baselines[i]
      BY <2>2, <2>3 DEF Appended
    <3> QED
      BY <3>1 DEF ToSet
  <2>5. CASE baseline[e] \in Came
    <3>1. baseline[e] = "seed" /\ \A c \in ToSet(earlier.baselines) : ~Applies(c, f)
      BY <2>2, <2>3, <2>4, <2>5 DEF Selection, Came, Base
    <3>2. ~NewestFound(f)
      BY <2>2, <3>1 DEF NewestFound, Selection, ToSet
    <3>3. baseline[f] \in Came /\ Applies(baseline[f], e)
      BY <2>2, <3>2 DEF Selection, Came
    <3>4. baseline[f] = "seed"
      BY <2>3, <3>3 DEF Came, Base
    <3> QED
      BY <3>1, <3>4
  <2>6. CASE baseline[e] \notin Came
    <3>1. PICK i \in DOMAIN earlier.baselines :
            /\ earlier.baselines[i] = baseline[e]
            /\ \A j \in DOMAIN earlier.baselines : Applies(earlier.baselines[j], e) => j <= i
      BY <2>2, <2>6 DEF Selection, NewestFound
    <3>2. Applies(baseline[e], e) /\ baseline[e] \in ToSet(earlier.baselines)
      BY <2>2, <3>1 DEF Selection, ToSet
    <3>3. baseline[f] \notin Came
      BY <2>2, <3>2 DEF Selection, Came
    <3>4. PICK j \in DOMAIN earlier.baselines :
            /\ earlier.baselines[j] = baseline[f]
            /\ \A k \in DOMAIN earlier.baselines : Applies(earlier.baselines[k], f) => k <= j
      BY <2>2, <3>3 DEF Selection, NewestFound
    <3>5. Applies(baseline[e], f) /\ Applies(baseline[f], e)
      <4>1. baseline[f] \in ToSet(earlier.baselines)
        BY <3>4 DEF ToSet
      <4> QED
        BY <2>2, <2>4, <3>2, <4>1 DEF Selection
    <3>6. i <= j /\ j <= i
      BY <3>1, <3>4, <3>5
    <3>7. i \in Nat /\ j \in Nat
      BY <2>3
    <3> QED
      BY <3>1, <3>4, <3>6, <3>7
  <2> QED
    BY <2>5, <2>6
<1> QED
  BY <1>1, Invariance, PTL
=============================================================================
