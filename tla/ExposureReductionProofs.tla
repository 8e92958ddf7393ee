------------------------ MODULE ExposureReductionProofs ------------------------
(***************************************************************************)
(* What ExposureTask keeps and records, for any number of physical CCDs,    *)
(* response builds and gaps, and what the rest of its run makes of it, for   *)
(* any number of iterations and of extinction models.                       *)
(***************************************************************************)
EXTENDS ExposureScience, FiniteSetTheorems, TLAPS

\* Where the loop works on a CCD.
Inside == {"lower", "upper", "model", "extractLower", "extractUpper", "release"}

\* The loop is at a CCD, which has both amplifiers once it is worked on.
Position ==
  /\ pc = "select" => ccd = 1 /\ reduced = {} /\ results = {}
  /\ pc \in Inside => ccd \in DOMAIN CCD
  /\ pc \in Inside \ {"lower"} => Both \subseteq raw
  /\ pc \in {"extractLower", "extractUpper"} => ccd \in models
  /\ pc = "assemble" => ccd = Len(CCD) + 1

\* What is done of the CCD at hand is extracted or recorded.
Carried ==
  /\ pc = "extractUpper" => Lower \in results \union failures
  /\ pc = "release" => Both \subseteq results \union failures
  /\ pc # "select" => \A a \in raw : calibration[a] # Complete => a \in failures

\* A verdict is given once, from the records.
Verdict ==
  /\ status # "none" => pc = "done"
  /\ status = "pass" => failures = {} /\ exclusions = {}

IInv ==
  /\ TypeOK
  /\ Position
  /\ Carried
  /\ Verdict
  /\ Accounted
  /\ ReleasedPromptly
  /\ SpectraHaveModels

-----------------------------------------------------------------------------
(* The CCDs                                                                *)

LEMMA Shape ==
  /\ Len(CCD) \in Nat \ {0} /\ DOMAIN CCD = 1..Len(CCD)
  /\ \A i \in DOMAIN CCD : CCD[i][1] \in Amp /\ CCD[i][2] \in Amp /\ CCD[i][1] # CCD[i][2]
BY ExposureReductionAssumption DEF Amp

\* An amplifier belongs to one CCD.
LEMMA Distinct ==
  ASSUME NEW i \in DOMAIN CCD, NEW j \in DOMAIN CCD, i # j
  PROVE  {CCD[i][1], CCD[i][2]} \intersect {CCD[j][1], CCD[j][2]} = {}
BY ExposureReductionAssumption

\* Leaving a CCD behind adds its amplifiers to those of the past.
LEMMA PastGrows ==
  ASSUME ccd \in DOMAIN CCD, ccd' = ccd + 1, raw' = raw
  PROVE  Past' = Past \union (Both \intersect raw)
<1>1. 1..(ccd' - 1) = 1..(ccd - 1) \union {ccd}
  BY Shape
<1> QED
  BY <1>1 DEF Past, Both, Lower, Upper

\* Behind the last one, all are.
LEMMA PastAll ==
  ASSUME ccd = Len(CCD) + 1, raw \subseteq Amp
  PROVE  Past = raw
<1>1. 1..(ccd - 1) = DOMAIN CCD
  BY Shape
<1> QED
  BY <1>1 DEF Past, Amp

\* Where the loop goes next.
LEMMA Advance ==
  ASSUME TypeOK, Position, pc \in Inside, NextCCD
  PROVE  /\ ccd' \in 1..(Len(CCD) + 1)
         /\ \/ pc' = "lower" /\ ccd' \in DOMAIN CCD
            \/ pc' = "assemble" /\ ccd' = Len(CCD) + 1
<1>1. Len(CCD) \in Nat /\ ccd \in 1..Len(CCD) /\ ccd' = ccd + 1
  BY Shape DEF Position, NextCCD
<1>2. CASE ccd = Len(CCD)
  BY <1>1, <1>2 DEF NextCCD
<1>3. CASE ccd # Len(CCD)
  <2>1. ccd' \in 1..Len(CCD)
    BY <1>1, <1>3
  <2>2. ccd' \in 1..(Len(CCD) + 1)
    BY <1>1, <2>1
  <2>3. pc' = "lower"
    BY <1>3 DEF NextCCD
  <2> QED
    BY <2>1, <2>2, <2>3, Shape
<1> QED
  BY <1>2, <1>3

-----------------------------------------------------------------------------
LEMMA InitIInv == Init => IInv
<1> SUFFICES ASSUME Init PROVE IInv
  OBVIOUS
<1> USE DEF Init
<1>1. raw \subseteq Amp /\ raw # {}
  BY Shape
<1>2. TypeOK
  BY <1>1, Shape DEF TypeOK
<1>3. Past = {}
  <2>1. 1..(ccd - 1) = {}
    OBVIOUS
  <2> QED
    BY <2>1 DEF Past
<1>4. Position /\ Carried /\ Verdict /\ Accounted
  BY <1>3 DEF Position, Inside, Carried, Verdict, Accounted
<1>5. ReleasedPromptly /\ SpectraHaveModels
  BY DEF ReleasedPromptly, SpectraHaveModels
<1> QED
  BY <1>2, <1>4, <1>5 DEF IInv

-----------------------------------------------------------------------------
(* The steps                                                               *)

LEMMA RecalibrateStep == IInv /\ Recalibrate => IInv'
<1> SUFFICES ASSUME IInv, Recalibrate PROVE IInv'
  OBVIOUS
<1> USE DEF IInv, Recalibrate, facts, selected, records
<1>1. TypeOK'
  BY Shape DEF TypeOK, Both, Lower, Upper, Position, Inside
<1>2. Position'
  BY Shape DEF Position, Inside, Both, Lower, Upper, TypeOK, ReleasedPromptly
<1>3. Carried' /\ Verdict'
  BY DEF Carried, Verdict, Both, Lower, Upper, Position, Inside
<1>4. Accounted'
  <2>1. Past' = Past
    BY DEF Past
  <2> QED
    BY <2>1 DEF Accounted, Carried, Position, Inside
<1>5. ReleasedPromptly'
  BY Shape DEF ReleasedPromptly, Position, Inside, Both, Lower, Upper, TypeOK
<1>6. SpectraHaveModels'
  BY Distinct, Shape DEF SpectraHaveModels, Position, Inside, Both, Lower, Upper, TypeOK
<1> QED
  BY <1>1, <1>2, <1>3, <1>4, <1>5, <1>6

LEMMA NoPartnerStep == IInv /\ NoPartner => IInv'
<1> SUFFICES ASSUME IInv, NoPartner PROVE IInv'
  OBVIOUS
<1> USE DEF IInv, NoPartner, LoneRecorded, NextCCD, facts, selected, records
<1>a. /\ ccd' \in 1..(Len(CCD) + 1)
      /\ \/ pc' = "lower" /\ ccd' \in DOMAIN CCD
         \/ pc' = "assemble" /\ ccd' = Len(CCD) + 1
  BY Advance DEF Inside
<1> HIDE DEF NextCCD
<1>1. TypeOK'
  BY <1>a, Shape DEF TypeOK, Both, Lower, Upper, Position, Inside
<1>2. Position'
  BY <1>a DEF Position, Inside, Both, Lower, Upper, TypeOK, ReleasedPromptly
<1>3. Carried' /\ Verdict'
  BY <1>a DEF Carried, Verdict, Both, Lower, Upper, Position, Inside
<1> USE DEF NextCCD
<1>4. Accounted'
  <2>1. Past' = Past \union (Both \intersect raw)
    BY PastGrows DEF Position, Inside
  <2> QED
    BY <2>1 DEF Accounted, Carried, Position, Inside, Both, Lower, Upper
<1>5. ReleasedPromptly'
  BY Shape DEF ReleasedPromptly, Position, Inside, Both, Lower, Upper, TypeOK
<1>6. SpectraHaveModels'
  BY Distinct, Shape DEF SpectraHaveModels, Position, Inside, Both, Lower, Upper, TypeOK
<1> QED
  BY <1>1, <1>2, <1>3, <1>4, <1>5, <1>6

LEMMA ReduceLowerStep == IInv /\ ReduceLower => IInv'
<1> SUFFICES ASSUME IInv, ReduceLower PROVE IInv'
  OBVIOUS
<1> USE DEF IInv, ReduceLower, Goto, Reduce, facts, selected, records
<1>1. TypeOK'
  BY Shape DEF TypeOK, Both, Lower, Upper, Position, Inside
<1>2. Position'
  BY Shape DEF Position, Inside, Both, Lower, Upper, TypeOK, ReleasedPromptly
<1>3. Carried' /\ Verdict'
  BY DEF Carried, Verdict, Both, Lower, Upper, Position, Inside
<1>4. Accounted'
  <2>1. Past' = Past
    BY DEF Past
  <2> QED
    BY <2>1 DEF Accounted, Carried, Position, Inside
<1>5. ReleasedPromptly'
  BY Shape DEF ReleasedPromptly, Position, Inside, Both, Lower, Upper, TypeOK
<1>6. SpectraHaveModels'
  BY Distinct, Shape DEF SpectraHaveModels, Position, Inside, Both, Lower, Upper, TypeOK
<1> QED
  BY <1>1, <1>2, <1>3, <1>4, <1>5, <1>6

LEMMA ReduceUpperStep == IInv /\ ReduceUpper => IInv'
<1> SUFFICES ASSUME IInv, ReduceUpper PROVE IInv'
  OBVIOUS
<1> USE DEF IInv, ReduceUpper, Goto, Reduce, facts, selected, records
<1>1. TypeOK'
  BY Shape DEF TypeOK, Both, Lower, Upper, Position, Inside
<1>2. Position'
  BY Shape DEF Position, Inside, Both, Lower, Upper, TypeOK, ReleasedPromptly
<1>3. Carried' /\ Verdict'
  BY DEF Carried, Verdict, Both, Lower, Upper, Position, Inside
<1>4. Accounted'
  <2>1. Past' = Past
    BY DEF Past
  <2> QED
    BY <2>1 DEF Accounted, Carried, Position, Inside
<1>5. ReleasedPromptly'
  BY Shape DEF ReleasedPromptly, Position, Inside, Both, Lower, Upper, TypeOK
<1>6. SpectraHaveModels'
  BY Distinct, Shape DEF SpectraHaveModels, Position, Inside, Both, Lower, Upper, TypeOK
<1> QED
  BY <1>1, <1>2, <1>3, <1>4, <1>5, <1>6

LEMMA GiveUpStep == IInv /\ GiveUp => IInv'
<1> SUFFICES ASSUME IInv, GiveUp PROVE IInv'
  OBVIOUS
<1> USE DEF IInv, GiveUp, NextCCD, Dropped, MayModel, facts, selected, records
<1>a. /\ ccd' \in 1..(Len(CCD) + 1)
      /\ \/ pc' = "lower" /\ ccd' \in DOMAIN CCD
         \/ pc' = "assemble" /\ ccd' = Len(CCD) + 1
  BY Advance DEF Inside
<1> HIDE DEF NextCCD
<1>1. TypeOK'
  BY <1>a, Shape DEF TypeOK, Both, Lower, Upper, Position, Inside
<1>2. Position'
  BY <1>a DEF Position, Inside, Both, Lower, Upper, TypeOK, ReleasedPromptly
<1>3. Carried' /\ Verdict'
  BY <1>a DEF Carried, Verdict, Both, Lower, Upper, Position, Inside
<1> USE DEF NextCCD
<1>4. Accounted'
  <2>1. Past' = Past \union (Both \intersect raw)
    BY PastGrows DEF Position, Inside
  <2> QED
    BY <2>1 DEF Accounted, Carried, Position, Inside, Both, Lower, Upper
<1>5. ReleasedPromptly'
  BY Shape DEF ReleasedPromptly, Position, Inside, Both, Lower, Upper, TypeOK
<1>6. SpectraHaveModels'
  BY Distinct, Shape DEF SpectraHaveModels, Position, Inside, Both, Lower, Upper, TypeOK
<1> QED
  BY <1>1, <1>2, <1>3, <1>4, <1>5, <1>6

LEMMA ModelStep == IInv /\ Model => IInv'
<1> SUFFICES ASSUME IInv, Model PROVE IInv'
  OBVIOUS
<1> USE DEF IInv, Model, Goto, MayModel, facts, selected, records
<1>1. TypeOK'
  BY Shape DEF TypeOK, Both, Lower, Upper, Position, Inside
<1>2. Position'
  BY Shape DEF Position, Inside, Both, Lower, Upper, TypeOK, ReleasedPromptly
<1>3. Carried' /\ Verdict'
  BY DEF Carried, Verdict, Both, Lower, Upper, Position, Inside
<1>4. Accounted'
  <2>1. Past' = Past
    BY DEF Past
  <2> QED
    BY <2>1 DEF Accounted, Carried, Position, Inside
<1>5. ReleasedPromptly'
  BY Shape DEF ReleasedPromptly, Position, Inside, Both, Lower, Upper, TypeOK
<1>6. SpectraHaveModels'
  BY Distinct, Shape DEF SpectraHaveModels, Position, Inside, Both, Lower, Upper, TypeOK
<1> QED
  BY <1>1, <1>2, <1>3, <1>4, <1>5, <1>6

LEMMA ExtractLowerStep == IInv /\ ExtractLower => IInv'
<1> SUFFICES ASSUME IInv, ExtractLower PROVE IInv'
  OBVIOUS
<1> USE DEF IInv, ExtractLower, Goto, LeaveOut, Extract, facts, selected, records
<1>1. TypeOK'
  BY Shape DEF TypeOK, Both, Lower, Upper, Position, Inside
<1>2. Position'
  BY Shape DEF Position, Inside, Both, Lower, Upper, TypeOK, ReleasedPromptly
<1>3. Carried' /\ Verdict'
  BY DEF Carried, Verdict, Both, Lower, Upper, Position, Inside
<1>4. Accounted'
  <2>1. Past' = Past
    BY DEF Past
  <2> QED
    BY <2>1 DEF Accounted, Carried, Position, Inside
<1>5. ReleasedPromptly'
  BY Shape DEF ReleasedPromptly, Position, Inside, Both, Lower, Upper, TypeOK
<1>6. SpectraHaveModels'
  BY Distinct, Shape, ZenonT(60) DEF SpectraHaveModels, Position, Inside, Both, Lower, Upper, TypeOK
<1> QED
  BY <1>1, <1>2, <1>3, <1>4, <1>5, <1>6

LEMMA ExtractUpperStep == IInv /\ ExtractUpper => IInv'
<1> SUFFICES ASSUME IInv, ExtractUpper PROVE IInv'
  OBVIOUS
<1> USE DEF IInv, ExtractUpper, Goto, LeaveOut, Extract, facts, selected, records
<1>1. TypeOK'
  BY Shape DEF TypeOK, Both, Lower, Upper, Position, Inside
<1>2. Position'
  BY Shape DEF Position, Inside, Both, Lower, Upper, TypeOK, ReleasedPromptly
<1>3. Carried' /\ Verdict'
  BY DEF Carried, Verdict, Both, Lower, Upper, Position, Inside
<1>4. Accounted'
  <2>1. Past' = Past
    BY DEF Past
  <2> QED
    BY <2>1 DEF Accounted, Carried, Position, Inside
<1>5. ReleasedPromptly'
  BY Shape DEF ReleasedPromptly, Position, Inside, Both, Lower, Upper, TypeOK
<1>6. SpectraHaveModels'
  BY Distinct, Shape, ZenonT(60) DEF SpectraHaveModels, Position, Inside, Both, Lower, Upper, TypeOK
<1> QED
  BY <1>1, <1>2, <1>3, <1>4, <1>5, <1>6

LEMMA LoadFailsStep == IInv /\ LoadFails => IInv'
<1> SUFFICES ASSUME IInv, LoadFails PROVE IInv'
  OBVIOUS
<1> USE DEF IInv, LoadFails, Goto, facts, selected, records
<1>1. TypeOK'
  BY Shape DEF TypeOK, Both, Lower, Upper, Position, Inside
<1>2. Position'
  BY Shape DEF Position, Inside, Both, Lower, Upper, TypeOK, ReleasedPromptly
<1>3. Carried' /\ Verdict'
  BY DEF Carried, Verdict, Both, Lower, Upper, Position, Inside
<1>4. Accounted'
  <2>1. Past' = Past
    BY DEF Past
  <2> QED
    BY <2>1 DEF Accounted, Carried, Position, Inside
<1>5. ReleasedPromptly'
  BY Shape DEF ReleasedPromptly, Position, Inside, Both, Lower, Upper, TypeOK
<1>6. SpectraHaveModels'
  BY Distinct, Shape DEF SpectraHaveModels, Position, Inside, Both, Lower, Upper, TypeOK
<1> QED
  BY <1>1, <1>2, <1>3, <1>4, <1>5, <1>6

LEMMA ReleaseStep == IInv /\ Release => IInv'
<1> SUFFICES ASSUME IInv, Release PROVE IInv'
  OBVIOUS
<1> USE DEF IInv, Release, NextCCD, facts, selected, records
<1>a. /\ ccd' \in 1..(Len(CCD) + 1)
      /\ \/ pc' = "lower" /\ ccd' \in DOMAIN CCD
         \/ pc' = "assemble" /\ ccd' = Len(CCD) + 1
  BY Advance DEF Inside
<1> HIDE DEF NextCCD
<1>1. TypeOK'
  BY <1>a, Shape DEF TypeOK, Both, Lower, Upper, Position, Inside
<1>2. Position'
  BY <1>a DEF Position, Inside, Both, Lower, Upper, TypeOK, ReleasedPromptly
<1>3. Carried' /\ Verdict'
  BY <1>a DEF Carried, Verdict, Both, Lower, Upper, Position, Inside
<1> USE DEF NextCCD
<1>4. Accounted'
  <2>1. Past' = Past \union (Both \intersect raw)
    BY PastGrows DEF Position, Inside
  <2> QED
    BY <2>1 DEF Accounted, Carried, Position, Inside, Both, Lower, Upper
<1>5. ReleasedPromptly'
  BY Shape DEF ReleasedPromptly, Position, Inside, Both, Lower, Upper, TypeOK
<1>6. SpectraHaveModels'
  BY Distinct, Shape DEF SpectraHaveModels, Position, Inside, Both, Lower, Upper, TypeOK
<1> QED
  BY <1>1, <1>2, <1>3, <1>4, <1>5, <1>6

LEMMA NothingExtractedStep == IInv /\ NothingExtracted => IInv'
<1> SUFFICES ASSUME IInv, NothingExtracted PROVE IInv'
  OBVIOUS
<1> USE DEF IInv, NothingExtracted, Goto, facts, selected, records
<1>1. TypeOK'
  BY Shape DEF TypeOK, Both, Lower, Upper, Position, Inside
<1>2. Position'
  BY Shape DEF Position, Inside, Both, Lower, Upper, TypeOK, ReleasedPromptly
<1>3. Carried' /\ Verdict'
  BY DEF Carried, Verdict, Both, Lower, Upper, Position, Inside
<1>4. Accounted'
  <2>1. Past' = Past
    BY DEF Past
  <2> QED
    BY <2>1 DEF Accounted, Carried, Position, Inside
<1>5. ReleasedPromptly'
  BY Shape DEF ReleasedPromptly, Position, Inside, Both, Lower, Upper, TypeOK
<1>6. SpectraHaveModels'
  BY Distinct, Shape DEF SpectraHaveModels, Position, Inside, Both, Lower, Upper, TypeOK
<1> QED
  BY <1>1, <1>2, <1>3, <1>4, <1>5, <1>6

LEMMA SelectStep == IInv /\ Select => IInv'
<1> SUFFICES ASSUME IInv, Select PROVE IInv'
  OBVIOUS
<1> USE DEF IInv, Select, facts
<1>1. \A a \in Amp : calibration'[a] \in SUBSET (Kind \union {"response"})
  BY DEF Kinds
<1>2. TypeOK'
  BY <1>1 DEF TypeOK
<1>3. Position' /\ Carried' /\ Verdict'
  BY Shape DEF Position, Inside, Carried, Verdict, TypeOK
<1>4. Past' = {}
  <2>1. 1..(ccd' - 1) = {}
    BY DEF Position
  <2> QED
    BY <2>1 DEF Past
<1>5. Accounted'
  BY <1>4 DEF Accounted
<1>6. ReleasedPromptly' /\ SpectraHaveModels'
  BY DEF ReleasedPromptly, SpectraHaveModels, Position
<1> QED
  BY <1>2, <1>3, <1>5, <1>6

LEMMA AssembleStep == IInv /\ Assemble => IInv'
<1> SUFFICES ASSUME IInv, Assemble PROVE IInv'
  OBVIOUS
<1> USE DEF IInv, Assemble, Goto, facts, selected
<1>1. PICK U \in SUBSET results :
        /\ failures' = failures \union U
        /\ frame' = results \ U
        /\ IF frame' = {} THEN Goto("raised") /\ UNCHANGED status
           ELSE Goto("done") /\ status' = IF Clean(failures') THEN "pass" ELSE "warn"
  OBVIOUS
<1>2. TypeOK'
  BY <1>1 DEF TypeOK
<1>3. Position'
  BY <1>1 DEF Position, Inside
<1>4. Carried' /\ Verdict'
  BY <1>1 DEF Carried, Verdict, Clean
<1>5. Accounted'
  <2>1. Past = raw /\ Past' = raw
    BY <1>1, PastAll DEF Position, TypeOK, Past
  <2>2. raw \subseteq results \union failures /\ failures \subseteq raw /\ results \subseteq raw
    BY <2>1 DEF Accounted, TypeOK
  <2> QED
    BY <1>1, <2>1, <2>2 DEF Accounted
<1>6. ReleasedPromptly' /\ SpectraHaveModels'
  BY <1>1, Shape DEF ReleasedPromptly, SpectraHaveModels, Position, Both, Lower, Upper
<1> QED
  BY <1>2, <1>3, <1>4, <1>5, <1>6

LEMMA StutterStep == IInv /\ UNCHANGED vars => IInv'
<1> SUFFICES ASSUME IInv, UNCHANGED vars PROVE IInv'
  OBVIOUS
<1> USE DEF IInv, vars, facts, selected, records
<1>1. TypeOK' /\ Position' /\ Carried' /\ Verdict'
  BY DEF TypeOK, Position, Carried, Verdict, Both, Lower, Upper
<1>2. Accounted' /\ ReleasedPromptly' /\ SpectraHaveModels'
  BY DEF Accounted, Past, ReleasedPromptly, SpectraHaveModels, Both, Lower, Upper
<1> QED
  BY <1>1, <1>2

-----------------------------------------------------------------------------
(* The scans                                                               *)

\* Induction up to N, for a predicate that is a function.
LEMMA UpTo ==
  ASSUME NEW N \in Nat, NEW P \in [0..N -> BOOLEAN], P[0], \A i \in 1..N : P[i - 1] => P[i]
  PROVE  \A i \in 0..N : P[i]
<1>1. SUFFICES ASSUME NEW k \in 0..N, ~ P[k] PROVE FALSE
  OBVIOUS
<1> DEFINE Bad == {i \in 0..N : ~ P[i]}
<1>2. Bad \in SUBSET (0..N) /\ Bad # {}
  BY <1>1
<1>3. \E m \in Bad : \A i \in Bad : m <= i
  <2>1. IsFiniteSet(0..N)
    BY FS_Interval
  <2>2. IsWellFoundedOn(StrictSubsetOrdering(0..N), SUBSET (0..N))
    BY <2>1, FS_FiniteSubsetsOfFinite, FS_StrictSubsetOrderingWellFounded
  <2> DEFINE F == {0..i : i \in Bad}
  <2>3. F \in SUBSET SUBSET (0..N) /\ F # {}
    BY <1>2
  <2>4. \E m \in F : \A i \in F : ~ (<<i, m>> \in StrictSubsetOrdering(0..N))
    <3> HIDE DEF F
    <3> QED
      BY <2>2, <2>3, WFMin
  <2>5. PICK m \in Bad : \A i \in Bad : ~ (<<0..i, 0..m>> \in StrictSubsetOrdering(0..N))
    BY <2>4
  <2>6. ASSUME NEW i \in Bad, i < m PROVE FALSE
    <3>1. 0..i \in SUBSET (0..N) /\ 0..m \in SUBSET (0..N) /\ 0..i \subseteq 0..m
      BY <1>2, <2>6
    <3>2. m \in 0..m /\ m \notin 0..i
      BY <1>2, <2>6
    <3> QED
      BY <2>5, <3>1, <3>2 DEF StrictSubsetOrdering
  <2> QED
    BY <1>2, <2>6
<1>4. PICK m \in Bad : \A i \in Bad : m <= i
  BY <1>3
<1>5. m \in 1..N /\ m - 1 \in 0..N /\ m - 1 \notin Bad
  BY <1>4
<1> QED
  BY <1>4, <1>5

LEMMA BuildType == Cardinality(Build) \in Nat /\ Build = 1..Cardinality(Build)
BY ExposureReductionAssumption, FS_CardinalityType

\* How much a build covers is a number.
LEMMA OverlapType ==
  ASSUME raw \subseteq Amp
  PROVE  /\ Overlap(0) = -1 /\ Cardinality(raw) \in Nat
         /\ \A b \in Build : Overlap(b) \in Nat /\ Overlap(b) <= Cardinality(raw)
<1> DEFINE S == (1..Len(CCD)) \X (1..2)
           f == [p \in S |-> CCD[p[1]][p[2]]]
<1>1. IsFiniteSet(S)
  <2>1. IsFiniteSet(1..Len(CCD)) /\ IsFiniteSet(1..2)
    <3>1. Len(CCD) \in Int /\ 1 \in Int /\ 2 \in Int
      BY Shape
    <3> QED
      BY <3>1, FS_Interval
  <2> QED
    BY <2>1, FS_Product
<1>2. \A a \in Amp : \E p \in S : f[p] = a
  <2> SUFFICES ASSUME NEW a \in Amp PROVE \E p \in S : f[p] = a
    OBVIOUS
  <2>1. PICK i \in 1..Len(CCD) : a = CCD[i][1] \/ a = CCD[i][2]
    BY Shape DEF Amp
  <2>2. <<i, 1>> \in S /\ <<i, 2>> \in S
    BY <2>1
  <2> QED
    BY <2>1, <2>2
<1>3. f \in [S -> Amp]
  BY Shape
<1>4. IsFiniteSet(Amp)
  <2> HIDE DEF S, f
  <2> QED
    BY <1>1, <1>2, <1>3, FS_Surjection DEF Surjection
<1>5. IsFiniteSet(raw)
  BY <1>4, FS_Subset
<1>6. Cardinality(raw) \in Nat
  BY <1>5, FS_CardinalityType
<1>7. ASSUME NEW b \in Build PROVE Overlap(b) \in Nat /\ Overlap(b) <= Cardinality(raw)
  <2>1. b # 0
    BY BuildType
  <2>2. IsFiniteSet(raw \intersect Covers[b]) /\ Cardinality(raw \intersect Covers[b]) <= Cardinality(raw)
    BY <1>5, FS_Subset
  <2> QED
    BY <2>1, <2>2, FS_CardinalityType DEF Overlap
<1> QED
  BY <1>6, <1>7 DEF Overlap

\* What is best after the builds of B that were looked at.
IsBest(r, start, L) ==
  /\ r \in {start} \union L
  /\ r # start => Overlap(r) > Overlap(start)
  /\ \A b \in L : Overlap(b) <= Overlap(r) /\ (r # start /\ Overlap(b) = Overlap(r) => b <= r)

LEMMA ScanBest ==
  ASSUME raw \subseteq Amp, NEW start \in {0} \union Build, NEW B \in SUBSET Build
  PROVE  IsBest(Scan(start, B), start, B)
<1> DEFINE N == Cardinality(Build)
           Looked(n) == {b \in B : b > N - n}
           IsScan(g) ==
             g = [n \in 0..N |-> IF n = 0 THEN start ELSE Better(g[n - 1], NewestFirst(n), B)]
           g == CHOOSE g : IsScan(g)
<1>1. N \in Nat /\ Build = 1..N
  BY BuildType
<1>2. \A b \in {0} \union Build : Overlap(b) \in Int
  BY OverlapType
<1>3. Scan(start, B) = g[N]
  BY DEF Scan
<1>4. \E f : IsScan(f)
  <2> DEFINE Rec(m) ==
               \E f : f = [n \in 0..m |-> IF n = 0 THEN start ELSE Better(f[n - 1], NewestFirst(n), B)]
             Q == [m \in 0..N |-> Rec(m)]
  <2>1. Rec(0)
    <3> DEFINE f == [n \in 0..0 |-> start]
    <3>1. f = [n \in 0..0 |-> IF n = 0 THEN start ELSE Better(f[n - 1], NewestFirst(n), B)]
      OBVIOUS
    <3> HIDE DEF f
    <3> QED
      BY <3>1
  <2>2. ASSUME NEW m \in 1..N, Rec(m - 1) PROVE Rec(m)
    <3>1. PICK h : h = [n \in 0..(m - 1) |->
                          IF n = 0 THEN start ELSE Better(h[n - 1], NewestFirst(n), B)]
      BY <2>2
    <3> DEFINE f == [n \in 0..m |->
                       IF n = m THEN Better(h[m - 1], NewestFirst(m), B) ELSE h[n]]
    <3>2. ASSUME NEW n \in 0..m
          PROVE  f[n] = IF n = 0 THEN start ELSE Better(f[n - 1], NewestFirst(n), B)
      <4>1. CASE n = m
        <5>1. f[n] = Better(h[m - 1], NewestFirst(m), B) /\ n # 0
          BY <4>1
        <5>2. f[n - 1] = h[m - 1]
          BY <4>1
        <5> HIDE DEF f
        <5> QED
          BY <4>1, <5>1, <5>2
      <4>2. CASE n # m
        <5>1. n \in 0..(m - 1) /\ f[n] = h[n]
          BY <4>2
        <5>2. n # 0 => f[n - 1] = h[n - 1]
          BY <4>2
        <5>3. h[n] = IF n = 0 THEN start ELSE Better(h[n - 1], NewestFirst(n), B)
          BY <3>1, <5>1
        <5> HIDE DEF f
        <5> QED
          BY <5>1, <5>2, <5>3
      <4> QED
        BY <4>1, <4>2
    <3>3. f = [n \in 0..m |-> f[n]]
      OBVIOUS
    <3> HIDE DEF f
    <3>4. f = [n \in 0..m |-> IF n = 0 THEN start ELSE Better(f[n - 1], NewestFirst(n), B)]
      BY <3>2, <3>3
    <3> QED
      BY <3>4
  <2>3. Q \in [0..N -> BOOLEAN]
    OBVIOUS
  <2>4. Q[0]
    <3>1. 0 \in 0..N
      BY <1>1
    <3> HIDE DEF Rec
    <3> QED
      BY <2>1, <3>1
  <2>5. \A m \in 1..N : Q[m - 1] => Q[m]
    <3> HIDE DEF Rec
    <3> TAKE m \in 1..N
    <3>1. m \in 0..N /\ m - 1 \in 0..N
      BY <1>1
    <3> QED
      BY <2>2, <3>1
  <2>6. Q[N]
    <3>1. N \in 0..N
      BY <1>1
    <3> HIDE DEF Q, N
    <3> QED
      BY <1>1, <2>3, <2>4, <2>5, <3>1, UpTo
  <2>7. Rec(N)
    <3>1. N \in 0..N
      BY <1>1
    <3> HIDE DEF Rec
    <3> QED
      BY <2>6, <3>1
  <2> QED
    BY <2>7
<1>5. IsScan(g)
  <2> HIDE DEF IsScan
  <2> QED
    BY <1>4
<1>6. \A n \in 0..N : g[n] = IF n = 0 THEN start ELSE Better(g[n - 1], NewestFirst(n), B)
  <2> HIDE DEF g, N
  <2> QED
    BY <1>5
<1> HIDE DEF g
<1> DEFINE Q == [n \in 0..N |-> IsBest(g[n], start, Looked(n))]
<1>7. Q[0]
  <2>1. 0 \in 0..N /\ g[0] = start
    BY <1>1, <1>6
  <2>2. Looked(0) = {}
    BY <1>1
  <2>3. IsBest(start, start, Looked(0))
    BY <2>2 DEF IsBest
  <2> QED
    BY <2>1, <2>3
<1>8. ASSUME NEW n \in 1..N, Q[n - 1] PROVE Q[n]
  <2>1. n \in 0..N /\ n - 1 \in 0..N /\ n # 0 /\ NewestFirst(n) \in 1..N
    BY <1>1 DEF NewestFirst
  <2> DEFINE c == NewestFirst(n)
             r == g[n - 1]
  <2>2. IsBest(r, start, Looked(n - 1))
    BY <1>8, <2>1
  <2>3. g[n] = Better(r, c, B)
    BY <1>6, <2>1
  <2>4. Looked(n) = Looked(n - 1) \union (B \intersect {c}) /\ \A b \in Looked(n - 1) : b > c
    BY <1>1, <2>1 DEF NewestFirst
  <2>5. Looked(n - 1) \subseteq Build
    OBVIOUS
  <2> DEFINE L == Looked(n - 1)
  <2> HIDE DEF c, Looked, N
  <2>6. r \in {0} \union Build /\ c \in Build
    BY <1>1, <2>1, <2>2, <2>5 DEF IsBest, c
  <2>7. CASE c \in B /\ Overlap(c) > Overlap(r)
    <3>1. g[n] = c /\ Looked(n) = L \union {c}
      BY <2>3, <2>4, <2>7 DEF Better
    <3>2. Overlap(r) \in Int /\ Overlap(c) \in Int /\ Overlap(start) \in Int
          /\ \A b \in L : Overlap(b) \in Int
      BY <1>2, <2>5, <2>6
    <3>3. Overlap(c) > Overlap(start)
      BY <2>2, <2>7, <3>2 DEF IsBest
    <3>4. \A b \in L : Overlap(b) < Overlap(c)
      BY <2>2, <2>7, <3>2 DEF IsBest
    <3>5. c \in Int
      BY <1>1, <2>6
    <3>6. IsBest(c, start, L \union {c})
      BY <3>2, <3>3, <3>4, <3>5 DEF IsBest
    <3> QED
      BY <2>1, <3>1, <3>6
  <2>8. CASE ~ (c \in B /\ Overlap(c) > Overlap(r))
    <3>1. g[n] = r
      BY <2>3, <2>8 DEF Better
    <3>2. Overlap(r) \in Int /\ Overlap(c) \in Int
      BY <1>2, <2>6
    <3>3. c \in B => Overlap(c) <= Overlap(r)
      BY <2>8, <3>2
    <3>4. r # start => c <= r
      <4>1. r # start => r \in L
        BY <2>2 DEF IsBest
      <4> QED
        BY <1>1, <2>4, <2>5, <2>6, <4>1
    <3>5. IsBest(r, start, Looked(n))
      BY <2>2, <2>4, <3>3, <3>4 DEF IsBest
    <3> QED
      BY <2>1, <3>1, <3>5
  <2> QED
    BY <2>7, <2>8
<1>9. Q \in [0..N -> BOOLEAN]
  BY DEF IsBest
<1>10. Q[N]
  <2>1. N \in 0..N
    BY <1>1
  <2> HIDE DEF Q, N
  <2> QED
    BY <1>1, <1>7, <1>8, <1>9, <2>1, UpTo
<1>11. IsBest(g[N], start, Looked(N))
  <2>1. N \in 0..N
    BY <1>1
  <2> HIDE DEF Looked
  <2> QED
    BY <1>10, <2>1
<1>12. Looked(N) = B
  BY <1>1
<1> QED
  BY <1>3, <1>11, <1>12

\* The two scans together choose the best build.
Best(r) ==
  /\ r \in active
  /\ \A b \in active \ {r} :
       \/ Overlap(r) > Overlap(b)
       \/ Overlap(r) = Overlap(b) /\ r \in InTime /\ b \notin InTime
       \/ Overlap(r) = Overlap(b) /\ (r \in InTime <=> b \in InTime) /\ r > b

LEMMA ChosenBest ==
  ASSUME raw \subseteq Amp, active \subseteq Build, active # {}
  PROVE  Best(Chosen)
<1> DEFINE T == active \intersect InTime
           t == Scan(0, T)
           all == Scan(t, active)
<1>1. T \subseteq Build /\ T \subseteq active
  OBVIOUS
<1>2. IsBest(t, 0, T)
  BY <1>1, ScanBest
<1>3. t \in {0} \union Build
  BY <1>1, <1>2 DEF IsBest
<1>4. IsBest(all, t, active)
  <2> HIDE DEF t
  <2> QED
    BY <1>3, ScanBest
<1> HIDE DEF t, all
<1>5. /\ Overlap(0) = -1 /\ Cardinality(raw) \in Nat
      /\ \A b \in Build : Overlap(b) \in Nat /\ Overlap(b) <= Cardinality(raw)
  BY OverlapType
<1>6. active \subseteq Nat /\ 0 \notin active
  BY BuildType
<1>7. CASE Overlap(t) = Cardinality(raw)
  <2>1. Chosen = t
    BY <1>7 DEF Chosen, t
  <2>2. t \in T
    BY <1>2, <1>5, <1>7 DEF IsBest
  <2>3. ASSUME NEW b \in active \ {t}
        PROVE  \/ Overlap(t) > Overlap(b)
               \/ Overlap(t) = Overlap(b) /\ t \in InTime /\ b \notin InTime
               \/ Overlap(t) = Overlap(b) /\ (t \in InTime <=> b \in InTime) /\ t > b
    <3>1. Overlap(b) \in Nat /\ Overlap(b) <= Overlap(t) /\ Overlap(t) \in Nat
      BY <1>5, <1>7
    <3>2. CASE b \in InTime /\ Overlap(b) = Overlap(t)
      <4>1. b \in T /\ t # 0
        BY <1>6, <2>2, <3>2
      <4>2. b <= t
        BY <1>2, <3>2, <4>1 DEF IsBest
      <4> QED
        BY <1>6, <2>2, <2>3, <3>2, <4>2
    <3> QED
      BY <2>2, <3>1, <3>2
  <2> QED
    BY <2>1, <2>2, <2>3 DEF Best
<1>8. CASE Overlap(t) # Cardinality(raw)
  <2>1. Chosen = all
    BY <1>8 DEF Chosen, t, all
  <2>2. all \in active
    <3>1. PICK b \in active : TRUE
      OBVIOUS
    <3>2. Overlap(b) <= Overlap(all) /\ Overlap(b) \in Nat
      BY <1>4, <1>5, <3>1 DEF IsBest
    <3>3. all # 0
      BY <1>5, <3>2
    <3> QED
      BY <1>1, <1>2, <1>4, <3>3 DEF IsBest
  <2>3. \A b \in active : Overlap(b) \in Nat
    BY <1>5
  <2>4. Overlap(t) \in Int
    BY <1>3, <1>5
  <2>5. ASSUME NEW b \in active \ {all}
        PROVE  \/ Overlap(all) > Overlap(b)
               \/ Overlap(all) = Overlap(b) /\ all \in InTime /\ b \notin InTime
               \/ Overlap(all) = Overlap(b) /\ (all \in InTime <=> b \in InTime) /\ all > b
    <3>1. Overlap(b) <= Overlap(all) /\ Overlap(b) \in Nat /\ Overlap(all) \in Nat
      BY <1>4, <2>2, <2>3 DEF IsBest
    <3>2. CASE Overlap(b) = Overlap(all) /\ all = t
      <4>1. t \in T /\ t # 0
        BY <1>2, <1>6, <2>2, <3>2 DEF IsBest
      <4>2. b \in InTime => b <= t
        BY <1>2, <3>2, <4>1 DEF IsBest
      <4> QED
        BY <1>6, <2>2, <2>5, <3>2, <4>1, <4>2
    <3>3. CASE Overlap(b) = Overlap(all) /\ all # t
      <4>1. Overlap(all) > Overlap(t) /\ b <= all
        BY <1>4, <3>3 DEF IsBest
      <4>2. \A c \in T : Overlap(c) <= Overlap(t) /\ Overlap(c) \in Nat
        BY <1>2, <2>3 DEF IsBest
      <4>3. b \notin T /\ all \notin T
        BY <2>3, <2>4, <2>2, <3>3, <4>1, <4>2
      <4> QED
        BY <1>6, <2>2, <2>5, <3>3, <4>1, <4>3
    <3> QED
      BY <3>1, <3>2, <3>3
  <2> QED
    BY <2>1, <2>2, <2>5 DEF Best
<1> QED
  BY <1>7, <1>8

\* What was chosen stays, as nothing of what it was chosen by changes.
Selection == pc # "select" => response = Chosen

LEMMA SelectionStep == Selection /\ [Next]_vars => Selection'
<1> SUFFICES ASSUME Selection, [Next]_vars PROVE Selection'
  OBVIOUS
<1>1. CASE Select
  <2>1. response' = Chosen /\ raw' = raw /\ active' = active
    BY <1>1 DEF Select, facts
  <2>2. Chosen' = Chosen
    BY <2>1 DEF Chosen, Scan, Better, Overlap
  <2> QED
    BY <2>1, <2>2 DEF Selection
<1>2. CASE UNCHANGED <<raw, active, response>> /\ (pc' # "select" => pc # "select")
  <2>1. Chosen' = Chosen
    BY <1>2 DEF Chosen, Scan, Better, Overlap
  <2> QED
    BY <1>2, <2>1 DEF Selection
<1>3. [Next]_vars => Select \/ (UNCHANGED <<raw, active, response>> /\ (pc' # "select" => pc # "select"))
  BY DEF Next, vars, facts, selected, Recalibrate, NoPartner, ReduceLower, ReduceUpper, GiveUp,
         Model, ExtractLower, ExtractUpper, LoadFails, Release, Assemble, NothingExtracted, Goto
<1> QED
  BY <1>1, <1>2, <1>3

LEMMA SelectedBest ==
  ASSUME TypeOK, Selection
  PROVE  ResponseIsBest
<1> SUFFICES ASSUME pc # "select", active # {}
             PROVE  /\ response # 0
                    /\ \A b \in active \ {response} :
                         LET x == <<Overlap(response), IF response \in InTime THEN 1 ELSE 0, response>>
                             y == <<Overlap(b), IF b \in InTime THEN 1 ELSE 0, b>>
                         IN  \/ x[1] > y[1]
                             \/ x[1] = y[1] /\ x[2] > y[2]
                             \/ x[1] = y[1] /\ x[2] = y[2] /\ x[3] > y[3]
  BY DEF ResponseIsBest
<1>1. Best(response)
  BY ChosenBest DEF Selection, TypeOK
<1>2. response # 0
  BY <1>1, BuildType DEF Best, TypeOK
<1>3. \A b \in active \ {response} :
         \/ Overlap(response) > Overlap(b)
         \/ Overlap(response) = Overlap(b) /\ response \in InTime /\ b \notin InTime
         \/ Overlap(response) = Overlap(b) /\ (response \in InTime <=> b \in InTime) /\ response > b
  BY <1>1 DEF Best
<1> QED
  BY <1>2, <1>3

-----------------------------------------------------------------------------
(* The inference                                                           *)

After == {"source", "psf", "chromatic", "extract", "close", "completed"}

Steps == {"frame", "infer", "solution", "baseline", "extinction", "response", "calibrate",
          "raised"} \union After

\* The accepted solution and the fits agree, and so do the verdicts.
Kept ==
  /\ step \in Steps
  /\ history \in Seq([refined : BOOLEAN, shift : 0..1])
  /\ accepted.pointing = Moved(history) /\ accepted.pointing \in Nat
  /\ accepted.refined \in BOOLEAN
  /\ accepted.refined <=> \E i \in DOMAIN history : history[i].refined
  /\ step \in {"frame", "infer"} => Astrometric \intersect DOMAIN verdicts = {}
  /\ \A k \in Astrometric \intersect DOMAIN verdicts : verdicts[k] = "pass" <=> accepted.refined

\* What has been evaluated, recorded and applied of the extinction.
Model1(m) == m \in ToSet(site) /\ m.complete /\ m.identity = atmosphere.required

Extinct ==
  /\ step \in {"frame", "infer", "solution", "baseline", "extinction"} => evaluated = <<>>
  /\ step \in {"extinction", "response", "calibrate"} \union After =>
       atmosphere.content \in {"absorbed_unknown", "removed_with_model"}
  /\ step \in {"response", "calibrate"} \union After =>
       IF atmosphere.content = "absorbed_unknown" THEN evaluated = <<>>
       ELSE \E m : evaluated = <<m>> /\ Model1(m)
  /\ step \in {"calibrate"} \union After => recorded = evaluated
  /\ step \in After => corrected = evaluated
  /\ step = "extinction" => \E n \in Nat : site \in [1..n -> Rows]

LEMMA MovedAppend ==
  ASSUME NEW h \in Seq([refined : BOOLEAN, shift : 0..1]), NEW x \in [refined : BOOLEAN, shift : 0..1],
         Moved(h) \in Nat
  PROVE  Moved(Append(h, x)) = Moved(h) + x.shift
<1> DEFINE n == Len(h)
           S == {i \in 1..n : h[i].shift = 1}
           g == Append(h, x)
           T == {i \in 1..(n + 1) : g[i].shift = 1}
<1>1. n \in Nat /\ Len(g) = n + 1 /\ g[n + 1] = x /\ (\A i \in 1..n : g[i] = h[i])
      /\ DOMAIN g = 1..(n + 1) /\ DOMAIN h = 1..n
  OBVIOUS
<1>2. Moved(h) = Cardinality(S) /\ Moved(g) = Cardinality(T)
  BY <1>1 DEF Moved
<1>3. IsFiniteSet(S)
  <2>1. IsFiniteSet(1..n) /\ S \in SUBSET (1..n)
    BY <1>1, FS_Interval
  <2> HIDE DEF S, n
  <2> QED
    BY <2>1, FS_Subset
<1>4. CASE x.shift = 1
  <2>1. T = S \union {n + 1} /\ n + 1 \notin S
    BY <1>1, <1>4
  <2> HIDE DEF S, T, g
  <2>2. Cardinality(T) = Cardinality(S) + 1
    BY <1>3, <2>1, FS_AddElement
  <2> QED
    BY <1>2, <1>4, <2>2 DEF g
<1>5. CASE x.shift = 0
  <2>1. T = S
    BY <1>1, <1>5
  <2> HIDE DEF S, T, g
  <2> QED
    BY <1>2, <1>5, <2>1 DEF g
<1> QED
  BY <1>4, <1>5

LEMMA MovedEmpty == Moved(<<>>) = 0
<1>1. {i \in DOMAIN <<>> : <<>>[i].shift = 1} = {}
  OBVIOUS
<1> QED
  BY <1>1, FS_EmptySet DEF Moved

LEMMA InferStep ==
  ASSUME Kept, Infer
  PROVE  Kept'
<1>1. PICK success \in BOOLEAN, steady \in BOOLEAN, found \in BOOLEAN :
        \E shift \in IF success THEN 0..1 ELSE {0} :
          LET state == Solved(success, shift, found)
          IN  /\ success => found
              /\ history' = Append(history, [refined |-> success, shift |-> shift])
              /\ accepted' = IF Retained(success) THEN accepted ELSE state
              /\ step' = IF \/ Retained(success)
                            \/ Converged(state, steady)
                            \/ Len(history') = MaxIterations
                           THEN "solution" ELSE "infer"
  BY DEF Infer
<1>2. PICK shift \in IF success THEN 0..1 ELSE {0} :
          /\ history' = Append(history, [refined |-> success, shift |-> shift])
          /\ accepted' = IF Retained(success) THEN accepted ELSE Solved(success, shift, found)
          /\ step' \in {"solution", "infer"}
  BY <1>1
<1> DEFINE x == [refined |-> success, shift |-> shift]
<1>3. x \in [refined : BOOLEAN, shift : 0..1] /\ x.shift = shift /\ x.refined = success
      /\ shift \in 0..1 /\ (~ success => shift = 0)
  BY <1>2
<1>4. verdicts' = verdicts /\ step = "infer"
  BY DEF Infer
<1>5. /\ history \in Seq([refined : BOOLEAN, shift : 0..1])
      /\ accepted.pointing = Moved(history) /\ accepted.pointing \in Nat
      /\ accepted.refined <=> \E i \in DOMAIN history : history[i].refined
      /\ Astrometric \intersect DOMAIN verdicts = {}
      /\ accepted.refined \in BOOLEAN
  BY <1>4 DEF Kept
<1>6. Moved(history') = Moved(history) + shift
  BY <1>2, <1>3, <1>5, MovedAppend
<1> HIDE DEF x
<1>7. /\ history' \in Seq([refined : BOOLEAN, shift : 0..1])
      /\ (\E i \in DOMAIN history' : history'[i].refined)
           <=> (success \/ \E i \in DOMAIN history : history[i].refined)
  <2>1. history' = Append(history, x)
    BY <1>2 DEF x
  <2>2. DOMAIN history' = DOMAIN history \union {Len(history) + 1}
        /\ history'[Len(history) + 1] = x
        /\ \A i \in DOMAIN history : history'[i] = history[i]
    BY <1>5, <1>3, <2>1
  <2> QED
    BY <1>3, <1>5, <2>1, <2>2
<1>8. /\ accepted'.pointing = accepted.pointing + shift
      /\ accepted'.refined <=> (success \/ accepted.refined)
      /\ accepted'.refined \in BOOLEAN
  <2>1. CASE Retained(success)
    BY <1>2, <1>3, <1>5, <2>1 DEF Retained
  <2>2. CASE ~ Retained(success)
    <3>1. success \/ accepted = NoState
      BY <2>2 DEF Retained
    <3>2. accepted'.pointing = accepted.pointing + shift /\ accepted'.refined = success
      BY <1>2, <2>2 DEF Solved
    <3>3. ~ success => ~ accepted.refined
      BY <3>1 DEF NoState
    <3> QED
      BY <3>2, <3>3
  <2> QED
    BY <2>1, <2>2
<1>9. Astrometric' \intersect DOMAIN verdicts' = {}
  BY <1>4, <1>5 DEF Astrometric
<1> QED
  BY <1>2, <1>3, <1>5, <1>6, <1>7, <1>8, <1>9 DEF Kept, Steps

\* A product that does not tell where the exposure points, or whose verdict says
\* so, leaves the verdicts right.
LEMMA JudgedKept ==
  ASSUME Kept, step \notin {"frame", "infer"}, step' \in Steps \ {"frame", "infer"},
         UNCHANGED inference, NEW k, NEW v, verdicts' = Judged(k, v),
         k \in Astrometric => (v = "pass" <=> accepted.refined)
  PROVE  Kept'
<1>1. accepted' = accepted /\ history' = history
  BY DEF inference
<1>2. DOMAIN verdicts' = DOMAIN verdicts \union {k}
      /\ \A j \in DOMAIN verdicts' : verdicts'[j] = IF j = k THEN v ELSE verdicts[j]
  BY DEF Judged
<1>3. \A j \in Astrometric' \intersect DOMAIN verdicts' : verdicts'[j] = "pass" <=> accepted'.refined
  BY <1>1, <1>2 DEF Kept, Astrometric
<1> QED
  BY <1>1, <1>3 DEF Kept, Moved

LEMMA SameKept ==
  ASSUME Kept, step' \in Steps, step' \in {"frame", "infer"} => step \in {"frame", "infer"},
         UNCHANGED <<inference, verdicts>>
  PROVE  Kept'
BY DEF Kept, inference, Moved, Astrometric

LEMMA KeptStep == Kept /\ [Science]_science => Kept'
<1> SUFFICES ASSUME Kept, [Science]_science PROVE Kept'
  OBVIOUS
<1> USE DEF Steps, After
<1>1. CASE UNCHANGED science
  <2>1. step' = step /\ step \in Steps
    BY <1>1 DEF science, Kept
  <2> QED
    BY <1>1, <2>1, SameKept DEF science
<1>2. CASE StartInference
  <2>1. step' = "infer" /\ verdicts' = [k \in {"initial_astrometry"} |-> "pass"]
        /\ accepted' = accepted /\ history' = history
    BY <1>2 DEF StartInference, inference
  <2>2. Astrometric' \intersect DOMAIN verdicts' = {}
    BY <2>1 DEF Astrometric
  <2> QED
    BY <2>1, <2>2 DEF Kept, Moved
<1>3. CASE Infer
  BY <1>3, InferStep
<1>4. CASE PublishSolution
  <2>1. PICK i \in DOMAIN Solution :
          verdicts' = Judged(Solution[i], IF Solution[i] \in Astrometric /\ ~accepted.refined
                                            THEN "warn" ELSE "pass")
    BY <1>4 DEF PublishSolution
  <2>2. step = "solution" /\ step' \in {"baseline", "solution"} /\ UNCHANGED inference
    BY <1>4 DEF PublishSolution
  <2> DEFINE k == Solution[i]
             v == IF Solution[i] \in Astrometric /\ ~accepted.refined THEN "warn" ELSE "pass"
  <2>3. k \in Astrometric => (v = "pass" <=> accepted.refined)
    OBVIOUS
  <2> HIDE DEF k, v
  <2>4. verdicts' = Judged(k, v)
    BY <2>1 DEF k, v
  <2> QED
    BY <2>2, <2>3, <2>4, JudgedKept
<1>5. CASE \/ SelectBaseline \/ NoExtinction \/ UseConfigured \/ UseNewest \/ ImportModel
           \/ ExtinctionFails \/ Calibrate \/ FitInterval
  <2>1. UNCHANGED <<inference, verdicts>> /\ step \notin {"frame", "infer"}
        /\ step' \in Steps \ {"frame", "infer"}
    BY <1>5 DEF SelectBaseline, NoExtinction, UseConfigured, UseNewest, ImportModel,
                ExtinctionFails, Calibrate, FitInterval, Separated, Evaluate
  <2> QED
    BY <2>1, SameKept
<1>6. CASE PublishResponse
  BY <1>6, JudgedKept DEF PublishResponse, Astrometric
<1>7. CASE LocateSource
  <2>1. \/ verdicts' = Judged("dar_seed_model", "pass") /\ step' = "psf"
        \/ verdicts' = verdicts /\ step' = "close"
    BY <1>7 DEF LocateSource
  <2>2. step = "source" /\ UNCHANGED inference
    BY <1>7 DEF LocateSource
  <2>3. CASE verdicts' = verdicts /\ step' = "close"
    BY <2>2, <2>3, SameKept
  <2>4. CASE verdicts' = Judged("dar_seed_model", "pass") /\ step' = "psf"
    BY <2>2, <2>4, JudgedKept DEF Astrometric
  <2> QED
    BY <2>1, <2>3, <2>4
<1>8. CASE FitChromatic
  <2>1. PICK v : verdicts' = Judged("chromatic_psf_model", v)
    BY <1>8 DEF FitChromatic
  <2> QED
    BY <1>8, <2>1, JudgedKept DEF FitChromatic, Astrometric
<1>9. CASE ExtractSource
  <2>1. PICK v : verdicts' = Judged("point_source_extraction", v)
    BY <1>9 DEF ExtractSource
  <2> QED
    BY <1>9, <2>1, JudgedKept DEF ExtractSource, Astrometric
<1>10. CASE Close
  <2>1. PICK i \in DOMAIN Closing :
          verdicts' = Judged(Closing[i], IF Closing[i] = "exposure_completion_manifest" THEN status ELSE "pass")
    BY <1>10 DEF Close
  <2>2. Closing[i] \notin Astrometric
    BY DEF Closing, Astrometric
  <2>3. PICK v : verdicts' = Judged(Closing[i], v)
    BY <2>1
  <2>4. step = "close" /\ step' \in {"completed", "close"} /\ UNCHANGED inference
    BY <1>10 DEF Close
  <2> QED
    BY <2>2, <2>3, <2>4, JudgedKept
<1> QED
  BY <1>1, <1>2, <1>3, <1>4, <1>5, <1>6, <1>7, <1>8, <1>9, <1>10 DEF Science

-----------------------------------------------------------------------------
(* The extinction                                                          *)

LEMMA NewestCandidate ==
  ASSUME NEW n \in Nat, site \in [1..n -> Rows], Candidates # {}
  PROVE  Max(Candidates) \in Candidates
<1> DEFINE C == Candidates
           P == [i \in 0..n |-> (\E c \in C : c <= i) => \E m \in C : m <= i /\ \A c \in C : c <= i => c <= m]
<1>1. C \subseteq 1..n
  BY DEF Candidates
<1> HIDE DEF C
<1>2. P[0]
  <2>1. 0 \in 0..n /\ ~ (\E c \in C : c <= 0)
    BY <1>1
  <2> QED
    BY <2>1
<1>3. ASSUME NEW i \in 1..n, P[i - 1] PROVE P[i]
  <2>1. i \in 0..n /\ i - 1 \in 0..n
    OBVIOUS
  <2>2. (\E c \in C : c <= i - 1) => \E m \in C : m <= i - 1 /\ \A c \in C : c <= i - 1 => c <= m
    BY <1>3, <2>1
  <2>3. (\E c \in C : c <= i) => \E m \in C : m <= i /\ \A c \in C : c <= i => c <= m
    <3> SUFFICES ASSUME \E c \in C : c <= i
                 PROVE  \E m \in C : m <= i /\ \A c \in C : c <= i => c <= m
      OBVIOUS
    <3>1. CASE i \in C
      BY <1>1, <3>1
    <3>2. CASE i \notin C
      <4>1. ASSUME NEW c \in C, c <= i PROVE c <= i - 1
        <5>1. c \in Int /\ i \in Int /\ c # i
          BY <1>1, <3>2
        <5> QED
          BY <4>1, <5>1
      <4>2. PICK m \in C : m <= i - 1 /\ \A c \in C : c <= i - 1 => c <= m
        BY <2>2, <4>1
      <4>3. m <= i
        BY <1>1, <4>2
      <4> QED
        BY <4>1, <4>2, <4>3
    <3> QED
      BY <3>1, <3>2
  <2> QED
    BY <2>1, <2>3
<1>4. P \in [0..n -> BOOLEAN]
  OBVIOUS
<1>5. P[n]
  <2> HIDE DEF P
  <2>1. n \in 0..n
    OBVIOUS
  <2> QED
    BY <1>2, <1>3, <1>4, <2>1, UpTo
<1>6. \E m \in C : \A c \in C : m >= c
  <2>1. n \in 0..n /\ \A c \in C : c <= n
    BY <1>1
  <2>2. \E m \in C : m <= n /\ \A c \in C : c <= n => c <= m
    BY <1>5, <2>1 DEF C
  <2> QED
    BY <1>1, <2>1, <2>2
<1> QED
  BY <1>6 DEF Max, C

LEMMA ExtinctStep == Extinct /\ [Science]_science => Extinct'
<1> SUFFICES ASSUME Extinct, [Science]_science PROVE Extinct'
  OBVIOUS
<1> USE DEF After
<1>1. CASE UNCHANGED science
  BY <1>1 DEF science, extinction, Extinct, Model1
<1>2. CASE /\ UNCHANGED <<site, atmosphere, extinction>>
           /\ \/ step' = step
              \/ step \in {"frame", "infer", "solution"} /\ step' \in {"infer", "solution", "baseline"}
              \/ step \in After /\ step' \in After
  BY <1>2 DEF extinction, Extinct, Model1
<1>3. CASE SelectBaseline
  <2>1. PICK n \in 0..MaxRows : site' \in [1..n -> Rows]
    BY <1>3 DEF SelectBaseline
  <2>2. n \in Nat
    BY ExposureScienceAssumption
  <2>3. /\ atmosphere'.content \in {"absorbed_unknown", "removed_with_model"}
        /\ evaluated' = evaluated /\ step = "baseline" /\ step' = "extinction"
    BY <1>3 DEF SelectBaseline, extinction
  <2> QED
    BY <2>1, <2>2, <2>3 DEF Extinct
<1>4. CASE NoExtinction
  BY <1>4 DEF NoExtinction, extinction, Extinct
<1>5. CASE Separated /\ step' = "raised" /\ UNCHANGED <<atmosphere, extinction>>
  BY <1>5 DEF Extinct
<1>6. ASSUME NEW m, Separated, Evaluate(m), Model1(m)', UNCHANGED atmosphere PROVE Extinct'
  <2>1. /\ evaluated' = <<m>> /\ step' = "response" /\ atmosphere' = atmosphere
        /\ atmosphere.content = "removed_with_model"
    BY <1>6 DEF Separated, Evaluate
  <2> QED
    BY <1>6, <2>1 DEF Extinct
<1>7. CASE UseConfigured
  <2>1. CASE ~ ConfiguredIsCandidate
    BY <1>5, <1>7, <2>1 DEF UseConfigured
  <2>2. CASE ConfiguredIsCandidate
    <3> DEFINE m == site[atmosphere.row]
    <3>1. Separated /\ Evaluate(m) /\ site' = site /\ atmosphere' = atmosphere
      BY <1>7, <2>2 DEF UseConfigured
    <3>2. Model1(m)
      BY <2>2 DEF ConfiguredIsCandidate, Candidates, Candidate, Model1, ToSet
    <3> HIDE DEF m
    <3>3. m \in ToSet(site') /\ m.complete /\ m.identity = atmosphere'.required
      BY <3>1, <3>2 DEF Model1
    <3> QED
      BY <1>6, <3>1, <3>3 DEF Model1
  <2> QED
    BY <2>1, <2>2
<1>8. CASE UseNewest
  <2> DEFINE m == site[Max(Candidates)]
  <2>1. Separated /\ Evaluate(m) /\ site' = site /\ atmosphere' = atmosphere /\ Candidates # {}
    BY <1>8 DEF UseNewest
  <2>2. Max(Candidates) \in Candidates
    BY <2>1, NewestCandidate DEF Extinct, Separated
  <2>3. Model1(m)
    BY <2>2 DEF Candidates, Candidate, Model1, ToSet
  <2> HIDE DEF m
  <2>4. m \in ToSet(site') /\ m.complete /\ m.identity = atmosphere'.required
    BY <2>1, <2>3 DEF Model1
  <2> QED
    BY <1>6, <2>1, <2>4 DEF Model1
<1>9. CASE ImportModel
  <2>1. CASE Imported.identity # atmosphere.required
    BY <1>5, <1>9, <2>1 DEF ImportModel
  <2>2. CASE Imported.identity = atmosphere.required
    <3>1. /\ Separated /\ Evaluate(Imported) /\ atmosphere' = atmosphere
          /\ site' = IF Imported \in ToSet(site) THEN site ELSE Append(site, Imported)
      BY <1>9, <2>2 DEF ImportModel
    <3>2. PICK n \in Nat : site \in [1..n -> Rows]
      BY <3>1 DEF Separated, Extinct
    <3> DEFINE m == Imported
    <3>3. m.complete
      BY DEF Imported
    <3>4. m \in ToSet(site')
      <4>1. CASE m \in ToSet(site)
        BY <3>1, <4>1
      <4>2. CASE m \notin ToSet(site)
        <5> HIDE DEF m
        <5>1. site' = Append(site, m) /\ site \in Seq(Rows) /\ Len(site) \in Nat
          BY <3>1, <3>2, <4>2 DEF m
        <5>2. Len(site) + 1 \in DOMAIN site' /\ site'[Len(site) + 1] = m
          BY <5>1
        <5> QED
          BY <5>2 DEF ToSet
      <4> QED
        BY <4>1, <4>2
    <3>5. m.identity = atmosphere'.required
      BY <2>2, <3>1
    <3> HIDE DEF m
    <3>6. Separated /\ Evaluate(m) /\ atmosphere' = atmosphere
      BY <3>1 DEF m
    <3>7. m.complete
      BY <3>3
    <3> QED
      BY <1>6, <3>4, <3>5, <3>6, <3>7 DEF Model1
  <2> QED
    BY <2>1, <2>2
<1>10. CASE ExtinctionFails
  BY <1>5, <1>10 DEF ExtinctionFails
<1>11. CASE PublishResponse
  BY <1>11 DEF PublishResponse, Extinct, Model1
<1>12. CASE Calibrate
  <2>1. CASE (atmosphere.content = "removed_with_model") = (evaluated # <<>>)
    BY <1>12, <2>1 DEF Calibrate, Extinct, Model1
  <2>2. CASE ~ ((atmosphere.content = "removed_with_model") = (evaluated # <<>>))
    BY <1>12, <2>2 DEF Calibrate, Extinct
  <2> QED
    BY <2>1, <2>2
<1>13. CASE StartInference \/ Infer \/ PublishSolution
  <2>1. UNCHANGED <<site, atmosphere, extinction>>
    BY <1>13 DEF StartInference, Infer, PublishSolution
  <2>2. step \in {"frame", "infer", "solution"} /\ step' \in {"infer", "solution", "baseline"}
    BY <1>13 DEF StartInference, Infer, PublishSolution
  <2> QED
    BY <1>2, <2>1, <2>2
<1>14. CASE LocateSource \/ FitInterval \/ FitChromatic \/ ExtractSource \/ Close
  BY <1>2, <1>14 DEF LocateSource, FitInterval, FitChromatic, ExtractSource, Close
<1> QED
  BY <1>1, <1>3, <1>4, <1>7, <1>8, <1>9, <1>10, <1>11, <1>12, <1>13, <1>14 DEF Science

LEMMA ScienceInitially == ScienceInit => Kept /\ Extinct
<1> SUFFICES ASSUME ScienceInit PROVE Kept /\ Extinct
  OBVIOUS
<1>1. Kept
  <2>1. Astrometric \intersect DOMAIN verdicts = {} /\ history = <<>> /\ step = "frame"
        /\ accepted = NoState
    BY DEF ScienceInit, Astrometric
  <2> QED
    BY <2>1, MovedEmpty DEF Kept, NoState, Steps, After
<1>2. Extinct
  BY DEF ScienceInit, Extinct, After
<1> QED
  BY <1>1, <1>2

-----------------------------------------------------------------------------
(* The theorems                                                            *)

\* The invariant that the others follow from.
THEOREM Invariance == Spec => []IInv
<1>1. IInv /\ [Next]_vars => IInv'
  BY SelectStep, RecalibrateStep, NoPartnerStep, ReduceLowerStep, ReduceUpperStep, GiveUpStep, ModelStep, ExtractLowerStep, ExtractUpperStep, LoadFailsStep, ReleaseStep, AssembleStep, NothingExtractedStep, StutterStep
     DEF Next
<1> QED
  BY InitIInv, <1>1, PTL DEF Spec

\* Type correctness of an ExposureTask.
THEOREM TypeCorrect == Spec => []TypeOK
<1>1. IInv => TypeOK
  BY DEF IInv
<1> QED
  BY <1>1, Invariance, PTL

\* No amplifier disappears, whatever fails, for any set of CCDs.
THEOREM AccountedCorrect == Spec => []Accounted
<1>1. IInv => Accounted
  BY DEF IInv
<1> QED
  BY <1>1, Invariance, PTL

\* A pass stands for every amplifier that was read out.
THEOREM PassMeansWholeCorrect == Spec => []PassMeansWhole
<1>1. IInv => PassMeansWhole
  <2> SUFFICES ASSUME IInv, status = "pass" PROVE PassMeansWhole!2
    BY DEF PassMeansWhole
  <2>1. pc = "done" /\ failures = {} /\ exclusions = {}
    BY DEF IInv, Verdict
  <2> QED
    BY <2>1 DEF IInv, Accounted, Carried
<1> QED
  BY <1>1, Invariance, PTL

\* Only the CCD at hand has detector states in memory.
THEOREM ReleasedPromptlyCorrect == Spec => []ReleasedPromptly
<1>1. IInv => ReleasedPromptly
  BY DEF IInv
<1> QED
  BY <1>1, Invariance, PTL

\* What is extracted has a model of its own CCD.
THEOREM SpectraHaveModelsCorrect == Spec => []SpectraHaveModels
<1>1. IInv => SpectraHaveModels
  BY DEF IInv
<1> QED
  BY <1>1, Invariance, PTL

\* The best build is selected, whatever builds there are.
THEOREM ResponseIsBestCorrect == Spec => []ResponseIsBest
<1>1. Init => Selection
  BY DEF Init, Selection
<1>2. TypeOK /\ Selection => ResponseIsBest
  BY SelectedBest
<1> QED
  BY <1>1, <1>2, SelectionStep, TypeCorrect, PTL DEF Spec

\* A whole exposure keeps what the reduction keeps: the rest of run changes
\* nothing of it.
THEOREM ExposureReduces == ExposureSpec => Spec
<1>1. ExposureInit => Init
  BY DEF ExposureInit
<1>2. [ExposureNext]_<<vars, science>> => [Next]_vars
  BY DEF ExposureNext
<1> QED
  BY <1>1, <1>2, PTL DEF ExposureSpec, Spec

\* What the rest of run relies on.
THEOREM ScienceInvariance == ExposureSpec => [](Kept /\ Extinct)
<1>1. ExposureInit => Kept /\ Extinct
  BY ScienceInitially DEF ExposureInit
<1>2. Kept /\ Extinct /\ [ExposureNext]_<<vars, science>> => Kept' /\ Extinct'
  <2>1. [ExposureNext]_<<vars, science>> => [Science]_science
    BY DEF ExposureNext
  <2> QED
    BY <2>1, KeptStep, ExtinctStep
<1> QED
  BY <1>1, <1>2, PTL DEF ExposureSpec

\* However many iterations there are, a refinement is not lost to one that fails.
THEOREM RefinementKeptCorrect == ExposureSpec => []RefinementKept
<1>1. Kept => RefinementKept
  BY DEF Kept, RefinementKept
<1> QED
  BY <1>1, ScienceInvariance, PTL

\* Whatever models the registry has, the atmosphere is taken out once and as
\* it was put in.
THEOREM ExtinctionOnceCorrect == ExposureSpec => []ExtinctionOnce
<1>1. Extinct => ExtinctionOnce
  <2> SUFFICES ASSUME Extinct, step \in After
               PROVE  /\ recorded = corrected
                      /\ IF atmosphere.content = "absorbed_unknown"
                           THEN corrected = <<>>
                           ELSE /\ corrected # <<>>
                                /\ corrected[1].complete /\ corrected[1].identity = atmosphere.required
                                /\ corrected[1] \in ToSet(site)
    BY DEF ExtinctionOnce, After
  <2>1. recorded = corrected /\ corrected = evaluated
    BY DEF Extinct
  <2>2. CASE atmosphere.content = "absorbed_unknown"
    BY <2>1, <2>2 DEF Extinct
  <2>3. CASE atmosphere.content # "absorbed_unknown"
    <3>1. PICK m : evaluated = <<m>> /\ Model1(m)
      BY <2>3 DEF Extinct
    <3>2. corrected # <<>> /\ corrected[1] = m
      BY <2>1, <3>1
    <3> QED
      BY <2>1, <2>3, <3>1, <3>2 DEF Model1
  <2> QED
    BY <2>2, <2>3, <2>1
<1> QED
  BY <1>1, ScienceInvariance, PTL
===============================================================================
