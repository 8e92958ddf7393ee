-------------------------- MODULE AnalysisStudyProofs --------------------------
(***************************************************************************)
(* What an AnalysisStudy is charged, its summary and its completion, for    *)
(* any processes, values, sizes and policy.                                 *)
(***************************************************************************)
EXTENDS AnalysisStudy, FiniteSetTheorems, TLAPS

Appending == {p \in Process : pc[p] = "append"}

\* The bound on validations counts those being recorded.
Validating == made + Cardinality(Appending) <= MaxValidations

\* A value is recorded before it is counted.
Counting == \A p \in Process : pc[p] = "count" => value[p] \in recorded

\* Summaries hold validations made; without an overlap, the one that is
\* being extended is the study's own.
Summaries ==
  /\ summary \subseteq 1..made /\ \A p \in Process : read[p] \subseteq 1..made
  /\ ~overlap => \A p, q \in Appending : p = q
  /\ ~overlap /\ state = "active" => \A p \in Appending : read[p] = summary

\* During a completion and after it, only late values are under way, and what
\* is recorded and stored is late or about to be removed.
Completion ==
  /\ Completing \/ state = "complete" => UnderWay \subseteq late
  /\ Policy = "until_study_completion" =>
       /\ \A p \in Process : pc[p] = "remove" => recorded \intersect stored \subseteq todo[p] \union late
       /\ state = "complete" => recorded \intersect stored \subseteq late

IInv ==
  /\ TypeOK
  /\ Validating
  /\ Counting
  /\ Summaries
  /\ Completion
  /\ ValidationsKept

-----------------------------------------------------------------------------
(* The bound on validations                                                *)

LEMMA AppendingFinite == IsFiniteSet(Appending) /\ Cardinality(Appending) \in Nat
<1>1. IsFiniteSet(Appending)
  BY StudyAssumption, FS_Subset DEF Appending
<1> QED
  BY <1>1, FS_CardinalityType

LEMMA AppendingShrinks ==
  ASSUME TypeOK, Validating, Appending' \subseteq Appending, made' = made
  PROVE  Validating'
<1>1. Cardinality(Appending') <= Cardinality(Appending) /\ Cardinality(Appending') \in Nat
  BY AppendingFinite, FS_Subset, FS_CardinalityType
<1> QED
  BY <1>1, AppendingFinite, StudyAssumption DEF TypeOK, Validating

-----------------------------------------------------------------------------
LEMMA InitIInv == Init => IInv
<1> SUFFICES ASSUME Init PROVE IInv
  OBVIOUS
<1>1. (CHOOSE v \in Value : TRUE) \in Value
  BY StudyAssumption
<1>2. /\ value \in [Process -> Value] /\ pc \in [Process -> Steps] /\ made \in 0..MaxValidations
      /\ read \in [Process -> SUBSET (1..MaxValidations)] /\ todo \in [Process -> SUBSET Value]
      /\ calls \in 0..MaxCalls /\ crashes \in 0..MaxCrashes
  BY <1>1, StudyAssumption DEF Init, Steps
<1>3. TypeOK
  BY <1>2 DEF Init, TypeOK
<1>4. Appending = {} /\ UnderWay = {} /\ 1..made = {}
  BY DEF Init, Appending, UnderWay
<1>5. Validating
  BY <1>4, FS_EmptySet, StudyAssumption DEF Init, Validating
<1>6. Counting /\ Summaries /\ Completion /\ ValidationsKept
  BY <1>4 DEF Init, Counting, Summaries, Completion, Completing, ValidationsKept
<1> QED
  BY <1>3, <1>5, <1>6 DEF IInv

-----------------------------------------------------------------------------
(* The steps of a process that is not recording a validation                *)

\* Such a step leaves the validations alone.
LEMMA KeepsSummaries ==
  ASSUME IInv, NEW p \in Process, NEW l \in Steps \ {"append"}, Goto(p, l),
         UNCHANGED <<state, summary, made, overlap, read>>
  PROVE  Validating' /\ Summaries' /\ ValidationsKept'
<1>1. Appending' \subseteq Appending
  BY DEF IInv, TypeOK, Appending, Goto
<1>2. Validating'
  BY <1>1, AppendingShrinks DEF IInv
<1>3. Summaries'
  BY <1>1 DEF IInv, Summaries
<1>4. ValidationsKept'
  BY DEF IInv, ValidationsKept
<1> QED
  BY <1>2, <1>3, <1>4

\* One that goes on with its value brings nothing under way.
LEMMA KeepsUnderWay ==
  ASSUME TypeOK, NEW p \in Process, NEW l \in Steps, Goto(p, l), value' = value,
         pc[p] \in {"budget", "lookup", "write", "register", "check", "purge", "retire",
                    "look", "insert", "count"}
           \/ l \in {"idle", "append", "list", "remove"},
         l = "remove" => pc[p] = "remove"
  PROVE  UnderWay' \subseteq UnderWay /\ (Completing' => Completing)
         /\ \A q \in Process : pc'[q] = "remove" => pc[q] = "remove"
BY DEF TypeOK, Goto, UnderWay, Completing

LEMMA CheckBudgetStep ==
  ASSUME IInv, NEW p \in Process, CheckBudget(p)
  PROVE  IInv'
<1> USE DEF CheckBudget, study, files, bounds, history
<1>1. pc[p] = "budget" /\ value[p] \in Value /\ TypeOK
  BY DEF IInv, TypeOK
<1>2. PICK l \in {"idle", "lookup"} : Goto(p, l)
  BY <1>1
<1>3. l \in Steps \ {"append"} /\ l # "remove"
  BY DEF Steps
<1>4. Validating' /\ Summaries' /\ ValidationsKept'
  BY <1>2, <1>3, KeepsSummaries
<1>5. UnderWay' \subseteq UnderWay /\ (Completing' => Completing)
      /\ \A q \in Process : pc'[q] = "remove" => pc[q] = "remove"
  BY <1>1, <1>2, <1>3, KeepsUnderWay
<1>6. value[p] \in UnderWay
  BY <1>1 DEF UnderWay
<1>7. TypeOK'
  BY <1>1, <1>2, <1>3 DEF TypeOK, Goto, Counting, IInv
<1>8. Counting'
  BY <1>1, <1>2 DEF IInv, TypeOK, Counting, Goto
<1>9. Completion'
  BY <1>5, <1>6 DEF IInv, Completion
<1> QED
  BY <1>4, <1>7, <1>8, <1>9 DEF IInv

LEMMA LookUpStep ==
  ASSUME IInv, NEW p \in Process, LookUp(p)
  PROVE  IInv'
<1> USE DEF LookUp, study, files, bounds, history
<1>1. pc[p] = "lookup" /\ value[p] \in Value /\ TypeOK
  BY DEF IInv, TypeOK
<1>2. PICK l \in {"check", "write"} : Goto(p, l)
  BY <1>1
<1>3. l \in Steps \ {"append"} /\ l # "remove"
  BY DEF Steps
<1>4. Validating' /\ Summaries' /\ ValidationsKept'
  BY <1>2, <1>3, KeepsSummaries
<1>5. UnderWay' \subseteq UnderWay /\ (Completing' => Completing)
      /\ \A q \in Process : pc'[q] = "remove" => pc[q] = "remove"
  BY <1>1, <1>2, <1>3, KeepsUnderWay
<1>6. value[p] \in UnderWay
  BY <1>1 DEF UnderWay
<1>7. TypeOK'
  BY <1>1, <1>2, <1>3 DEF TypeOK, Goto, Counting, IInv
<1>8. Counting'
  BY <1>1, <1>2 DEF IInv, TypeOK, Counting, Goto
<1>9. Completion'
  BY <1>5, <1>6 DEF IInv, Completion
<1> QED
  BY <1>4, <1>7, <1>8, <1>9 DEF IInv

LEMMA WritePayloadStep ==
  ASSUME IInv, NEW p \in Process, WritePayload(p)
  PROVE  IInv'
<1> USE DEF WritePayload, study, files, bounds, history
<1>1. pc[p] = "write" /\ value[p] \in Value /\ TypeOK
  BY DEF IInv, TypeOK
<1>2. PICK l \in {"register"} : Goto(p, l)
  BY <1>1
<1>3. l \in Steps \ {"append"} /\ l # "remove"
  BY DEF Steps
<1>4. Validating' /\ Summaries' /\ ValidationsKept'
  BY <1>2, <1>3, KeepsSummaries
<1>5. UnderWay' \subseteq UnderWay /\ (Completing' => Completing)
      /\ \A q \in Process : pc'[q] = "remove" => pc[q] = "remove"
  BY <1>1, <1>2, <1>3, KeepsUnderWay
<1>6. value[p] \in UnderWay
  BY <1>1 DEF UnderWay
<1>7. TypeOK'
  BY <1>1, <1>2, <1>3 DEF TypeOK, Goto, Counting, IInv
<1>8. Counting'
  BY <1>1, <1>2 DEF IInv, TypeOK, Counting, Goto
<1>9. Completion'
  <2>1. Completing \/ state = "complete" => value[p] \in late
    BY <1>6 DEF IInv, Completion
  <2>2. (\E q \in Process : pc'[q] = "remove") => Completing
    BY <1>5 DEF Completing
  <2>3. stored' = stored \union {value[p]} /\ UNCHANGED <<state, recorded, todo, late>>
    OBVIOUS
  <2> QED
    BY <1>5, <2>1, <2>2, <2>3 DEF IInv, Completion
<1> QED
  BY <1>4, <1>7, <1>8, <1>9 DEF IInv

LEMMA RegisterStep ==
  ASSUME IInv, NEW p \in Process, Register(p)
  PROVE  IInv'
<1> USE DEF Register, study, files, bounds, history
<1>1. pc[p] = "register" /\ value[p] \in Value /\ TypeOK
  BY DEF IInv, TypeOK
<1>2. PICK l \in {"check"} : Goto(p, l)
  BY <1>1
<1>3. l \in Steps \ {"append"} /\ l # "remove"
  BY DEF Steps
<1>4. Validating' /\ Summaries' /\ ValidationsKept'
  BY <1>2, <1>3, KeepsSummaries
<1>5. UnderWay' \subseteq UnderWay /\ (Completing' => Completing)
      /\ \A q \in Process : pc'[q] = "remove" => pc[q] = "remove"
  BY <1>1, <1>2, <1>3, KeepsUnderWay
<1>6. value[p] \in UnderWay
  BY <1>1 DEF UnderWay
<1>7. TypeOK'
  BY <1>1, <1>2, <1>3 DEF TypeOK, Goto, Counting, IInv
<1>8. Counting'
  BY <1>1, <1>2 DEF IInv, TypeOK, Counting, Goto
<1>9. Completion'
  BY <1>5, <1>6 DEF IInv, Completion
<1> QED
  BY <1>4, <1>7, <1>8, <1>9 DEF IInv

LEMMA CheckAgainStep ==
  ASSUME IInv, NEW p \in Process, CheckAgain(p)
  PROVE  IInv'
<1> USE DEF CheckAgain, study, files, bounds, history
<1>1. pc[p] = "check" /\ value[p] \in Value /\ TypeOK
  BY DEF IInv, TypeOK
<1>2. PICK l \in {"look", "purge"} : Goto(p, l)
  BY <1>1
<1>3. l \in Steps \ {"append"} /\ l # "remove"
  BY DEF Steps
<1>4. Validating' /\ Summaries' /\ ValidationsKept'
  BY <1>2, <1>3, KeepsSummaries
<1>5. UnderWay' \subseteq UnderWay /\ (Completing' => Completing)
      /\ \A q \in Process : pc'[q] = "remove" => pc[q] = "remove"
  BY <1>1, <1>2, <1>3, KeepsUnderWay
<1>6. value[p] \in UnderWay
  BY <1>1 DEF UnderWay
<1>7. TypeOK'
  BY <1>1, <1>2, <1>3 DEF TypeOK, Goto, Counting, IInv
<1>8. Counting'
  BY <1>1, <1>2 DEF IInv, TypeOK, Counting, Goto
<1>9. Completion'
  BY <1>5, <1>6 DEF IInv, Completion
<1> QED
  BY <1>4, <1>7, <1>8, <1>9 DEF IInv

LEMMA PurgeStep ==
  ASSUME IInv, NEW p \in Process, Purge(p)
  PROVE  IInv'
<1> USE DEF Purge, study, files, bounds, history
<1>1. pc[p] = "purge" /\ value[p] \in Value /\ TypeOK
  BY DEF IInv, TypeOK
<1>2. PICK l \in {"retire"} : Goto(p, l)
  BY <1>1
<1>3. l \in Steps \ {"append"} /\ l # "remove"
  BY DEF Steps
<1>4. Validating' /\ Summaries' /\ ValidationsKept'
  BY <1>2, <1>3, KeepsSummaries
<1>5. UnderWay' \subseteq UnderWay /\ (Completing' => Completing)
      /\ \A q \in Process : pc'[q] = "remove" => pc[q] = "remove"
  BY <1>1, <1>2, <1>3, KeepsUnderWay
<1>6. value[p] \in UnderWay
  BY <1>1 DEF UnderWay
<1>7. TypeOK'
  BY <1>1, <1>2, <1>3 DEF TypeOK, Goto, Counting, IInv
<1>8. Counting'
  BY <1>1, <1>2 DEF IInv, TypeOK, Counting, Goto
<1>9. Completion'
  BY <1>5, <1>6 DEF IInv, Completion
<1> QED
  BY <1>4, <1>7, <1>8, <1>9 DEF IInv

LEMMA RetireStep ==
  ASSUME IInv, NEW p \in Process, Retire(p)
  PROVE  IInv'
<1> USE DEF Retire, study, files, bounds, history
<1>1. pc[p] = "retire" /\ value[p] \in Value /\ TypeOK
  BY DEF IInv, TypeOK
<1>2. PICK l \in {"idle"} : Goto(p, l)
  BY <1>1
<1>3. l \in Steps \ {"append"} /\ l # "remove"
  BY DEF Steps
<1>4. Validating' /\ Summaries' /\ ValidationsKept'
  BY <1>2, <1>3, KeepsSummaries
<1>5. UnderWay' \subseteq UnderWay /\ (Completing' => Completing)
      /\ \A q \in Process : pc'[q] = "remove" => pc[q] = "remove"
  BY <1>1, <1>2, <1>3, KeepsUnderWay
<1>6. value[p] \in UnderWay
  BY <1>1 DEF UnderWay
<1>7. TypeOK'
  BY <1>1, <1>2, <1>3 DEF TypeOK, Goto, Counting, IInv
<1>8. Counting'
  BY <1>1, <1>2 DEF IInv, TypeOK, Counting, Goto
<1>9. Completion'
  BY <1>5, <1>6 DEF IInv, Completion
<1> QED
  BY <1>4, <1>7, <1>8, <1>9 DEF IInv

LEMMA LookForRowStep ==
  ASSUME IInv, NEW p \in Process, LookForRow(p)
  PROVE  IInv'
<1> USE DEF LookForRow, study, files, bounds, history
<1>1. pc[p] = "look" /\ value[p] \in Value /\ TypeOK
  BY DEF IInv, TypeOK
<1>2. PICK l \in {"idle", "insert"} : Goto(p, l)
  BY <1>1
<1>3. l \in Steps \ {"append"} /\ l # "remove"
  BY DEF Steps
<1>4. Validating' /\ Summaries' /\ ValidationsKept'
  BY <1>2, <1>3, KeepsSummaries
<1>5. UnderWay' \subseteq UnderWay /\ (Completing' => Completing)
      /\ \A q \in Process : pc'[q] = "remove" => pc[q] = "remove"
  BY <1>1, <1>2, <1>3, KeepsUnderWay
<1>6. value[p] \in UnderWay
  BY <1>1 DEF UnderWay
<1>7. TypeOK'
  BY <1>1, <1>2, <1>3 DEF TypeOK, Goto, Counting, IInv
<1>8. Counting'
  BY <1>1, <1>2 DEF IInv, TypeOK, Counting, Goto
<1>9. Completion'
  BY <1>5, <1>6 DEF IInv, Completion
<1> QED
  BY <1>4, <1>7, <1>8, <1>9 DEF IInv

LEMMA InsertRowStep ==
  ASSUME IInv, NEW p \in Process, InsertRow(p)
  PROVE  IInv'
<1> USE DEF InsertRow, study, files, bounds, history
<1>1. pc[p] = "insert" /\ value[p] \in Value /\ TypeOK
  BY DEF IInv, TypeOK
<1>2. PICK l \in {"idle", "count"} : Goto(p, l)
  BY <1>1
<1>3. l \in Steps \ {"append"} /\ l # "remove"
  BY DEF Steps
<1>4. Validating' /\ Summaries' /\ ValidationsKept'
  BY <1>2, <1>3, KeepsSummaries
<1>5. UnderWay' \subseteq UnderWay /\ (Completing' => Completing)
      /\ \A q \in Process : pc'[q] = "remove" => pc[q] = "remove"
  BY <1>1, <1>2, <1>3, KeepsUnderWay
<1>6. value[p] \in UnderWay
  BY <1>1 DEF UnderWay
<1>7. TypeOK'
  BY <1>1, <1>2, <1>3 DEF TypeOK, Goto, Counting, IInv
<1>8. Counting'
  <2>1. recorded' = recorded \union {value[p]} /\ value' = value
    OBVIOUS
  <2>2. \A q \in Process \ {p} : pc'[q] = pc[q]
    BY <1>1, <1>2 DEF TypeOK, Goto
  <2> QED
    BY <2>1, <2>2 DEF IInv, Counting
<1>9. Completion'
  <2>1. Completing \/ state = "complete" => value[p] \in late
    BY <1>6 DEF IInv, Completion
  <2>2. (\E q \in Process : pc'[q] = "remove") => Completing
    BY <1>5 DEF Completing
  <2>3. recorded' = recorded \union {value[p]} /\ UNCHANGED <<state, stored, todo, late>>
    OBVIOUS
  <2> QED
    BY <1>5, <2>1, <2>2, <2>3 DEF IInv, Completion
<1> QED
  BY <1>4, <1>7, <1>8, <1>9 DEF IInv

LEMMA CountStep ==
  ASSUME IInv, NEW p \in Process, Count(p)
  PROVE  IInv'
<1> USE DEF Count, study, files, bounds, history
<1>1. pc[p] = "count" /\ value[p] \in Value /\ TypeOK
  BY DEF IInv, TypeOK
<1>2. PICK l \in {"idle"} : Goto(p, l)
  BY <1>1
<1>3. l \in Steps \ {"append"} /\ l # "remove"
  BY DEF Steps
<1>4. Validating' /\ Summaries' /\ ValidationsKept'
  BY <1>2, <1>3, KeepsSummaries
<1>5. UnderWay' \subseteq UnderWay /\ (Completing' => Completing)
      /\ \A q \in Process : pc'[q] = "remove" => pc[q] = "remove"
  BY <1>1, <1>2, <1>3, KeepsUnderWay
<1>6. value[p] \in UnderWay
  BY <1>1 DEF UnderWay
<1>7. TypeOK'
  BY <1>1, <1>2, <1>3, StudyAssumption DEF TypeOK, Goto, Counting, IInv
<1>8. Counting'
  BY <1>1, <1>2 DEF IInv, TypeOK, Counting, Goto
<1>9. Completion'
  BY <1>5, <1>6 DEF IInv, Completion
<1> QED
  BY <1>4, <1>7, <1>8, <1>9 DEF IInv

-----------------------------------------------------------------------------
(* Calls begin                                                             *)

LEMMA StartStep ==
  ASSUME IInv, NEW p \in Process, NEW v \in Value, Start(p, v)
  PROVE  IInv'
<1>1. /\ pc[p] = "idle" /\ calls < MaxCalls /\ state = "active" /\ calls' = calls + 1
      /\ value' = [value EXCEPT ![p] = v] /\ Goto(p, "budget")
      /\ late' = IF Completing THEN late \union {v} ELSE late
      /\ UNCHANGED <<state, used, recorded, summary, registry, stored, read, todo, crashes, made, overlap, uncounted>>
  BY DEF Start, study, files
<1>2. TypeOK /\ "budget" \in Steps \ {"append"}
  BY DEF IInv, Steps
<1>3. Validating' /\ Summaries' /\ ValidationsKept'
  BY <1>1, <1>2, KeepsSummaries
<1>4. \A q \in Process :
        /\ pc'[q] = IF q = p THEN "budget" ELSE pc[q]
        /\ value'[q] = IF q = p THEN v ELSE value[q]
  BY <1>1, <1>2 DEF TypeOK, Goto
<1>5. TypeOK'
  <2>1. calls' \in 0..MaxCalls
    BY <1>1, <1>2, StudyAssumption DEF TypeOK
  <2>2. late' \subseteq Value
    BY <1>1, <1>2 DEF TypeOK
  <2> QED
    BY <1>1, <1>2, <2>1, <2>2 DEF TypeOK, Goto
<1>6. Counting'
  BY <1>1, <1>4 DEF IInv, Counting
<1>7. Completion'
  <2>1. UnderWay' \subseteq UnderWay \union {v}
    BY <1>4 DEF UnderWay
  <2>2. Completing' = Completing /\ \A q \in Process : pc'[q] = "remove" => pc[q] = "remove"
    BY <1>1, <1>4 DEF Completing
  <2>3. late \subseteq late' /\ (Completing => v \in late') /\ state' # "complete"
    BY <1>1
  <2>4. Completing => UnderWay \subseteq late
    BY DEF IInv, Completion
  <2>5. Completing' \/ state' = "complete" => UnderWay' \subseteq late'
    BY <2>1, <2>2, <2>3, <2>4
  <2> QED
    BY <1>1, <2>2, <2>3, <2>5 DEF IInv, Completion
<1> QED
  BY <1>3, <1>5, <1>6, <1>7 DEF IInv

LEMMA ReadSummaryStep ==
  ASSUME IInv, NEW p \in Process, ReadSummary(p)
  PROVE  IInv'
<1>1. /\ pc[p] = "idle" /\ made + Cardinality(Appending) < MaxValidations
      /\ read' = [read EXCEPT ![p] = summary]
      /\ overlap' = (overlap \/ \E q \in Process : pc[q] = "append")
      /\ Goto(p, "append")
      /\ UNCHANGED <<state, used, recorded, summary, registry, stored, value, todo, calls, crashes, made, late, uncounted>>
  BY DEF ReadSummary, Appending, study, files, bounds
<1>2. TypeOK /\ "append" \in Steps
  BY DEF IInv, Steps
<1>3. \A q \in Process :
        /\ pc'[q] = IF q = p THEN "append" ELSE pc[q]
        /\ read'[q] = IF q = p THEN summary ELSE read[q]
  BY <1>1, <1>2 DEF TypeOK, Goto
<1>4. Appending' = Appending \union {p} /\ p \notin Appending
  BY <1>1, <1>3 DEF Appending
<1>5. Validating'
  <2>1. Cardinality(Appending') = Cardinality(Appending) + 1
    BY <1>4, AppendingFinite, FS_AddElement
  <2> QED
    BY <1>1, <1>2, <2>1, AppendingFinite, StudyAssumption DEF TypeOK, Validating
<1>6. 1..made \subseteq 1..MaxValidations
  BY <1>2, StudyAssumption DEF TypeOK
<1>7. TypeOK'
  <2>1. overlap' \in BOOLEAN
    BY <1>1
  <2>2. read' \in [Process -> SUBSET (1..MaxValidations)]
    BY <1>1, <1>2, <1>6 DEF TypeOK
  <2> QED
    BY <1>1, <1>2, <2>1, <2>2 DEF TypeOK, Goto
<1>8. Counting'
  BY <1>1, <1>3 DEF IInv, Counting
<1>9. Summaries'
  <2>1. summary' \subseteq 1..made' /\ \A q \in Process : read'[q] \subseteq 1..made'
    BY <1>1, <1>3 DEF IInv, Summaries
  <2>2. ~overlap' => Appending' = {p} /\ ~overlap
    BY <1>1, <1>4 DEF Appending
  <2> QED
    BY <1>1, <1>3, <2>1, <2>2 DEF Summaries
<1>10. Completion'
  <2>1. UnderWay' \subseteq UnderWay /\ (Completing' => Completing)
        /\ \A q \in Process : pc'[q] = "remove" => pc[q] = "remove"
    BY <1>1, <1>2, KeepsUnderWay
  <2> QED
    BY <1>1, <2>1 DEF IInv, Completion
<1>11. ValidationsKept'
  BY <1>1 DEF IInv, ValidationsKept
<1> QED
  BY <1>5, <1>7, <1>8, <1>9, <1>10, <1>11 DEF IInv

LEMMA WriteSummaryStep ==
  ASSUME IInv, NEW p \in Process, WriteSummary(p)
  PROVE  IInv'
<1>1. /\ pc[p] = "append" /\ made' = made + 1 /\ summary' = read[p] \union {made + 1}
      /\ Goto(p, "idle")
      /\ UNCHANGED <<state, used, recorded, registry, stored, value, read, todo, calls, crashes, overlap, late, uncounted>>
  BY DEF WriteSummary, Extended, files, bounds
<1>2. TypeOK /\ "idle" \in Steps /\ made \in Nat /\ MaxValidations \in Nat
  BY StudyAssumption DEF IInv, TypeOK, Steps
<1>3. \A q \in Process : pc'[q] = IF q = p THEN "idle" ELSE pc[q]
  BY <1>1, <1>2 DEF TypeOK, Goto
<1>4. Appending' = Appending \ {p} /\ p \in Appending
  BY <1>1, <1>3 DEF Appending
<1>5. Validating' /\ made' \in 0..MaxValidations
  <2>1. Cardinality(Appending') = Cardinality(Appending) - 1 /\ IsFiniteSet(Appending')
    BY <1>4, AppendingFinite, FS_RemoveElement
  <2>2. Cardinality(Appending') \in Nat
    BY <2>1, FS_CardinalityType
  <2> QED
    BY <1>1, <1>2, <2>1, <2>2, AppendingFinite DEF IInv, Validating
<1>6. 1..made' = 1..made \union {made'} /\ 1..made \subseteq 1..made'
  BY <1>1, <1>2
<1>7. summary' \subseteq 1..made' /\ \A q \in Process : read'[q] \subseteq 1..made'
  BY <1>1, <1>6 DEF IInv, Summaries
<1>8. TypeOK'
  BY <1>1, <1>2, <1>5, <1>7 DEF TypeOK, Goto
<1>9. Counting'
  BY <1>1, <1>3 DEF IInv, Counting
<1>10. ~overlap => Appending' = {}
  BY <1>4 DEF IInv, Summaries
<1>11. Summaries'
  BY <1>1, <1>7, <1>10 DEF Summaries
<1>12. Completion'
  <2>1. UnderWay' \subseteq UnderWay /\ (Completing' => Completing)
        /\ \A q \in Process : pc'[q] = "remove" => pc[q] = "remove"
    BY <1>1, <1>2, KeepsUnderWay
  <2> QED
    BY <1>1, <2>1 DEF IInv, Completion
<1>13. ValidationsKept'
  <2> SUFFICES ASSUME ~overlap, state = "active" PROVE summary' = 1..made'
    BY <1>1 DEF ValidationsKept
  <2>1. read[p] = summary /\ summary = 1..made
    BY <1>4 DEF IInv, Summaries, ValidationsKept
  <2> QED
    BY <1>1, <1>6, <2>1
<1> QED
  BY <1>5, <1>8, <1>9, <1>11, <1>12, <1>13 DEF IInv

-----------------------------------------------------------------------------
(* Completion                                                              *)

LEMMA StartCompletionStep ==
  ASSUME IInv, NEW p \in Process, StartCompletion(p)
  PROVE  IInv'
<1> USE DEF StartCompletion, study, files, bounds, history
<1>1. TypeOK /\ "list" \in Steps \ {"append"}
  BY DEF IInv, Steps
<1>2. Validating' /\ Summaries' /\ ValidationsKept'
  BY <1>1, KeepsSummaries
<1>3. UnderWay' \subseteq UnderWay /\ (Completing' => Completing)
      /\ \A q \in Process : pc'[q] = "remove" => pc[q] = "remove"
  BY <1>1, KeepsUnderWay
<1>4. TypeOK' /\ Counting'
  BY <1>1 DEF TypeOK, Goto, IInv, Counting
<1>5. Completion'
  BY <1>3 DEF IInv, Completion
<1> QED
  BY <1>2, <1>4, <1>5 DEF IInv

LEMMA ListRowsStep ==
  ASSUME IInv, NEW p \in Process, ListRows(p)
  PROVE  IInv'
<1>1. /\ pc[p] = "list" /\ late' = late \union UnderWay /\ Goto(p, "remove")
      /\ todo' = [todo EXCEPT ![p] = IF Policy = "until_study_completion" THEN recorded ELSE {}]
      /\ UNCHANGED <<state, used, recorded, summary, registry, stored, value, read, calls, crashes, made, overlap, uncounted>>
  BY DEF ListRows, study, files, bounds
<1>2. TypeOK /\ "remove" \in Steps \ {"append"}
  BY DEF IInv, Steps
<1>3. Validating' /\ Summaries' /\ ValidationsKept'
  BY <1>1, <1>2, KeepsSummaries
<1>4. \A q \in Process :
        /\ pc'[q] = IF q = p THEN "remove" ELSE pc[q]
        /\ todo'[q] = IF q # p THEN todo[q] ELSE IF Policy = "until_study_completion" THEN recorded ELSE {}
  BY <1>1, <1>2 DEF TypeOK, Goto
<1>5. UnderWay' = UnderWay /\ UnderWay \subseteq Value
  BY <1>1, <1>2, <1>4 DEF UnderWay, TypeOK
<1>6. TypeOK'
  BY <1>1, <1>2, <1>5 DEF TypeOK, Goto
<1>7. Counting'
  BY <1>1, <1>4 DEF IInv, Counting
<1>8. Completion'
  BY <1>1, <1>4, <1>5 DEF IInv, Completion
<1> QED
  BY <1>3, <1>6, <1>7, <1>8 DEF IInv

LEMMA RemovePayloadStep ==
  ASSUME IInv, NEW p \in Process, NEW v \in Value, RemovePayload(p, v)
  PROVE  IInv'
<1>1. /\ stored' = stored \ {v} /\ todo' = [todo EXCEPT ![p] = @ \ {v}]
      /\ UNCHANGED <<state, used, recorded, summary, registry, pc, value, read, calls, crashes, made, overlap, late, uncounted>>
  BY DEF RemovePayload, study, bounds, history
<1>2. TypeOK' /\ Counting' /\ ValidationsKept'
  BY <1>1 DEF IInv, TypeOK, Counting, ValidationsKept
<1>3. Appending' = Appending /\ UnderWay' = UnderWay /\ Completing' = Completing
  BY <1>1 DEF Appending, UnderWay, Completing
<1>4. Validating' /\ Summaries'
  BY <1>1, <1>3 DEF IInv, Validating, Summaries
<1>5. \A q \in Process : todo'[q] = IF q = p THEN todo[p] \ {v} ELSE todo[q]
  BY <1>1 DEF IInv, TypeOK
<1>6. Completion'
  BY <1>1, <1>3, <1>5 DEF IInv, Completion
<1> QED
  BY <1>2, <1>4, <1>6 DEF IInv

LEMMA CloseStep ==
  ASSUME IInv, NEW p \in Process, Close(p)
  PROVE  IInv'
<1>1. /\ pc[p] = "remove" /\ todo[p] = {} /\ state' = "complete" /\ summary' = {}
      /\ todo' = [todo EXCEPT ![p] = {}] /\ Goto(p, "idle")
      /\ UNCHANGED <<used, recorded, registry, stored, value, read, calls, crashes, made, overlap, late, uncounted>>
  BY DEF Close, MayClose, files, bounds, history
<1>2. TypeOK /\ "idle" \in Steps
  BY DEF IInv, Steps
<1>3. Appending' = Appending
  BY <1>1, <1>2 DEF Appending, TypeOK, Goto
<1>4. Validating' /\ Summaries' /\ ValidationsKept'
  BY <1>1, <1>3 DEF IInv, Validating, Summaries, ValidationsKept
<1>5. UnderWay' \subseteq UnderWay /\ \A q \in Process : pc'[q] = "remove" => pc[q] = "remove" /\ q # p
  BY <1>1, <1>2 DEF TypeOK, Goto, UnderWay
<1>6. TypeOK' /\ Counting'
  BY <1>1, <1>2 DEF TypeOK, Goto, IInv, Counting
<1>7. UnderWay \subseteq late /\ (Policy = "until_study_completion" => recorded \intersect stored \subseteq late)
  BY <1>1 DEF IInv, Completion, Completing
<1>8. \A q \in Process \ {p} : todo'[q] = todo[q]
  BY <1>1, <1>2 DEF TypeOK
<1>9. Completion'
  BY <1>1, <1>5, <1>7, <1>8 DEF IInv, Completion
<1> QED
  BY <1>4, <1>6, <1>9 DEF IInv

LEMMA CrashStep ==
  ASSUME IInv, NEW p \in Process, Crash(p)
  PROVE  IInv'
<1>1. /\ crashes < MaxCrashes /\ crashes' = crashes + 1
      /\ uncounted' = IF pc[p] = "count" THEN uncounted \union {value[p]} ELSE uncounted
      /\ todo' = [todo EXCEPT ![p] = {}] /\ Goto(p, "idle")
      /\ UNCHANGED <<state, used, recorded, summary, registry, stored, value, read, calls, made, overlap, late>>
  BY DEF Crash, study, files
<1>2. TypeOK /\ "idle" \in Steps \ {"append"}
  BY DEF IInv, Steps
<1>3. Validating' /\ Summaries' /\ ValidationsKept'
  BY <1>1, <1>2, KeepsSummaries
<1>4. UnderWay' \subseteq UnderWay /\ (Completing' => Completing)
      /\ \A q \in Process : pc'[q] = "remove" => pc[q] = "remove"
  BY <1>1, <1>2, KeepsUnderWay
<1>5. TypeOK'
  <2>1. crashes' \in 0..MaxCrashes
    BY <1>1, <1>2, StudyAssumption DEF TypeOK
  <2>2. uncounted' \subseteq recorded
    BY <1>1, <1>2 DEF IInv, TypeOK, Counting
  <2> QED
    BY <1>1, <1>2, <2>1, <2>2 DEF TypeOK, Goto
<1>6. Counting'
  BY <1>1, <1>2 DEF IInv, TypeOK, Counting, Goto
<1>7. \A q \in Process : pc'[q] = "remove" => todo'[q] = todo[q]
  BY <1>1, <1>2 DEF TypeOK, Goto
<1>8. Completion'
  BY <1>1, <1>4, <1>7 DEF IInv, Completion
<1> QED
  BY <1>3, <1>5, <1>6, <1>8 DEF IInv

LEMMA StutterStep ==
  ASSUME IInv, UNCHANGED vars
  PROVE  IInv'
<1> USE DEF vars, study, files, process, bounds, history
<1>1. TypeOK' /\ Counting' /\ ValidationsKept'
  BY DEF IInv, TypeOK, Counting, ValidationsKept
<1>2. Appending' = Appending /\ UnderWay' = UnderWay /\ Completing' = Completing
  BY DEF Appending, UnderWay, Completing
<1> QED
  BY <1>1, <1>2 DEF IInv, Validating, Summaries, Completion

-----------------------------------------------------------------------------
(* Finite sets and sums                                                    *)

LEMMA LeastSet ==
  ASSUME NEW S, IsFiniteSet(S), NEW F \in SUBSET SUBSET S, F # {}
  PROVE  \E m \in F : \A k \in F : k \subseteq m => k = m
<1>1. IsWellFoundedOn(StrictSubsetOrdering(S), SUBSET S)
  BY FS_FiniteSubsetsOfFinite, FS_StrictSubsetOrderingWellFounded
<1>2. \E m \in F : \A k \in F : ~ (<<k, m>> \in StrictSubsetOrdering(S))
  BY <1>1, WFMin
<1> QED
  BY <1>2 DEF StrictSubsetOrdering

LEMMA LeastNatural ==
  ASSUME NEW T \in SUBSET Nat, T # {}
  PROVE  \E m \in T : \A k \in T : m <= k
<1>1. PICK n \in T : TRUE
  OBVIOUS
<1> DEFINE S == 1..n
           F == {1..k : k \in {j \in T : j <= n}}
<1>2. F \in SUBSET SUBSET S
  OBVIOUS
<1>3. IsFiniteSet(S)
  BY FS_Interval
<1>4. S \in F
  OBVIOUS
<1>5. PICK m \in F : \A k \in F : k \subseteq m => k = m
  <2> HIDE DEF F, S
  <2> QED
    BY <1>2, <1>3, <1>4, LeastSet
<1>6. PICK j \in T : j <= n /\ m = 1..j
  OBVIOUS
<1>7. ASSUME NEW k \in T, k < j PROVE FALSE
  <2>1. 1..k \in F /\ 1..k \subseteq 1..j
    BY <1>6, <1>7
  <2>2. 1..k = 1..j
    BY <2>1, <1>5, <1>6
  <2>3. j \in 1..j /\ j \notin 1..k
    BY <1>7
  <2> QED
    BY <2>2, <2>3
<1> QED
  BY <1>7

\* Induction over the subsets of a finite set, for a family of them.
LEMMA SubsetInduction ==
  ASSUME NEW D, IsFiniteSet(D), NEW P \in SUBSET SUBSET D,
         \A T \in SUBSET D : (\A U \in SUBSET T : U # T => U \in P) => T \in P
  PROVE  P = SUBSET D
<1> DEFINE Bad == (SUBSET D) \ P
<1> SUFFICES ASSUME Bad # {} PROVE FALSE
  OBVIOUS
<1>1. PICK m \in Bad : \A k \in Bad : k \subseteq m => k = m
  <2>1. Bad \in SUBSET SUBSET D
    OBVIOUS
  <2> HIDE DEF Bad
  <2> QED
    BY <2>1, LeastSet
<1>2. m \in SUBSET D /\ m \notin P
  BY <1>1
<1>3. \A U \in SUBSET m : U # m => U \in P
  BY <1>1, <1>2
<1> QED
  BY <1>2, <1>3

\* The element that Total takes from T.
Taken(T) == CHOOSE x \in T : TRUE

Sums(size, g, n) ==
  g = [T \in {U \in SUBSET DOMAIN size : Cardinality(U) <= n} |->
         IF T = {} THEN 0 ELSE size[Taken(T)] + g[T \ {Taken(T)}]]

LEMMA Smaller ==
  ASSUME NEW D, IsFiniteSet(D), NEW T \in SUBSET D, T # {}
  PROVE  /\ Taken(T) \in T /\ T \ {Taken(T)} \in SUBSET D /\ T \ {Taken(T)} # T
         /\ Cardinality(T) \in Nat /\ Cardinality(T \ {Taken(T)}) = Cardinality(T) - 1
<1>1. IsFiniteSet(T) /\ Taken(T) \in T
  BY FS_Subset DEF Taken
<1> QED
  BY <1>1, FS_RemoveElement, FS_CardinalityType

LEMMA SumsExist ==
  ASSUME NEW size, IsFiniteSet(DOMAIN size), NEW N \in Nat
  PROVE  \E g : Sums(size, g, N)
<1> DEFINE D == DOMAIN size
           Bad == {n \in 0..N : ~ \E g : Sums(size, g, n)}
<1>1. SUFFICES ASSUME Bad # {} PROVE FALSE
  OBVIOUS
<1>2. PICK m \in Bad : \A k \in Bad : m <= k
  <2>1. Bad \in SUBSET Nat
    OBVIOUS
  <2> HIDE DEF Bad
  <2> QED
    BY <1>1, <2>1, LeastNatural
<1>3. m \in 0..N /\ ~ \E g : Sums(size, g, m)
  BY <1>2
<1>4. \A U \in SUBSET D : Cardinality(U) \in Nat /\ (Cardinality(U) = 0 <=> U = {})
  BY FS_Subset, FS_CardinalityType, FS_EmptySet
<1>5. CASE m = 0
  <2> DEFINE g == [T \in {U \in SUBSET D : Cardinality(U) <= 0} |-> 0]
  <2>1. \A T \in {U \in SUBSET D : Cardinality(U) <= 0} : T = {}
    BY <1>4
  <2>2. Sums(size, g, 0)
    BY <2>1 DEF Sums
  <2> QED
    BY <1>3, <1>5, <2>2
<1>6. CASE m # 0
  <2>1. m - 1 \in 0..N /\ m - 1 \notin Bad
    BY <1>2, <1>3, <1>6
  <2>2. PICK h : Sums(size, h, m - 1)
    BY <2>1
  <2> DEFINE Dom == {U \in SUBSET D : Cardinality(U) <= m}
             g == [T \in Dom |-> IF T = {} THEN 0 ELSE size[Taken(T)] + h[T \ {Taken(T)}]]
  <2>3. ASSUME NEW T \in Dom, T # {} PROVE g[T \ {Taken(T)}] = h[T \ {Taken(T)}]
    <3> DEFINE U == T \ {Taken(T)}
    <3>1. U \in SUBSET D /\ Cardinality(U) = Cardinality(T) - 1 /\ Cardinality(T) \in Nat /\ Cardinality(T) <= m
      BY <2>3, Smaller
    <3>2. U \in Dom /\ Cardinality(U) <= m - 1
      BY <1>3, <3>1
    <3> HIDE DEF U
    <3>3. g[U] = IF U = {} THEN 0 ELSE size[Taken(U)] + h[U \ {Taken(U)}]
      BY <3>2
    <3>4. h[U] = IF U = {} THEN 0 ELSE size[Taken(U)] + h[U \ {Taken(U)}]
      BY <2>2, <3>1, <3>2 DEF Sums
    <3> HIDE DEF g
    <3>5. g[U] = h[U]
      BY <3>3, <3>4
    <3> QED
      BY <3>5 DEF U
  <2>4. g = [T \in Dom |-> IF T = {} THEN 0 ELSE size[Taken(T)] + h[T \ {Taken(T)}]]
    OBVIOUS
  <2> HIDE DEF g, Dom
  <2>5. g = [T \in Dom |-> IF T = {} THEN 0 ELSE size[Taken(T)] + g[T \ {Taken(T)}]]
    BY <2>3, <2>4
  <2>6. Sums(size, g, m)
    BY <2>5 DEF Sums, Dom
  <2> QED
    BY <1>3, <2>6
<1> QED
  BY <1>5, <1>6

\* A sum is what the element taken contributes, and the sum of the others.
LEMMA TotalTakes ==
  ASSUME NEW D, IsFiniteSet(D), NEW size \in [D -> Nat], NEW T \in SUBSET D
  PROVE  Total(size, T) = IF T = {} THEN 0 ELSE size[Taken(T)] + Total(size, T \ {Taken(T)})
<1> DEFINE IsTotal(g) ==
             g = [U \in SUBSET DOMAIN size |->
                    IF U = {} THEN 0 ELSE size[Taken(U)] + g[U \ {Taken(U)}]]
           total == CHOOSE g : IsTotal(g)
<1>1. DOMAIN size = D /\ Cardinality(D) \in Nat
  BY FS_CardinalityType
<1>2. \A U \in SUBSET D : Cardinality(U) <= Cardinality(D)
  BY FS_Subset
<1>3. {U \in SUBSET DOMAIN size : Cardinality(U) <= Cardinality(D)} = SUBSET DOMAIN size
  BY <1>1, <1>2
<1>4. \E g : Sums(size, g, Cardinality(D))
  BY <1>1, SumsExist
<1>5. \E g : IsTotal(g)
  BY <1>3, <1>4 DEF Sums
<1>6. IsTotal(total)
  <2> HIDE DEF IsTotal
  <2> QED
    BY <1>5
<1>7. \A S : Total(size, S) = total[S]
  BY DEF Total, Taken
<1> HIDE DEF total
<1>8. \A U \in SUBSET D : total[U] = IF U = {} THEN 0 ELSE size[Taken(U)] + total[U \ {Taken(U)}]
  BY <1>1, <1>6
<1> QED
  BY <1>7, <1>8

LEMMA TotalType ==
  ASSUME NEW D, IsFiniteSet(D), NEW size \in [D -> Nat]
  PROVE  \A T \in SUBSET D : Total(size, T) \in Nat
<1> DEFINE P == {T \in SUBSET D : Total(size, T) \in Nat}
<1>1. ASSUME NEW T \in SUBSET D, \A U \in SUBSET T : U # T => U \in P PROVE T \in P
  <2>1. CASE T = {}
    <3>1. Total(size, T) = 0
      BY <2>1, TotalTakes
    <3> QED
      BY <3>1
  <2>2. CASE T # {}
    <3>1. Taken(T) \in T /\ T \ {Taken(T)} \in P
      BY <1>1, <2>2, Smaller
    <3>2. Total(size, T) = size[Taken(T)] + Total(size, T \ {Taken(T)})
      BY <2>2, TotalTakes
    <3> QED
      BY <3>1, <3>2
  <2> QED
    BY <2>1, <2>2
<1>2. P = SUBSET D
  <2> HIDE DEF P
  <2>1. P \in SUBSET SUBSET D
    BY DEF P
  <2> QED
    BY <1>1, <2>1, SubsetInduction
<1> QED
  BY <1>2

\* The order in which elements are taken makes no difference.
LEMMA TotalAdds ==
  ASSUME NEW D, IsFiniteSet(D), NEW size \in [D -> Nat]
  PROVE  \A T \in SUBSET D : \A x \in T : Total(size, T) = size[x] + Total(size, T \ {x})
<1> DEFINE P == {T \in SUBSET D : \A x \in T : Total(size, T) = size[x] + Total(size, T \ {x})}
<1>1. ASSUME NEW T \in SUBSET D, \A U \in SUBSET T : U # T => U \in P PROVE T \in P
  <2> SUFFICES ASSUME NEW x \in T PROVE Total(size, T) = size[x] + Total(size, T \ {x})
    OBVIOUS
  <2> DEFINE y == Taken(T)
  <2>1. y \in T /\ x \in D /\ y \in D
    BY Smaller
  <2>2. Total(size, T) = size[y] + Total(size, T \ {y})
    BY TotalTakes
  <2> HIDE DEF y
  <2>3. CASE x = y
    BY <2>2, <2>3
  <2>4. CASE x # y
    <3>1. Total(size, T \ {y}) = size[x] + Total(size, (T \ {y}) \ {x})
      <4>1. T \ {y} \in P /\ x \in T \ {y}
        BY <1>1, <2>1, <2>4
      <4> QED
        BY <4>1
    <3>2. Total(size, T \ {x}) = size[y] + Total(size, (T \ {x}) \ {y})
      <4>1. T \ {x} \in P /\ y \in T \ {x}
        BY <1>1, <2>1, <2>4
      <4> QED
        BY <4>1
    <3>3. (T \ {x}) \ {y} = (T \ {y}) \ {x} /\ (T \ {x}) \ {y} \in SUBSET D
      OBVIOUS
    <3>4. Total(size, (T \ {y}) \ {x}) \in Nat
      BY <3>3, TotalType
    <3>5. size[x] \in Nat /\ size[y] \in Nat
      BY <2>1
    <3> QED
      BY <2>2, <3>1, <3>2, <3>3, <3>4, <3>5
  <2> QED
    BY <2>3, <2>4
<1>2. P = SUBSET D
  <2> HIDE DEF P
  <2>1. P \in SUBSET SUBSET D
    BY DEF P
  <2> QED
    BY <1>1, <2>1, SubsetInduction
<1> QED
  BY <1>2

\* Sizes that are equal on a set have the same sum over it.
LEMMA TotalAgrees ==
  ASSUME NEW D, IsFiniteSet(D), NEW size \in [D -> Nat], NEW other \in [D -> Nat],
         NEW S \in SUBSET D, \A x \in S : size[x] = other[x]
  PROVE  Total(size, S) = Total(other, S)
<1> DEFINE P == {T \in SUBSET S : Total(size, T) = Total(other, T)}
<1>1. ASSUME NEW T \in SUBSET S, \A U \in SUBSET T : U # T => U \in P PROVE T \in P
  <2>1. T \in SUBSET D /\ IsFiniteSet(S)
    BY FS_Subset
  <2>2. /\ Total(size, T) = IF T = {} THEN 0 ELSE size[Taken(T)] + Total(size, T \ {Taken(T)})
        /\ Total(other, T) = IF T = {} THEN 0 ELSE other[Taken(T)] + Total(other, T \ {Taken(T)})
    BY <2>1, TotalTakes
  <2>3. T # {} => Taken(T) \in T /\ T \ {Taken(T)} \in P
    BY <1>1, <2>1, Smaller
  <2> QED
    BY <2>2, <2>3
<1>2. P = SUBSET S
  <2>1. IsFiniteSet(S) /\ P \in SUBSET SUBSET S
    BY FS_Subset
  <2> HIDE DEF P
  <2> QED
    BY <1>1, <2>1, SubsetInduction
<1> QED
  BY <1>2

LEMMA TotalBound ==
  ASSUME NEW D, IsFiniteSet(D), NEW size \in [D -> Nat], NEW L \in Nat, \A x \in D : size[x] <= L
  PROVE  \A T \in SUBSET D : Total(size, T) <= Cardinality(T) * L
<1> DEFINE P == {T \in SUBSET D : Total(size, T) <= Cardinality(T) * L}
<1>1. ASSUME NEW T \in SUBSET D, \A U \in SUBSET T : U # T => U \in P PROVE T \in P
  <2>1. CASE T = {}
    <3>1. Total(size, T) = 0
      BY <2>1, TotalTakes
    <3>2. Cardinality(T) * L = 0
      BY <2>1, FS_EmptySet
    <3> QED
      BY <3>1, <3>2
  <2>2. CASE T # {}
    <3> DEFINE y == Taken(T)
    <3>1. y \in T /\ T \ {y} \in P /\ T \ {y} \in SUBSET D
          /\ Cardinality(T) \in Nat /\ Cardinality(T \ {y}) = Cardinality(T) - 1
      BY <1>1, <2>2, Smaller
    <3>2. Total(size, T) = size[y] + Total(size, T \ {y})
      BY <2>2, TotalTakes
    <3>3. Total(size, T \ {y}) \in Nat /\ Total(size, T \ {y}) <= Cardinality(T \ {y}) * L
      BY <3>1, TotalType
    <3>4. size[y] \in Nat /\ size[y] <= L
      BY <3>1
    <3> HIDE DEF y
    <3>5. \A n \in Nat : (n - 1) * L + L = n * L
      OBVIOUS
    <3>6. Cardinality(T) * L \in Nat /\ (Cardinality(T) - 1) * L \in Int
      BY <3>1
    <3> QED
      BY <3>1, <3>2, <3>3, <3>4, <3>5, <3>6
  <2> QED
    BY <2>1, <2>2
<1>2. P = SUBSET D
  <2> HIDE DEF P
  <2>1. P \in SUBSET SUBSET D
    BY DEF P
  <2> QED
    BY <1>1, <2>1, SubsetInduction
<1> QED
  BY <1>2

\* The largest size is one of the sizes, and none is larger.
LEMMA LargestOf == Largest \in Nat /\ \A v \in Value : Payload[v] <= Largest
<1> DEFINE Bound == {n \in 0..Total(Payload, Value) : \A v \in Value : Payload[v] <= n}
<1>1. Total(Payload, Value) \in Nat /\ \A v \in Value : Payload[v] \in Nat
  BY StudyAssumption, TotalType
<1>2. \A v \in Value : Payload[v] <= Total(Payload, Value)
  <2> TAKE v \in Value
  <2>1. Total(Payload, Value) = Payload[v] + Total(Payload, Value \ {v})
    BY StudyAssumption, TotalAdds
  <2>2. Total(Payload, Value \ {v}) \in Nat
    BY StudyAssumption, TotalType
  <2> QED
    BY <1>1, <2>1, <2>2
<1>3. \E n \in Bound : \A k \in Bound : n <= k
  <2>1. Total(Payload, Value) \in Bound /\ Bound \in SUBSET Nat
    BY <1>1, <1>2
  <2> HIDE DEF Bound
  <2> QED
    BY <2>1, LeastNatural
<1>4. PICK n \in Bound : \A k \in Bound : n <= k
  BY <1>3
<1>5. n \in Nat /\ n \in 0..Total(Payload, Value) /\ \A v \in Value : Payload[v] <= n
  BY <1>1, <1>4
<1>6. \E v \in Value : Payload[v] = n
  <2> SUFFICES ASSUME \A v \in Value : Payload[v] # n PROVE FALSE
    OBVIOUS
  <2>1. \A v \in Value : Payload[v] < n
    BY <1>1, <1>5
  <2>2. n > 0
    BY <1>1, <2>1, StudyAssumption
  <2>3. n - 1 \in Bound
    BY <1>1, <1>5, <2>1, <2>2
  <2> QED
    BY <1>4, <1>5, <2>3
<1>7. \E k \in {Payload[v] : v \in Value} : \A v \in Value : Payload[v] <= k
  BY <1>5, <1>6
<1> QED
  BY <1>1, <1>7 DEF Largest

-----------------------------------------------------------------------------
(* What the study is charged                                               *)

\* A process that found room for its files will add their bytes, unless
\* somebody else has recorded them.
Claim == [q \in Process |-> IF pc[q] \in {"look", "insert", "count"} THEN Payload[value[q]] ELSE 0]

Claims == used + Total(Claim, Process) <= Budget + (Cardinality(Process) - 1) * Largest

AtCount == {q \in Process : pc[q] = "count"}

Counted == recorded \ (uncounted \union {value[q] : q \in AtCount})

\* What is about to be counted is recorded, and about to be counted by one.
Once ==
  /\ \A q, r \in AtCount : value[q] = value[r] => q = r
  /\ \A q \in AtCount : value[q] \in recorded \ uncounted
  /\ used = Bytes(Counted)

ChargeInv == Claims /\ Once

LEMMA ClaimType == TypeOK => Claim \in [Process -> Nat] /\ \A q \in Process : Claim[q] <= Largest
<1> SUFFICES ASSUME TypeOK PROVE \A q \in Process : Claim[q] \in Nat /\ Claim[q] <= Largest
  BY DEF Claim
<1> TAKE q \in Process
<1>1. value[q] \in Value /\ Payload[value[q]] \in Nat
  BY StudyAssumption DEF TypeOK
<1>2. Claim[q] \in {0, Payload[value[q]]}
  BY DEF Claim
<1> QED
  BY <1>1, <1>2, LargestOf

LEMMA ClaimTypeAfter == TypeOK' => Claim' \in [Process -> Nat]
<1> SUFFICES ASSUME TypeOK' PROVE \A q \in Process : Claim'[q] \in Nat
  BY DEF Claim
<1> TAKE q \in Process
<1>1. Payload[value'[q]] \in Nat
  BY StudyAssumption DEF TypeOK
<1> QED
  BY <1>1 DEF Claim

LEMMA RoomType ==
  /\ Cardinality(Process) - 1 \in Nat /\ Largest \in Nat
  /\ (Cardinality(Process) - 1) * Largest \in Nat
<1>1. Cardinality(Process) \in Nat /\ Cardinality(Process) # 0
  BY StudyAssumption, FS_CardinalityType, FS_EmptySet
<1>2. Cardinality(Process) - 1 \in Nat
  BY <1>1
<1>3. \A m, n \in Nat : m * n \in Nat
  OBVIOUS
<1> QED
  BY <1>2, <1>3, LargestOf

\* The claims of all processes are that of p and those of the others.
LEMMA Claimed ==
  ASSUME TypeOK, TypeOK', NEW p \in Process,
         \A q \in Process \ {p} : pc'[q] = pc[q] /\ value'[q] = value[q]
  PROVE  \E rest \in Nat :
           /\ Total(Claim, Process) = Claim[p] + rest
           /\ Total(Claim', Process) = Claim'[p] + rest
           /\ rest <= (Cardinality(Process) - 1) * Largest
<1>1. Claim \in [Process -> Nat] /\ Claim' \in [Process -> Nat]
  BY ClaimType, ClaimTypeAfter
<1>2. \A q \in Process : Claim[q] <= Largest
  BY ClaimType
<1>3. \A q \in Process \ {p} : Claim[q] = Claim'[q]
  BY DEF Claim
<1>4. PICK c \in [Process -> Nat] : c = Claim
  BY <1>1
<1>5. PICK d \in [Process -> Nat] : d = Claim'
  BY <1>1
<1> DEFINE S == Process \ {p}
<1>6. S \in SUBSET Process /\ IsFiniteSet(Process)
  BY StudyAssumption
<1>7. Total(c, Process) = c[p] + Total(c, S) /\ Total(d, Process) = d[p] + Total(d, S)
  BY <1>6, TotalAdds
<1>8. Total(c, S) = Total(d, S)
  <2>1. \A q \in S : c[q] = d[q]
    BY <1>3, <1>4, <1>5
  <2> HIDE DEF S
  <2> QED
    BY <1>6, <2>1, TotalAgrees
<1>9. Total(c, S) \in Nat
  BY <1>6, TotalType
<1>10. Total(c, S) <= Cardinality(S) * Largest
  <2>1. \A q \in Process : c[q] <= Largest
    BY <1>2, <1>4
  <2> HIDE DEF S
  <2> QED
    BY <1>6, <2>1, LargestOf, TotalBound
<1>11. Cardinality(S) = Cardinality(Process) - 1
  BY <1>6, FS_RemoveElement
<1> HIDE DEF S
<1> WITNESS Total(c, S) \in Nat
<1> QED
  BY <1>4, <1>5, <1>7, <1>8, <1>10, <1>11

\* Claims are not exceeded by a process that claims no more than before.
LEMMA ClaimsKept ==
  ASSUME TypeOK, TypeOK', Claims, NEW p \in Process, used' \in {used, used + Claim[p]},
         \A q \in Process \ {p} : pc'[q] = pc[q] /\ value'[q] = value[q],
         used' = used => Claim'[p] <= Claim[p],
         used' # used => Claim'[p] = 0
  PROVE  Claims'
<1>1. PICK rest \in Nat :
        /\ Total(Claim, Process) = Claim[p] + rest
        /\ Total(Claim', Process) = Claim'[p] + rest
  BY Claimed
<1>2. Claim[p] \in Nat /\ Claim'[p] \in Nat /\ used \in Nat /\ used' \in Nat /\ Budget \in Nat
  <2>1. Claim \in [Process -> Nat] /\ Claim' \in [Process -> Nat]
    BY ClaimType, ClaimTypeAfter
  <2> QED
    BY <2>1, StudyAssumption DEF TypeOK
<1>3. used' + Total(Claim', Process) <= used + Total(Claim, Process)
  BY <1>1, <1>2
<1>4. used' + Total(Claim', Process) \in Nat /\ used + Total(Claim, Process) \in Nat
  BY <1>1, <1>2
<1> QED
  BY <1>2, <1>3, <1>4, RoomType DEF Claims

\* A step away from the counting.
LEMMA OnceKept ==
  ASSUME Once, AtCount' = AtCount, \A q \in AtCount : value'[q] = value[q],
         UNCHANGED <<used, recorded, uncounted>>
  PROVE  Once'
<1>1. Counted' = Counted
  <2>1. {value'[q] : q \in AtCount} = {value[q] : q \in AtCount}
    OBVIOUS
  <2> QED
    BY <2>1 DEF Counted
<1> QED
  BY <1>1 DEF Once, Bytes

\* One of a process that goes on, and neither claims nor counts for that.
LEMMA GoesOn ==
  ASSUME TypeOK, TypeOK', ChargeInv, NEW p \in Process, NEW l \in Steps, Goto(p, l),
         pc[p] # "count", l # "count",
         l \in {"look", "insert"} => pc[p] \in {"look", "insert"} /\ value'[p] = value[p],
         \A q \in Process \ {p} : value'[q] = value[q],
         UNCHANGED <<used, recorded, uncounted>>
  PROVE  ChargeInv'
<1>1. \A q \in Process : pc'[q] = IF q = p THEN l ELSE pc[q]
  BY DEF TypeOK, Goto
<1>2. AtCount' = AtCount /\ \A q \in AtCount : value'[q] = value[q]
  BY <1>1 DEF AtCount
<1>3. Claim'[p] <= Claim[p]
  <2>1. Claim[p] \in Nat
    BY ClaimType
  <2>2. Claim'[p] = 0 \/ Claim'[p] = Claim[p]
    BY <1>1 DEF Claim
  <2> QED
    BY <2>1, <2>2
<1>4. Claims'
  <2>1. used' = used /\ used' \in {used, used + Claim[p]} /\ Claims
    BY DEF ChargeInv
  <2>2. \A q \in Process \ {p} : pc'[q] = pc[q] /\ value'[q] = value[q]
    BY <1>1
  <2> QED
    BY <1>3, <2>1, <2>2, ClaimsKept
<1> QED
  BY <1>2, <1>4, OnceKept DEF ChargeInv

LEMMA CheckAgainCharges ==
  ASSUME TypeOK, TypeOK', ChargeInv, NEW p \in Process, CheckAgain(p)
  PROVE  ChargeInv'
<1>1. pc[p] = "check" /\ value' = value /\ UNCHANGED <<used, recorded, uncounted>>
  BY DEF CheckAgain, study, history
<1>2. CASE ~Fits(value[p])
  <2>1. Goto(p, "purge") /\ "purge" \in Steps
    BY <1>2 DEF CheckAgain, Steps
  <2> QED
    BY <1>1, <2>1, GoesOn
<1>3. CASE Fits(value[p])
  <2>1. \A q \in Process : pc'[q] = IF q = p THEN "look" ELSE pc[q]
    BY <1>3 DEF CheckAgain, TypeOK, Goto
  <2>2. AtCount' = AtCount
    BY <1>1, <2>1 DEF AtCount
  <2>3. Once'
    BY <1>1, <2>2, OnceKept DEF ChargeInv
  <2>4. Claim'[p] = Payload[value[p]] /\ Payload[value[p]] \in Nat
    BY <1>1, <2>1, StudyAssumption DEF Claim, TypeOK
  <2>5. PICK rest \in Nat :
          Total(Claim', Process) = Claim'[p] + rest /\ rest <= (Cardinality(Process) - 1) * Largest
    BY <1>1, <2>1, Claimed
  <2>6. used' + Payload[value[p]] <= Budget /\ used' \in Nat /\ Budget \in Nat
    BY <1>1, <1>3, StudyAssumption DEF Fits, TypeOK
  <2>7. Claims'
    <3>1. used' + Total(Claim', Process) <= Budget + (Cardinality(Process) - 1) * Largest
      BY <2>4, <2>5, <2>6, RoomType
    <3> QED
      BY <3>1 DEF Claims
  <2> QED
    BY <2>3, <2>7 DEF ChargeInv
<1> QED
  BY <1>2, <1>3

LEMMA InsertRowCharges ==
  ASSUME TypeOK, TypeOK', ChargeInv, NEW p \in Process, InsertRow(p)
  PROVE  ChargeInv'
<1>1. /\ pc[p] = "insert" /\ value' = value /\ UNCHANGED <<used, uncounted>>
      /\ recorded' = recorded \union {value[p]}
  BY DEF InsertRow, history
<1>2. CASE value[p] \in recorded
  <2>1. Goto(p, "idle") /\ "idle" \in Steps /\ recorded' = recorded
    BY <1>1, <1>2 DEF InsertRow, Steps
  <2> QED
    BY <1>1, <2>1, GoesOn
<1>3. CASE value[p] \notin recorded
  <2>1. \A q \in Process : pc'[q] = IF q = p THEN "count" ELSE pc[q]
    BY <1>3 DEF InsertRow, TypeOK, Goto
  <2>2. Claim'[p] = Claim[p] /\ Claim[p] \in Nat
    BY <1>1, <2>1, ClaimType DEF Claim
  <2>3. Claims'
    BY <1>1, <2>1, <2>2, ClaimsKept DEF ChargeInv
  <2>4. AtCount' = AtCount \union {p} /\ uncounted \subseteq recorded
    BY <2>1 DEF AtCount, TypeOK
  <2>5. {value'[q] : q \in AtCount'} = {value[q] : q \in AtCount} \union {value[p]}
    BY <1>1, <2>4
  <2>6. Counted' = Counted
    BY <1>1, <1>3, <2>5 DEF Counted
  <2>7. \A q \in AtCount : value[q] \in recorded \ uncounted /\ value[q] # value[p]
    BY <1>3 DEF ChargeInv, Once
  <2>8. Once'
    BY <1>1, <1>3, <2>4, <2>6, <2>7 DEF ChargeInv, Once, Bytes
  <2> QED
    BY <2>3, <2>8 DEF ChargeInv
<1> QED
  BY <1>2, <1>3

\* A process at the count leaves it, having counted or died.
LEMMA LeavesCount ==
  ASSUME TypeOK, Once, NEW p \in Process, pc[p] = "count", Goto(p, "idle")
  PROVE  /\ AtCount' = AtCount \ {p} /\ p \in AtCount
         /\ value[p] \notin {value[q] : q \in AtCount \ {p}}
         /\ \A q \in Process \ {p} : pc'[q] = pc[q]
         /\ Claim'[p] = 0
<1>1. \A q \in Process : pc'[q] = IF q = p THEN "idle" ELSE pc[q]
  BY DEF TypeOK, Goto
<1>2. AtCount' = AtCount \ {p} /\ p \in AtCount /\ Claim'[p] = 0
  BY <1>1 DEF AtCount, Claim
<1> QED
  BY <1>1, <1>2 DEF Once

LEMMA CountCharges ==
  ASSUME TypeOK, TypeOK', ChargeInv, NEW p \in Process, Count(p)
  PROVE  ChargeInv'
<1>1. /\ pc[p] = "count" /\ value' = value /\ UNCHANGED <<recorded, uncounted>>
      /\ used' = used + Payload[value[p]] /\ Goto(p, "idle")
  BY DEF Count, history
<1>2. Once /\ Claims
  BY DEF ChargeInv
<1>3. /\ AtCount' = AtCount \ {p} /\ p \in AtCount
      /\ value[p] \notin {value[q] : q \in AtCount \ {p}}
      /\ \A q \in Process \ {p} : pc'[q] = pc[q]
      /\ Claim'[p] = 0
  BY <1>1, <1>2, LeavesCount
<1>4. Claim[p] = Payload[value[p]] /\ Claim[p] \in Nat
  BY <1>1, ClaimType DEF Claim
<1>5. Claims'
  <2>1. 0 <= Claim[p]
    BY <1>4
  <2>2. used' \in {used, used + Claim[p]} /\ Claim'[p] <= Claim[p]
    BY <1>1, <1>3, <1>4, <2>1
  <2>3. \A q \in Process \ {p} : pc'[q] = pc[q] /\ value'[q] = value[q]
    BY <1>1, <1>3
  <2> QED
    BY <1>2, <1>3, <2>2, <2>3, ClaimsKept
<1>6. Counted' = Counted \union {value[p]} /\ value[p] \notin Counted /\ Counted' \in SUBSET Value
  <2>1. value[p] \in recorded \ uncounted
    BY <1>2, <1>3 DEF Once
  <2>2. {value'[q] : q \in AtCount'} = {value[q] : q \in AtCount \ {p}}
    BY <1>1, <1>3
  <2>3. {value[q] : q \in AtCount} = {value[q] : q \in AtCount \ {p}} \union {value[p]}
    BY <1>3
  <2> QED
    BY <1>1, <1>3, <2>1, <2>2, <2>3 DEF Counted, TypeOK
<1>7. PICK V \in SUBSET Value : V = Counted'
  BY <1>6
<1>8. V \ {value[p]} = Counted /\ value[p] \in V
  BY <1>6, <1>7
<1>9. Total(Payload, V) = Payload[value[p]] + Total(Payload, V \ {value[p]})
  BY <1>8, StudyAssumption, TotalAdds
<1>10. used = Total(Payload, Counted) /\ used \in Nat
  BY <1>2 DEF Once, Bytes, TypeOK
<1>11. used' = Total(Payload, V)
  BY <1>1, <1>4, <1>8, <1>9, <1>10
<1>12. Once'
  <2>1. used' = Bytes(Counted')
    BY <1>7, <1>11 DEF Bytes
  <2>2. /\ \A q, r \in AtCount' : value'[q] = value'[r] => q = r
        /\ \A q \in AtCount' : value'[q] \in recorded' \ uncounted'
    BY <1>1, <1>2, <1>3 DEF Once
  <2> QED
    BY <2>1, <2>2 DEF Once
<1> QED
  BY <1>5, <1>12 DEF ChargeInv

LEMMA CrashCharges ==
  ASSUME TypeOK, TypeOK', ChargeInv, NEW p \in Process, Crash(p)
  PROVE  ChargeInv'
<1>1. /\ value' = value /\ UNCHANGED <<used, recorded>> /\ Goto(p, "idle")
      /\ uncounted' = IF pc[p] = "count" THEN uncounted \union {value[p]} ELSE uncounted
  BY DEF Crash, study
<1>2. CASE pc[p] # "count"
  <2>1. "idle" \in Steps /\ uncounted' = uncounted
    BY <1>1, <1>2 DEF Steps
  <2> QED
    BY <1>1, <1>2, <2>1, GoesOn
<1>3. CASE pc[p] = "count"
  <2>1. Once /\ Claims
    BY DEF ChargeInv
  <2>2. /\ AtCount' = AtCount \ {p} /\ p \in AtCount
        /\ value[p] \notin {value[q] : q \in AtCount \ {p}}
        /\ \A q \in Process \ {p} : pc'[q] = pc[q]
        /\ Claim'[p] = 0
    BY <1>1, <1>3, <2>1, LeavesCount
  <2>3. Claims'
    <3>1. Claim'[p] <= Claim[p]
      BY <2>2, ClaimType
    <3> QED
      BY <1>1, <2>1, <2>2, <3>1, ClaimsKept
  <2>4. Counted' = Counted
    <3>1. {value'[q] : q \in AtCount'} \union uncounted' = {value[q] : q \in AtCount} \union uncounted
      BY <1>1, <1>3, <2>2
    <3> QED
      BY <1>1, <3>1 DEF Counted
  <2>5. Once'
    BY <1>1, <1>3, <2>1, <2>2, <2>4 DEF Once, Bytes
  <2> QED
    BY <2>3, <2>5 DEF ChargeInv
<1> QED
  BY <1>2, <1>3

LEMMA ChargeStep ==
  ASSUME TypeOK, TypeOK', ChargeInv, [Next]_vars
  PROVE  ChargeInv'
<1> USE DEF study, files, bounds, history, Steps
<1>1. ASSUME NEW p \in Process, NEW v \in Value, Start(p, v) \/ RemovePayload(p, v) PROVE ChargeInv'
  <2>1. CASE Start(p, v)
    <3>1. pc[p] = "idle" /\ Goto(p, "budget") /\ UNCHANGED <<used, recorded, uncounted>>
          /\ \A q \in Process \ {p} : value'[q] = value[q]
      BY <2>1 DEF Start, TypeOK
    <3> QED
      BY <3>1, GoesOn
  <2>2. CASE RemovePayload(p, v)
    <3>1. Claim' = Claim /\ AtCount' = AtCount /\ value' = value /\ UNCHANGED <<used, recorded, uncounted>>
      BY <2>2 DEF RemovePayload, Claim, AtCount
    <3> QED
      BY <3>1, OnceKept DEF ChargeInv, Claims
  <2> QED
    BY <1>1, <2>1, <2>2
<1>2. ASSUME NEW p \in Process,
             \/ CheckBudget(p) \/ LookUp(p) \/ WritePayload(p) \/ Register(p) \/ Purge(p) \/ Retire(p)
             \/ LookForRow(p) \/ ReadSummary(p) \/ WriteSummary(p) \/ StartCompletion(p)
             \/ ListRows(p) \/ Close(p)
      PROVE  ChargeInv'
  <2>1. /\ pc[p] # "count" /\ value' = value /\ UNCHANGED <<used, recorded, uncounted>>
        /\ \E l \in Steps \ {"count"} :
             Goto(p, l) /\ (l \in {"look", "insert"} => pc[p] \in {"look", "insert"})
    <3>1. CASE CheckBudget(p) \/ LookUp(p) \/ WritePayload(p)
      BY <3>1 DEF CheckBudget, LookUp, WritePayload
    <3>2. CASE Register(p) \/ Purge(p) \/ Retire(p) \/ LookForRow(p)
      BY <3>2 DEF Register, Purge, Retire, LookForRow
    <3>3. CASE ReadSummary(p) \/ WriteSummary(p)
      BY <3>3 DEF ReadSummary, WriteSummary
    <3>4. CASE StartCompletion(p) \/ ListRows(p) \/ Close(p)
      BY <3>4 DEF StartCompletion, ListRows, Close, MayClose
    <3> QED
      BY <1>2, <3>1, <3>2, <3>3, <3>4
  <2>2. PICK l \in Steps \ {"count"} :
          Goto(p, l) /\ (l \in {"look", "insert"} => pc[p] \in {"look", "insert"})
    BY <2>1
  <2> HIDE DEF Steps
  <2> QED
    BY <2>1, <2>2, GoesOn
<1>3. ASSUME NEW p \in Process, CheckAgain(p) \/ InsertRow(p) \/ Count(p) \/ Crash(p) PROVE ChargeInv'
  BY <1>3, CheckAgainCharges, InsertRowCharges, CountCharges, CrashCharges
<1>4. CASE UNCHANGED vars
  <2>1. Claim' = Claim /\ AtCount' = AtCount /\ value' = value /\ UNCHANGED <<used, recorded, uncounted>>
    BY <1>4 DEF vars, process, Claim, AtCount
  <2> QED
    BY <2>1, OnceKept DEF ChargeInv, Claims
<1> HIDE DEF Steps
<1> QED
  BY <1>1, <1>2, <1>3, <1>4 DEF Next

LEMMA ChargeInit == Init => ChargeInv
<1> SUFFICES ASSUME Init PROVE ChargeInv
  OBVIOUS
<1>1. used = 0 /\ AtCount = {} /\ recorded = {} /\ Claim \in [Process -> Nat]
      /\ \A q \in Process : Claim[q] <= 0
  BY DEF Init, AtCount, Claim
<1>2. Bytes(Counted) = 0
  <2>1. Counted = {}
    BY <1>1 DEF Counted
  <2>2. Total(Payload, {}) = 0
    BY StudyAssumption, TotalTakes
  <2> QED
    BY <2>1, <2>2 DEF Bytes
<1>3. Total(Claim, Process) = 0
  <2>1. PICK c \in [Process -> Nat] : c = Claim
    BY <1>1
  <2>2. Total(c, Process) <= Cardinality(Process) * 0 /\ Total(c, Process) \in Nat
    BY <1>1, <2>1, StudyAssumption, TotalBound, TotalType
  <2>3. Cardinality(Process) * 0 = 0
    BY StudyAssumption, FS_CardinalityType
  <2> QED
    BY <2>1, <2>2, <2>3
<1> QED
  BY <1>1, <1>2, <1>3, RoomType, StudyAssumption DEF ChargeInv, Claims, Once

-----------------------------------------------------------------------------
(* The theorems                                                            *)

\* The invariant that the others follow from.
THEOREM Invariance == Spec => []IInv
<1>1. IInv /\ [Next]_vars => IInv'
  <2> SUFFICES ASSUME IInv, [Next]_vars PROVE IInv'
    OBVIOUS
  <2>1. ASSUME NEW p \in Process, NEW v \in Value, Start(p, v) \/ RemovePayload(p, v) PROVE IInv'
    BY <2>1, StartStep, RemovePayloadStep
  <2>2. ASSUME NEW p \in Process,
               \/ CheckBudget(p) \/ LookUp(p) \/ WritePayload(p) \/ Register(p) \/ CheckAgain(p)
               \/ Purge(p) \/ Retire(p) \/ LookForRow(p) \/ InsertRow(p) \/ Count(p)
        PROVE  IInv'
    BY <2>2, CheckBudgetStep, LookUpStep, WritePayloadStep, RegisterStep, CheckAgainStep,
       PurgeStep, RetireStep, LookForRowStep, InsertRowStep, CountStep
  <2>3. ASSUME NEW p \in Process,
               \/ ReadSummary(p) \/ WriteSummary(p) \/ StartCompletion(p) \/ ListRows(p)
               \/ Close(p) \/ Crash(p)
        PROVE  IInv'
    BY <2>3, ReadSummaryStep, WriteSummaryStep, StartCompletionStep, ListRowsStep, CloseStep, CrashStep
  <2> QED
    BY <2>1, <2>2, <2>3, StutterStep DEF Next
<1> QED
  BY InitIInv, <1>1, PTL DEF Spec

\* Type correctness of a study.
THEOREM TypeCorrect == Spec => []TypeOK
<1>1. IInv => TypeOK
  BY DEF IInv
<1> QED
  BY <1>1, Invariance, PTL

\* Validations recorded one after the other are all in the summary.
THEOREM ValidationsKeptCorrect == Spec => []ValidationsKept
<1>1. IInv => ValidationsKept
  BY DEF IInv
<1> QED
  BY <1>1, Invariance, PTL

\* A complete study has purged what it kept until completion, whatever died.
THEOREM CompletionPurgesCorrect == Spec => []CompletionPurges
<1>1. IInv => CompletionPurges
  BY DEF IInv, Completion, CompletionPurges
<1> QED
  BY <1>1, Invariance, PTL

\* The bytes charged, with what processes will add.
THEOREM ChargeInvariance == Spec => []ChargeInv
<1>1. TypeOK /\ TypeOK' /\ ChargeInv /\ [Next]_vars => ChargeInv'
  BY ChargeStep
<1> QED
  BY <1>1, ChargeInit, TypeCorrect, PTL DEF Spec

\* The budget is overrun by one Artifact for each other process at most.
THEOREM OverrunBoundedCorrect == Spec => []OverrunBounded
<1>1. TypeOK /\ ChargeInv => OverrunBounded
  <2> SUFFICES ASSUME TypeOK, ChargeInv PROVE OverrunBounded
    OBVIOUS
  <2>1. PICK c \in [Process -> Nat] : c = Claim
    BY ClaimType
  <2>2. Total(Claim, Process) \in Nat
    BY <2>1, StudyAssumption, TotalType
  <2> QED
    BY <2>2, StudyAssumption, RoomType DEF TypeOK, ChargeInv, Claims, OverrunBounded
<1> QED
  BY <1>1, ChargeInvariance, TypeCorrect, PTL

\* A study is charged each Artifact that it recorded, once.
THEOREM ChargedOnceCorrect == Spec => []ChargedOnce
<1>1. ChargeInv => ChargedOnce
  BY DEF ChargeInv, Once, ChargedOnce, Counted, AtCount
<1> QED
  BY <1>1, ChargeInvariance, PTL
=============================================================================
