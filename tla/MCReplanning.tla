---------------------------- MODULE MCReplanning ----------------------------
(* A small calibration plan of one amplifier; four time units are a day.     *)
EXTENDS Replanning, TLC

\* A day of biases, two groups of lamps of the next night, their arcs and the
\* wavelength map of the first.
LampTarget    == {"b1", "h1", "h2", "a1", "a2", "w1"}
LampKind      == "b1" :> "bias" @@ "h1" :> "hg" @@ "h2" :> "hg" @@ "a1" :> "arc"
                 @@ "a2" :> "arc" @@ "w1" :> "wave"
LampTime      == "b1" :> 0 @@ "h1" :> 5 @@ "h2" :> 6 @@ "a1" :> 5 @@ "a2" :> 6 @@ "w1" :> 5
LampEnd       == [LampTime EXCEPT !["b1"] = 4]
LampRank      == "b1" :> 1 @@ "h1" :> 2 @@ "h2" :> 3 @@ "a1" :> 4 @@ "a2" :> 5 @@ "w1" :> 6
LampParents   == "b1" :> {} @@ "h1" :> {} @@ "h2" :> {} @@ "a1" :> {"h1"} @@ "a2" :> {"h2"}
                 @@ "w1" :> {"a1"}

\* The kinds above, as the default calibration graph relates them.
AllKinds  == {"bias", "dark", "ldls", "trace", "hg", "arc", "wave"}
KindGated == AllKinds \ {"bias"}
KindEdges == {<<"dark", "ldls">>, <<"ldls", "trace">>, <<"hg", "arc">>, <<"arc", "wave">>,
              <<"trace", "wave">>}
KindRequires == [k \in AllKinds |-> CASE k = "ldls"  -> {"bias", "dark"}
                                      [] k = "trace" -> {"ldls"}
                                      [] k = "arc"   -> {"hg"}
                                      [] k = "wave"  -> {"arc"}
                                      [] OTHER       -> {}]
KindReleases == [k \in AllKinds |-> IF k = "wave" THEN {"hg"} ELSE {}]
KindEvidence == "hg" :> {"arc", "wave"}
KindReread   == {"hg"}
=============================================================================
