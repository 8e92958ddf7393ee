---------------------------- MODULE MCDagExecutor ----------------------------
(* Every graph over three node ids, and those of the calibration command.    *)
EXTENDS CommandRun

CONSTANTS n1, n2, n3

Ids == <<n1, n2, n3>>

File(disabled, edges) == [legal |-> TRUE, disabled |-> disabled, edges |-> edges]
Found(scanned, made, bad) == [scanned |-> scanned, made |-> made, bad |-> bad]

Gate(k) == <<"master_bias", k, "qa_gate">>
Data(i, k) == <<i, k, "valid">>

\* The default graph, one that is not read, one without its biases, edges that
\* form a cycle, a chain of which some kinds are no part, a needless gate.
MCFiles ==
  {File({}, {}),
   [legal |-> FALSE, disabled |-> {}, edges |-> {}],
   File({"master_bias"}, {}),
   File({}, {Data("master_dark", "master_ldls"), Data("master_ldls", "master_dark")}),
   File({"ldls_spectrum"}, {Gate("master_ldls"), <<"trace_map", "twi_spectrum", "optional">>}),
   File({}, {Gate("master_dark"), Gate("fiber_response"), Data("twi_spectrum", "fiber_response")})}

MCSituations ==
  {Found({"master_bias", "master_dark"}, {}, {}),
   Found({"master_bias", "master_ldls"}, {"master_bias"}, {}),
   Found({"master_bias", "master_ldls", "master_dark"}, {"master_ldls"}, {"master_dark"}),
   Found({"master_bias", "master_twilight", "master_ldls"},
         {"master_ldls", "trace_map", "ldls_spectrum", "master_bias"}, {}),
   Found({"master_bias", "master_dark"}, {"master_bias", "master_dark"}, {"master_bias"})}

\* Ids are interchangeable, so one order of registration stands for all.
DeclaredInTurn == \A i \in 2..3 : rank[Ids[i]] # 0 => rank[Ids[i - 1]] \in 1..(rank[Ids[i]] - 1)

\* With a reporter, graphs over two ids that are not a command's.
ReportedSmall == mode = "off" \/ (stage = "caller" /\ progress[n3] = "absent")

\* Flags that are of no consequence together.
FlagsTold == stage # "caller" => (setup.planOnly => ~setup.strict) /\ (setup.force => setup.strict)
=============================================================================
