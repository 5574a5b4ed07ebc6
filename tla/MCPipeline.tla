----------------------------- MODULE MCPipeline -----------------------------
(***************************************************************************)
(* A small instance of Pipeline for TLC: files of up to two rows in two    *)
(* columns, one job, two scoring requests at a time.                       *)
(***************************************************************************)
EXTENDS Pipeline, TLC

CONSTANTS u1, j1, tab, other

(* Header names, and cells: two ids, a name, and the unusable cells.        *)
File == {"id", "name"}
SomeHeaders == {<<"id", "name">>, <<"name", "id">>, <<"id">>, <<"id", "name", "id">>,
                <<"id", "name", "extra">>}
SomeRecords == {<<"1", "2">>, <<"2", "1">>, <<"1">>, <<Blank, "1">>, <<"1", TooLong>>}

SomeTasks == {j1} \X ValidStores
TheJob == [t \in SomeTasks |-> j1]
Ids == [t \in SomeTasks |-> IF t[2]["id"] = "1" THEN 1 ELSE 2]

Cells(f, r, s) == "footfall" :> f @@ "revenue" :> r @@ "sizeSqft" :> s

(* One store is better, and clears more bars.                               *)
SomeMetrics == [t \in SomeTasks |-> IF t[2]["id"] = "1" THEN Cells(2, 1, 0) ELSE Cells(1, 1, 0)]

(* The first config ties the two stores; under the second each is at a      *)
(* cut-off, and the better one clears every bar.                            *)
SomeConfigs == {
  [bars |-> Cells(1, 2, 1), weights |-> Cells(50, 30, 20), large |-> 70, medium |-> 40],
  [bars |-> Cells(2, 1, 0), weights |-> Cells(60, 40, 0), large |-> 100, medium |-> 40]}

JobOpenByAll == [c \in {tab, other} |-> j1]
=============================================================================
