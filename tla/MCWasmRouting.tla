--------------------------- MODULE MCWasmRouting ---------------------------
EXTENDS WasmRouting

\* One memo for each way ValidateAndParseMemo can end
Plain == [wasm |-> "absent", contract |-> "absent", msg |-> "absent",
          forward |-> FALSE]
Call == [wasm |-> "map", contract |-> "swap", msg |-> "map",
         forward |-> FALSE]

MCMemos ==
  {Plain, [Plain EXCEPT !.forward = TRUE], [Plain EXCEPT !.wasm = "not-map"],
   Call, [Call EXCEPT !.forward = TRUE], [Call EXCEPT !.contract = "alice"],
   [Call EXCEPT !.msg = "not-map"]}
=============================================================================
