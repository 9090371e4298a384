----------------------------- MODULE MCResults -----------------------------
(***************************************************************************)
(* A case over the exchange, one over the trading screen, which both       *)
(* runners file, and one over the live protocol that nobody has declared.  *)
(* The first two share a module, so they can share an issue.               *)
(***************************************************************************)
EXTENDS Results

MCKindOf == [A |-> "venue", B |-> "screen", C |-> "live"]
MCDeclared == [A |-> {"Passed"}, B |-> {"Passed", "Blocked"}]
MCModuleOf == [A |-> "trading", B |-> "trading", C |-> "contract"]
MCPlace == [A |-> 1, B |-> 2, C |-> 3]

=============================================================================
