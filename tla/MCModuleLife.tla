----------------------------- MODULE MCModuleLife -----------------------------
(* Model values for ModuleLife: fields and objects are interchangeable, if    *)
(* all objects are packages or none is.                                       *)
EXTENDS ModuleLife, TLC

Interchangeable == Permutations(Fields) \cup Permutations(Objects)
=============================================================================
