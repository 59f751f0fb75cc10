----------------------------- MODULE MCKedaAuth -----------------------------
(* Instances of KedaAuth for TLC. *)
EXTENDS KedaAuth

CONSTANTS i1, l1, a, b

MCServices == {i1, l1}
MCKindOf == [s \in MCServices |-> IF s = i1 THEN "isvc" ELSE "llm"]
MCResources == <<"ServiceAccount", "Role">>
MCAnnotated == {"Role"}
MCAnns == {a, b}

MCSpec(declares, inherits, stopped, ann) ==
  [declares |-> declares, inherits |-> inherits, stopped |-> stopped, ann |-> ann, deleting |-> FALSE]

\* The LLMInferenceService may ask for the credentials itself or through a
\* base configuration, and may be stopped.
MCSpecs == [s \in MCServices |->
  {MCSpec(FALSE, FALSE, FALSE, NoAnn), MCSpec(TRUE, FALSE, FALSE, a)} \cup
  IF s = i1 THEN {} ELSE {MCSpec(FALSE, TRUE, FALSE, NoAnn), MCSpec(TRUE, FALSE, FALSE, b),
                          MCSpec(TRUE, FALSE, TRUE, a), MCSpec(FALSE, FALSE, TRUE, NoAnn)}]
=============================================================================
