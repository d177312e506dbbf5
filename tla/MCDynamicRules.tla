--------------------------- MODULE MCDynamicRules ---------------------------
(* Two versions of one rule, the second an emergency that may expire, then   *)
(* another rule whose versions start again; two polls that may overlap.      *)
EXTENDS DynamicRules

MCIdOf == <<"A", "A", "B">>
MCVersionOf == <<1, 2, 1>>
Store(r, f, fails) == [hasRedis |-> r, hasFile |-> f, writesFail |-> fails]
MCDeployments == {Store(TRUE, FALSE, TRUE), Store(FALSE, TRUE, TRUE), Store(TRUE, TRUE, FALSE)}
=============================================================================
