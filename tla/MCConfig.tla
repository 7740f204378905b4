------------------------------ MODULE MCConfig ------------------------------
(* The entries of Chain Misra-Gries and the output limit, and lines that    *)
(* assign them as scalars, as lists on one line and on several, and badly.  *)
EXTENDS Config, TLC

Attributes(type, needs, list, default, ranged) ==
    [type |-> type, needs |-> needs, list |-> list, default |-> default,
     ranged |-> ranged]

MCDeclared ==
    ("out_limit" :> Attributes("u64", "never", FALSE, "0", FALSE)) @@
    ("CMG.enabled" :> Attributes("boolean", "never", FALSE, "false", FALSE)) @@
    ("CMG.epsilon" :> Attributes("double", "CMG.enabled", TRUE, "none", TRUE)) @@
    ("CMG.use_update_new" :>
        Attributes("boolean", "CMG.enabled", TRUE, "true", FALSE))

eps == "CMG.epsilon"

MCLines == {
    <<"CMG.enabled", "=", "true", " ", "#", "x">>,
    <<eps, "=", "5">>,
    <<" ", eps, " ", "=", "\"", "7", "\"", " ", "x">>,
    <<eps, "=", "[", "5", ",", "7", " ", ",", "5", "]">>,
    <<eps, "=", "[", "7", ",", " ", "]">>,
    <<eps, "=", "[", "5", ",">>,
    <<"7", "]">>,
    <<" ">>,
    <<eps, "=", "[", "5", ",", ",", "7", "]">>,
    <<eps, "=", "[", "x", "]">>,
    <<eps, "=", "0">>,
    <<eps, "5">>,
    <<"CMG.use_update_new", "=", "[", "true", ",", "false", ",", "true", "]">>,
    <<"CMG.enabled", "=", "[", "true", "]">>,
    <<"out_limit", "=", "[", "5", "]">>}
=============================================================================
