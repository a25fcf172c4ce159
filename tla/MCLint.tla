------------------------------- MODULE MCLint -------------------------------
EXTENDS Lint

Flags(preset, enable, disable, only, json, out) ==
    [preset |-> preset, enable |-> enable, disable |-> disable, enableOnly |-> only,
     json |-> json, out |-> out]

\* A whole preset, checks added and removed, and lists with a repetition.
MCOptions == {
    Flags("strict", {}, {}, <<>>, FALSE, FALSE),
    Flags("private", {"build", "smoke", "replace"}, {"security", "vulnerability"}, <<>>, TRUE, TRUE),
    Flags("all", {}, {"module"}, <<"smoke", "build", "types", "smoke">>, FALSE, TRUE),
    Flags("loose", {}, Loose, <<>>, TRUE, FALSE),
    Flags("loose", {}, {}, <<"replace", "examples", "codeowners", "module">>, TRUE, TRUE)}

MCExtensions ==
    [fine : {Checks, Checks \ {"license", "smoke"}}, k6 : K6Kinds]
==============================================================================
