-------------------------- MODULE MCLayeredApply --------------------------
(* Instances of LayeredApply: small graphs with every option. *)
EXTENDS LayeredApply

CONSTANTS a, b, c, none, t

M(n, deps, tags, tests) ==
    [name |-> n, dependsOn |-> deps, tags |-> tags, tests |-> tests]

(* A fork, a chain, a join and a diamond prefix; a cycle, an unknown name; *)
(* lists without dependsOn, with a missing and with a duplicate name.      *)
RunInputs == {
    << M(a, <<>>, {t}, "none"), M(b, <<a>>, {t}, "timed"), M(c, <<a>>, {}, "untimed") >>,
    << M(a, <<>>, {}, "timed"), M(b, <<a>>, {t}, "none"), M(c, <<b>>, {t}, "timed") >>,
    << M(c, <<a, b>>, {t}, "timed"), M(a, <<>>, {t}, "timed"), M(b, <<>>, {t}, "timed") >>,
    << M(a, <<b>>, {}, "none"), M(b, <<a>>, {}, "none") >>,
    << M(a, <<c>>, {}, "none"), M(b, <<>>, {}, "none") >>,
    << M(a, <<>>, {t}, "timed"), M(b, <<>>, {t}, "none") >>,
    << M(none, <<>>, {t}, "none"), M(b, <<>>, {t}, "timed") >>,
    << M(a, <<>>, {t}, "none"), M(a, <<>>, {t}, "timed") >> }

NameSet == {a, b, c}
AllOptions == [sync : BOOLEAN, prune : BOOLEAN, atomic : BOOLEAN]
AllFilters == {{}, {t}}
=============================================================================
