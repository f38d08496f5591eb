--------------------------- MODULE MCManagerLayer ---------------------------
(* Layers of three manifests that use the same item: a genesissecret with a  *)
(* static value over it, or one with an envfile and an invalid output that   *)
(* adds a key to the Secret of the second, which reads the item twice; a     *)
(* helmfile with a variable and two releases.                                *)
EXTENDS ManagerLayer

CONSTANTS a, b, h, i, k, l, m, s, u

Secret(name) == [stdout |-> FALSE, secret |-> name]
Stdout == [stdout |-> TRUE, secret |-> None]
Invalid == [stdout |-> TRUE, secret |-> s]
Item(keys) == [item |-> i, keys |-> keys]
Genesis(provider, needs, static, outputs) ==
    [type |-> "genesissecret", provider |-> provider, needs |-> needs, static |-> static,
     outputs |-> outputs]

Static == Genesis("", <<Item({k, l})>>, {l}, <<Secret(s)>>)
Twice == Genesis("default-op", <<Item({k, l}), Item({l})>>, {}, <<Stdout, Secret(u)>>)
FromFile == Genesis("file", <<Item({m})>>, {}, <<Secret(u), Invalid>>)
Var == [type |-> "helmfile", provider |-> "", needs |-> <<Item({k})>>, static |-> {}, outputs |-> <<>>]

TwoLayers ==
    {[g \in Callers |-> IF g = h THEN Var ELSE IF g = b THEN Twice ELSE first] :
        first \in {Static, FromFile}}

Helmfiles ==
    [g \in Renderers |-> [kubeVersion |-> "",
                          releases |-> <<[oci |-> FALSE, alias |-> "hub"], [oci |-> FALSE, alias |-> ""]>>]]
Repos == [hub |-> "oci"]
OneProvider == <<[name |-> "file", type |-> "envfile"]>>
AllCommands == {"apply", "build", "destroy"}
=============================================================================
