--------------------------- MODULE MCOrasPuller ---------------------------
(* Instances of OrasPuller: two pulls of two processes, or of one. *)
EXTENDS OrasPuller

CONSTANTS A, B, p, q, t, d, e, f

OwnProcess == [x \in Pulls |-> IF x = p THEN A ELSE B]
OneProcess == [x \in Pulls |-> A]
OwnKeys == [x \in Tags |-> x]

File(size) == [kind |-> "file", name |-> "inside", link |-> "inside", size |-> size]
Odd(kind, name, link) == [kind |-> kind, name |-> name, link |-> link, size |-> 0]

(* A good archive that fills the size limit, one that exceeds it by more    *)
(* than a byte in its second file, and one with an entry too many.          *)
Archives ==
    [x \in Digests |->
       CASE x = d -> <<File(1), File(2)>>
         [] x = e -> <<File(2), File(4)>>
         [] OTHER -> <<File(0), File(0), File(0)>>]

Manifest(ref) == [ref |-> ref, target |-> "inside", delegate |-> "helmfile"]
MixedSpecs == {Manifest(x) : x \in {t, d}} \cup {[Manifest(d) EXCEPT !.target = "escapes"]}
SameArtifact == {Manifest(d)}
AllOptions == {o \in [noCache : BOOLEAN, offline : BOOLEAN] : ~(o.noCache /\ o.offline)}
OnlyNoCache == {[noCache |-> TRUE, offline |-> FALSE]}
=============================================================================
