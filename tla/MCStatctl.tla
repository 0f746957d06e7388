----------------------------- MODULE MCStatctl -----------------------------
(***************************************************************************)
(* Statctl for TLC: every line of up to three items with two names, both   *)
(* spellings and both forms of the namespace flag, a manifest that names   *)
(* its namespace and one that does not, an unusable manifest, and a        *)
(* kubeconfig that cannot be loaded beside the one in the home directory.  *)
(***************************************************************************)
EXTENDS Statctl

CONSTANTS prod, a, b, file1, file2, bad, config, one, c1, plan1, plan2, e1, e2

SomeWords == {"default", prod, a, b, file1, file2, bad, config, one}

SomeItems == {Name(a), Name(b), Give("n", prod), Set("namespace", prod),
          Give("n", "default"), Set("f", file1), Give("file", file2),
          Give("f", bad), Give("kubeconfig", bad), Set("interval", one),
          Give("interval", bad)}

\* A manifest without a namespace is only applied to prod, so that one rollout
\* is enough for the instance.
SomeLines ==
  {line \in UNION {[1..n -> SomeItems] : n \in 0..3} :
     file2 \in {line[i].value : i \in DOMAIN line} =>
       Meant("apply", line).fields.namespace = prod}

Spec1 == [plan |-> plan1, paused |-> FALSE, abort |-> FALSE]
Spec2 == [plan |-> plan2, paused |-> FALSE, abort |-> FALSE]

SomeFiles == [w \in SomeWords |->
  CASE w = file1 -> [namespace |-> prod, name |-> a, spec |-> Spec1]
    [] w = file2 -> [namespace |-> None, name |-> a, spec |-> Spec2]
    [] OTHER -> None]

Configs == [w \in SomeWords \cup {None} |-> IF w = config THEN c1 ELSE None]

SomeKeys == {[cluster |-> c1, namespace |-> prod, name |-> a]}

Symmetry == Permutations(Clients)
=============================================================================
