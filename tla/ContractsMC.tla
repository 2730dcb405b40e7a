----------------------------- MODULE ContractsMC -----------------------------
(* Instances of Contracts: three messages and two enums, cyclic references,   *)
(* a name borne by two messages and one by two enums.                         *)
EXTENDS Contracts, TLC

CONSTANTS m1, m2, m3, e1, e2, p, q, r

F(number, kind, type, default) == [number |-> number, kind |-> kind, type |-> type, default |-> default]
Number(default) == <<F(1, "scalar", Service, default)>>

HeapSet ==
    {[fields  |-> (m1 :> <<F(1, "single", a, "none"), F(2, "list", b, "none")>> @@ m2 :> c @@ m3 :> d),
      values  |-> (e1 :> <<[number |-> 0, alias |-> "x"], [number |-> 1, alias |-> "y"], [number |-> 1, alias |-> "z"]>>
                   @@ e2 :> <<[number |-> 0, alias |-> "w"]>>),
      name    |-> (m1 :> "A" @@ m2 :> "B" @@ m3 :> n @@ e1 :> "E" @@ e2 :> k),
      methods |-> <<p>>,
      io      |-> [m \in {p, q, r} |-> [input |-> m1, output |-> m2]]] :
        a \in {m2, e2}, b \in {m3, e1},
        c \in {Number("0"), <<F(1, "map", m3, "none")>>},
        d \in {Number("-0"), <<F(1, "list", e1, "none"), F(2, "single", m1, "none")>>},
        n \in {"B", "C"}, k \in {"E", "F"}}
=============================================================================
