---------------------------- MODULE MCCollector ----------------------------
(* Heaps of four slots for TLC: slot 1 a WeakMap with up to MaxWeak entries   *)
(* on the other slots, slot 2 an object, a WeakMap or a WeakSet, slot 3 an    *)
(* object or a vacant slot, slot 4 an object, a WeakRef or a registry.  Every *)
(* subset of the slots is a set of roots.                                     *)
EXTENDS Collector

CONSTANT MaxWeak    \* bound on the entries of the WeakMap in slot 1

Plain(f) == [Vacant EXCEPT !.kind = "plain", !.fields = f]

Pairs == {p \in (2..MaxSlots) \X (2..MaxSlots) : p[1] # p[2]}

First == {[Vacant EXCEPT !.kind = "weakmap", !.weak = w] :
             w \in {W \in SUBSET Pairs : Cardinality(W) <= MaxWeak}}

Second ==
    {Plain({}), Plain({3})} \cup
    {[Vacant EXCEPT !.kind = k, !.weak = {p}] : k \in {"weakmap", "weakset"},
                                               p \in {<<3, 4>>, <<4, 1>>}}

Third == {Vacant, Plain({}), Plain({2})}

Cell(i, t, h) == [id |-> i, target |-> t, held |-> h, token |-> None]

Registries ==
    {[Vacant EXCEPT !.kind = "registry", !.callback = 2,
                    !.cells = {Cell(1, 3, None), Cell(2, 1, 3)}, !.pending = p,
                    !.scheduled = (p # {})] : p \in {{}, {Cell(3, 4, 2)}}}

Fourth ==
    {Plain({}), Plain({3}), [Vacant EXCEPT !.kind = "weakref", !.target = 3]}
        \cup Registries

MCHeaps == {<<a, b, c, d>> : a \in First, b \in Second, c \in Third, d \in Fourth}
=============================================================================
