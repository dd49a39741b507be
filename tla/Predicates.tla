----------------------------- MODULE Predicates -----------------------------
(***************************************************************************)
(* The typed predicate language of src/rules.rs and its evaluator in       *)
(* src/engine.rs; the engine's own module takes the evaluator as a         *)
(* constant operator.                                                      *)
(*                                                                         *)
(* A JSON value is its type and an integer: a number in units small enough *)
(* to tell EPSILON apart, a string or a bool by its rank in their order.   *)
(* A payload maps the fields that are present to values; a payload that is *)
(* not a JSON object (or did not decode) has none.                         *)
(***************************************************************************)
EXTENDS Integers, Sequences

CONSTANTS
    EPSILON,  \* float equality tolerance, in the unit of "num" values
    Preds,    \* the predicate trees in use, each with its subtrees
    Height    \* a number for each of them, above those of its subtrees

Value(type, v) == [t |-> type, v |-> v]
NoValue == Value("absent", 0)   \* Option::None

\* Operands: a literal (a non-finite Float literal resolves to None, so its
\* value is NoValue), a payload field, or one of the five primitives.
Lit(value) == [kind |-> "Lit", val |-> value, name |-> "none", entity |-> NoValue]
Field(name) == [kind |-> "Field", val |-> NoValue, name |-> name, entity |-> NoValue]
Prim(name) == [kind |-> "Prim", val |-> NoValue, name |-> name, entity |-> NoValue]
Proximity(id) == [kind |-> "Prim", val |-> NoValue, name |-> "Proximity", entity |-> id]

\* Predicate nodes.  NoPred is a trigger without `pred`.
Comparison(op, lhs, rhs) == [node |-> "Comparison", op |-> op, lhs |-> lhs, rhs |-> rhs]
And(kids) == [node |-> "And", kids |-> kids]
Or(kids) == [node |-> "Or", kids |-> kids]
Not(kid) == [node |-> "Not", kids |-> <<kid>>]
NoPred == [node |-> "None"]

Ops == {"Eq", "Ne", "Lt", "Gt", "Le", "Ge", "SameZoneAs"}
Prims == {"Zone", "Robot", "Site", "HumanPresence", "Proximity"}

\* The entity of Proximity is a string.
IsOperand(o) ==
    /\ o.kind \in {"Lit", "Field", "Prim"}
    /\ o.kind = "Prim" =>
        o.name \in Prims /\ (o.name = "Proximity" => o.entity.t = "str")

ASSUME PredConstants ==
    /\ Height \in [Preds -> Nat]
    /\ \A p \in Preds :
        \/ p.node = "Comparison" /\ p.op \in Ops /\ IsOperand(p.lhs) /\ IsOperand(p.rhs)
        \/ /\ p.node \in {"And", "Or", "Not"}
           /\ p.kids \in Seq(Preds)
           /\ p.node = "Not" => Len(p.kids) = 1
           /\ \A i \in DOMAIN p.kids : Height[p.kids[i]] < Height[p]

prim_field(name) ==
    CASE name = "Zone" -> "zone_id"
      [] name = "Robot" -> "role"
      [] name = "Site" -> "site_id"
      [] name \in {"HumanPresence", "Proximity"} -> "separation_distance"

Get(payload, field) == IF field \in DOMAIN payload THEN payload[field] ELSE NoValue

\* Proximity resolves only for the configured peer; peer_id must be a string.
resolve_operand(operand, payload) ==
    CASE operand.kind = "Lit" -> operand.val
      [] operand.kind = "Field" -> Get(payload, operand.name)
      [] operand.kind = "Prim" ->
            IF operand.name = "Proximity" /\ Get(payload, "peer_id") # operand.entity
            THEN NoValue
            ELSE Get(payload, prim_field(operand.name))

Abs(n) == IF n < 0 THEN -n ELSE n

values_equal(a, b) ==
    IF a.t = "num" /\ b.t = "num" THEN Abs(a.v - b.v) < EPSILON ELSE a = b

\* json_cmp orders two numbers, strings or bools; anything else is None, and every
\* ordering operator takes None for false.
json_cmp(a, b) ==
    IF a.t # b.t \/ a.t \notin {"num", "str", "bool"} THEN "None"
    ELSE IF a.v < b.v THEN "Less"
    ELSE IF a.v > b.v THEN "Greater"
    ELSE "Equal"

share_zone(zones, a, b) ==
    /\ {a, b} \subseteq DOMAIN zones
    /\ zones[a] \cap zones[b] # {}

eval_comparison(op, l, r, zones) ==
    CASE op = "Eq" -> values_equal(l, r)
      [] op = "Ne" -> ~values_equal(l, r)
      [] op = "Lt" -> json_cmp(l, r) = "Less"
      [] op = "Gt" -> json_cmp(l, r) = "Greater"
      [] op = "Le" -> json_cmp(l, r) \in {"Less", "Equal"}
      [] op = "Ge" -> json_cmp(l, r) \in {"Greater", "Equal"}
      [] op = "SameZoneAs" -> l.t = "str" /\ r.t = "str" /\ share_zone(zones, l.v, r.v)

\* Fault: an absent operand is compared like a JSON null.
compares_null(pred, payload, zones) ==
    eval_comparison(pred.op, resolve_operand(pred.lhs, payload),
                    resolve_operand(pred.rhs, payload), zones)

\* The arm of eval_tree for a comparison: false without both operands.
compares(pred, payload, zones) ==
    LET l == resolve_operand(pred.lhs, payload)
        r == resolve_operand(pred.rhs, payload)
    IN  l # NoValue /\ r # NoValue /\ eval_comparison(pred.op, l, r, zones)

\* Fault: And is satisfied by one of its children.
eval_node_any(eval, p, payload, zones) ==
    CASE p.node = "Comparison" -> compares(p, payload, zones)
      [] p.node \in {"And", "Or"} -> \E i \in DOMAIN p.kids : eval[p.kids[i]]
      [] p.node = "Not" -> ~eval[p.kids[1]]

\* The arms of eval_tree, where eval has the outcomes of the subtrees.
eval_node(eval, p, payload, zones) ==
    CASE p.node = "Comparison" -> compares(p, payload, zones)
      [] p.node = "And" -> \A i \in DOMAIN p.kids : eval[p.kids[i]]
      [] p.node = "Or" -> \E i \in DOMAIN p.kids : eval[p.kids[i]]
      [] p.node = "Not" -> ~eval[p.kids[1]]

eval_tree(pred, payload, zones) ==
    LET eval[p \in Preds] == eval_node(eval, p, payload, zones) IN eval[pred]

eval_predicate(pred, payload, zones) ==
    pred.node = "None" \/ eval_tree(pred, payload, zones)

-----------------------------------------------------------------------------
(* The reference: three-valued evaluation, in which a comparison with an   *)
(* absent operand is unknown and an unknown may not decide anything.       *)

Verdict(known, holds) == IF ~known THEN "unknown" ELSE IF holds THEN "holds" ELSE "fails"
EveryOf(verdicts) ==
    IF "fails" \in verdicts THEN "fails" ELSE IF "unknown" \in verdicts THEN "unknown" ELSE "holds"
SomeOf(verdicts) ==
    IF "holds" \in verdicts THEN "holds" ELSE IF "unknown" \in verdicts THEN "unknown" ELSE "fails"
Opposite(verdict) ==
    IF verdict = "holds" THEN "fails" ELSE IF verdict = "fails" THEN "holds" ELSE "unknown"

MeaningOfComparison(pred, payload, zones) ==
    LET l == resolve_operand(pred.lhs, payload)
        r == resolve_operand(pred.rhs, payload)
    IN  Verdict(NoValue \notin {l, r}, eval_comparison(pred.op, l, r, zones))

MeaningOfNode(meaning, p, payload, zones) ==
    CASE p.node = "Comparison" -> MeaningOfComparison(p, payload, zones)
      [] p.node = "And" -> EveryOf({meaning[p.kids[i]] : i \in DOMAIN p.kids})
      [] p.node = "Or" -> SomeOf({meaning[p.kids[i]] : i \in DOMAIN p.kids})
      [] p.node = "Not" -> Opposite(meaning[p.kids[1]])

Meaning(pred, payload, zones) ==
    LET meaning[p \in Preds] == MeaningOfNode(meaning, p, payload, zones)
    IN  IF pred = NoPred THEN "holds" ELSE meaning[pred]

NotFree(pred) ==
    LET free[p \in Preds] ==
            /\ p.node # "Not"
            /\ p.node \in {"And", "Or"} => \A i \in DOMAIN p.kids : free[p.kids[i]]
    IN  pred = NoPred \/ free[pred]
=============================================================================
