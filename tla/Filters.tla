-------------------------------- MODULE Filters --------------------------------
(***************************************************************************)
(* The three evaluators of filters: CQL (utils/cql_filter.rs, in WMS and   *)
(* WFS), the OGC filters of WFS (services/wfs.rs) and those of styles      *)
(* (utils/sld_parser.rs).                                                  *)
(*                                                                         *)
(* A feature is [props, place]: its properties, a function on the names it *)
(* has, and where its geometry is: a point "inside" or "outside" of the    *)
(* box of the request, or an "area". A value is [kind, text], where text   *)
(* is what the value prints as.                                            *)
(*                                                                         *)
(* CQL and OGC filters are binary trees, those of styles have lists of     *)
(* arguments. The leaves are alike:                                        *)
(*   [op |-> "cmp", attr, rel, lit]   a comparison with a literal          *)
(*   [op |-> "null", attr], [op |-> "notnull", attr]                       *)
(*   [op |-> "between", attr, low, high]                                   *)
(*   [op |-> "among", attr, texts]    IN, LIKE and comparison without case *)
(*   [op |-> "bbox"]                                                       *)
(***************************************************************************)
EXTENDS Integers, Sequences, SequencesExt

CONSTANTS
    NumberOf,   \* the texts that read as numbers, each with its number
    RankOf      \* the order of the texts

IsNumeral(t) == t \in DOMAIN NumberOf

\* a rel b, for numbers
Holds(a, rel, b) ==
    CASE rel = "="  -> a = b
      [] rel = "<>" -> a # b
      [] rel = "<"  -> a < b
      [] rel = "<=" -> a <= b
      [] rel = ">"  -> a > b
      [] rel = ">=" -> a >= b

Has(f, attr) == attr \in DOMAIN f.props
IsNull(f, attr) == Has(f, attr) => f.props[attr].kind = "null"

InRange(f, e) ==
    /\ Has(f, e.attr)
    /\ LET t == f.props[e.attr].text
       IN  IsNumeral(t) /\ NumberOf[t] \in NumberOf[e.low] .. NumberOf[e.high]

-----------------------------------------------------------------------------
\* CQL: the kind of the literal says how to compare.
CompareValues(v, rel, lit) ==
    CASE lit.kind = "number"  -> /\ v.kind \in {"text", "number"}
                                 /\ IsNumeral(v.text)
                                 /\ Holds(NumberOf[v.text], rel, NumberOf[lit.text])
      [] lit.kind = "text"    -> Holds(RankOf[v.text], rel, RankOf[lit.text])
      [] lit.kind = "boolean" -> /\ v.kind \in {"text", "boolean"}
                                 /\ rel \in {"=", "<>"}
                                 /\ (rel = "=") = ((v.text \in {"true", "1"}) = (lit.text = "true"))

RECURSIVE EvaluateCql(_, _)
EvaluateCql(f, e) ==
    CASE e.op = "and"     -> EvaluateCql(f, e.l) /\ EvaluateCql(f, e.r)
      [] e.op = "or"      -> EvaluateCql(f, e.l) \/ EvaluateCql(f, e.r)
      [] e.op = "not"     -> ~EvaluateCql(f, e.arg)
      [] e.op = "cmp"     -> Has(f, e.attr) /\ CompareValues(f.props[e.attr], e.rel, e.lit)
      [] e.op = "null"    -> ~Has(f, e.attr)
      [] e.op = "notnull" -> Has(f, e.attr)
      [] e.op = "between" -> InRange(f, e)
      [] e.op = "among"   -> Has(f, e.attr) /\ f.props[e.attr].text \in e.texts
      [] e.op = "bbox"    -> f.place = "inside"

-----------------------------------------------------------------------------
\* Slip: numbers are compared as they are printed.
ComparePropertyAsText(f, e) ==
    Has(f, e.attr) /\ Holds(RankOf[f.props[e.attr].text], e.rel, RankOf[e.lit.text])

\* OGC filters of WFS: as numbers if both sides read as numbers.
CompareProperty(f, e) ==
    /\ Has(f, e.attr)
    /\ LET v == f.props[e.attr].text
           l == e.lit.text
       IN  IF IsNumeral(v) /\ IsNumeral(l)
           THEN Holds(NumberOf[v], e.rel, NumberOf[l])
           ELSE (e.rel = "=" /\ v = l) \/ (e.rel = "<>" /\ v # l)

RECURSIVE ValidateFilter(_, _)
ValidateFilter(f, e) ==
    CASE e.op = "and"     -> ValidateFilter(f, e.l) /\ ValidateFilter(f, e.r)
      [] e.op = "or"      -> ValidateFilter(f, e.l) \/ ValidateFilter(f, e.r)
      [] e.op = "not"     -> ~ValidateFilter(f, e.arg)
      [] e.op = "cmp"     -> CompareProperty(f, e)
      [] e.op = "null"    -> IsNull(f, e.attr)
      [] e.op = "between" -> InRange(f, e)
      [] e.op = "among"   -> Has(f, e.attr) /\ f.props[e.attr].text \in e.texts
      [] e.op = "bbox"    -> f.place # "outside"

-----------------------------------------------------------------------------
\* Filters of styles: equality of texts, order of numbers; a property that is
\* missing is different from everything.
CompareRule(f, e) ==
    LET v == f.props[e.attr].text
        l == e.lit.text
    IN  CASE e.rel = "="  -> Has(f, e.attr) /\ v = l
          [] e.rel = "<>" -> Has(f, e.attr) => v # l
          [] OTHER -> /\ Has(f, e.attr) /\ IsNumeral(v) /\ IsNumeral(l)
                      /\ Holds(NumberOf[v], e.rel, NumberOf[l])

RECURSIVE EvaluateFilter(_, _)
EvaluateFilter(f, e) ==
    CASE e.op = "and"     -> \A i \in DOMAIN e.args : EvaluateFilter(f, e.args[i])
      [] e.op = "or"      -> \E i \in DOMAIN e.args : EvaluateFilter(f, e.args[i])
      [] e.op = "not"     -> ~EvaluateFilter(f, e.args[1])
      [] e.op = "cmp"     -> CompareRule(f, e)
      [] e.op = "null"    -> IsNull(f, e.attr)
      [] e.op = "between" -> InRange(f, e)
      [] e.op = "among"   -> Has(f, e.attr) /\ f.props[e.attr].text \in e.texts

\* A rule of a style draws the features in its range of scales, if one of its
\* filters holds. An absent bound, scale or filter does not exclude.
MatchRule(rule, f, scale) ==
    /\ \A s \in scale : /\ \A low \in rule.min : low <= s
                        /\ \A high \in rule.max : s <= high
    /\ rule.filters # <<>> => \E i \in DOMAIN rule.filters : EvaluateFilter(f, rule.filters[i])
=============================================================================
