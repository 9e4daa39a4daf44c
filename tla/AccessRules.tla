------------------------------ MODULE AccessRules ------------------------------
(***************************************************************************)
(* Fine-grained access to layers, utils/geofence.rs. The permissions table *)
(* has rules for a user, a role and a resource, each of which may be a     *)
(* wildcard, with an effect and a priority.                                *)
(*                                                                         *)
(* A rule is [username, role, type, name, mode, effect, priority]; a       *)
(* request is [username, role, workspace, store, layer, mode].             *)
(***************************************************************************)
EXTENDS Integers, Sequences, SequencesExt

Wildcard == "*"
NoMatch == -1

ModeCovers(ruleMode, requested) ==
    \/ ruleMode = "admin"
    \/ ruleMode = "write" /\ requested # "admin"
    \/ ruleMode = "read" /\ requested = "read"

IsNamed(p, target) == p.name \in {Wildcard, target}

NamesLayer(p, ctx) ==
    \/ IsNamed(p, ctx.layer)
    \/ ctx.workspace # "" /\ IsNamed(p, ctx.workspace \o ":" \o ctx.layer)

\* The type of a rule decides its rank; a wildcard ranks like a name.
ResourceScore(p, ctx) ==
    CASE p.type = "layer" /\ NamesLayer(p, ctx) -> 300
      [] p.type = "store" /\ IsNamed(p, ctx.store) -> 200
      [] p.type = "workspace" /\ IsNamed(p, ctx.workspace) -> 100
      [] p.type = "service" /\ p.name \in {Wildcard, ""} -> 50
      [] OTHER -> NoMatch

SubjectScore(p, ctx) ==
    IF p.username \in {ctx.username, Wildcard} /\ p.role \in {ctx.role, Wildcard}
    THEN (IF p.username = ctx.username THEN 4 ELSE 0)
         + (IF p.role = ctx.role THEN 2 ELSE 0)
    ELSE NoMatch

Applies(p, ctx) ==
    /\ ModeCovers(p.mode, ctx.mode)
    /\ ResourceScore(p, ctx) # NoMatch
    /\ SubjectScore(p, ctx) # NoMatch

Score(p, ctx) == ResourceScore(p, ctx) + SubjectScore(p, ctx)

\* Slip: of equally specific rules the last one decides.
BeatsLast(p, cur, ctx) == Score(p, ctx) >= Score(cur, ctx)

\* p takes the place of cur, the best of the rules before it.
Beats(p, cur, ctx) ==
    LET s == Score(p, ctx)
        c == Score(cur, ctx)
    IN  \/ s > c
        \/ s = c /\ p.priority > cur.priority
        \/ s = c /\ p.priority = cur.priority /\ p.effect = "deny" /\ cur.effect = "allow"

\* The rules are looked through once, in the order the store lists them; best[n]
\* is the best of the first n, if one of them applies.
Decider(rules, ctx) ==
    LET best[n \in 0 .. Len(rules)] ==
            IF n = 0 THEN <<>>
            ELSE IF /\ Applies(rules[n], ctx)
                    /\ best[n - 1] = <<>> \/ Beats(rules[n], best[n - 1][1], ctx)
                 THEN <<rules[n]>> ELSE best[n - 1]
    IN  best[Len(rules)]

\* Where no rule applies the layer is open.
Evaluate(rules, ctx) ==
    LET best == Decider(rules, ctx) IN best = <<>> \/ best[1].effect = "allow"

EnforceLayerAccess(enabled, hasStore, rules, ctx) ==
    enabled /\ ctx.role # "admin" /\ hasStore => Evaluate(rules, ctx)

-----------------------------------------------------------------------------
\* Without an order of the rules: of those that apply, the ones of the highest
\* rank, and of these the ones of the highest priority.
BestBy(Rank(_, _), rules, ctx) ==
    LET applying == {p \in ToSet(rules) : Applies(p, ctx)}
        Below(q, p) == \/ Rank(q, ctx) < Rank(p, ctx)
                       \/ Rank(q, ctx) = Rank(p, ctx) /\ q.priority <= p.priority
    IN  {p \in applying : \A q \in applying : Below(q, p)}

\* What the comment of the module promises: an exact resource (a layer before a
\* store before a workspace) comes before a wildcard, and of equal resources the
\* exact subject does; the best rules decide, and one that denies is enough.
Exact(p) == p.type # "service" /\ p.name # Wildcard

PromisedRank(p, ctx) == IF Exact(p) THEN 1000 + Score(p, ctx) ELSE Score(p, ctx)

PromisedAllow(rules, ctx) == \A p \in BestBy(PromisedRank, rules, ctx) : p.effect = "allow"

\* What evaluate does: a wildcard of a type ranks like a name of this type.
BestAllow(rules, ctx) == \A p \in BestBy(Score, rules, ctx) : p.effect = "allow"

\* Where the two differ: a rule with a wildcard and one with a name apply, and
\* the type of the first is not below that of the second.
WildcardRanksWithNames(rules, ctx) ==
    LET applying == {p \in ToSet(rules) : Applies(p, ctx)}
    IN  \E p, q \in applying : ~Exact(p) /\ Exact(q) /\ ResourceScore(p, ctx) >= ResourceScore(q, ctx)
=============================================================================
