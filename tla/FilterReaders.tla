----------------------------- MODULE FilterReaders -----------------------------
(***************************************************************************)
(* How a filter is read. A filter as its author means it is a tree with    *)
(* [op |-> "and" or "or", args |-> a sequence], [op |-> "not", args] and   *)
(* the leaves of Filters. It arrives as                                    *)
(*   - a CQL text, which parse_cql of utils/cql_filter.rs splits at        *)
(*     keywords, again and again. A word of the text is a record [t]; a    *)
(*     whole leaf is one word, except BETWEEN, whose parts matter as it    *)
(*     holds an AND;                                                       *)
(*   - an OGC filter, an XML tree, for WFS;                                *)
(*   - the events of the same XML, for styles.                             *)
(***************************************************************************)
EXTENDS Filters

CONSTANTS
    Upper,     \* the names of attributes in capitals
    EndsIn     \* the names of attributes that end in OR or AND, each with which

Word(t) == [t |-> t]
Leaf(e) == [t |-> "leaf", e |-> e]
Attribute(a) == [t |-> "attribute", a |-> a]
Literal(l) == [t |-> "literal", l |-> l]

\* What is no expression, and an attribute that no feature has.
Error == [op |-> "error"]
NoAttribute == "no attribute"

-----------------------------------------------------------------------------
\* The text a client writes: brackets around what binds less, and no others.
\* The rank of an operator is how strongly it binds.
Binding(node) == CASE node.op = "or" -> 1 [] node.op = "and" -> 2
                   [] node.op = "not" -> 3 [] OTHER -> 4

RECURSIVE CqlText(_)
CqlText(node) ==
    LET Inside(n, b) == IF Binding(n) < b THEN <<Word("(")>> \o CqlText(n) \o <<Word(")")>>
                                          ELSE CqlText(n)
        Joined(kw) == FoldLeft(LAMBDA text, n : text \o <<Word(kw)>> \o Inside(n, Binding(node) + 1),
                               Inside(node.args[1], Binding(node) + 1), Tail(node.args))
    IN  CASE node.op = "or"      -> Joined("OR")
          [] node.op = "and"     -> Joined("AND")
          [] node.op = "not"     -> <<Word("NOT")>> \o Inside(node.args[1], 3)
          [] node.op = "between" -> <<Attribute(node.attr), Word("BETWEEN"), Literal(node.low),
                                      Word("AND"), Literal(node.high)>>
          [] OTHER -> <<Leaf(node)>>

\* The events an XML reader reports for the filter.
RECURSIVE Events(_)
Events(node) ==
    IF node.op \in {"and", "or", "not"}
    THEN <<[open |-> node.op]>> \o FlattenSeq([i \in DOMAIN node.args |-> Events(node.args[i])])
                                \o <<[close |-> node.op]>>
    ELSE <<[leaf |-> node]>>

-----------------------------------------------------------------------------
\* CQL. Brackets that are open before place i of s.
Depth(s, i) == Cardinality({j \in 1 .. i : s[j].t = "("}) - Cardinality({j \in 1 .. i : s[j].t = ")"})

Mentions(s, kw) == \E i \in DOMAIN s : s[i].t = kw

\* The keyword at the end of the attribute that the word is or begins with, if
\* there is one.
Ending(w) ==
    LET names == CASE w.t = "attribute" -> {w.a}
                   [] w.t = "leaf" /\ "attr" \in DOMAIN w.e -> {w.e.attr}
                   [] OTHER -> {}
    IN  {EndsIn[a] : a \in names \cap DOMAIN EndsIn}

\* The parts of s between the keywords that stand outside of brackets. A keyword
\* may be the end of a longer word: "color = 1" is cut into "col" and "= 1".
SplitTopLevel(s, keywords) ==
    LET Torn(i) == Ending(s[i]) \cap keywords # {} /\ Depth(s, i) = 0
        Pieces(i) == <<Word("stub"), Word(CHOOSE kw \in Ending(s[i]) : TRUE), Word("stub")>>
        read == FlattenSeq([i \in DOMAIN s |-> IF Torn(i) THEN Pieces(i) ELSE <<s[i]>>])
        Cuts == {i \in DOMAIN read : read[i].t \in keywords /\ Depth(read, i) = 0}
        Ends == SetToSortSeq(Cuts \cup {Len(read) + 1}, <)
        Part(k) == SubSeq(read, IF k = 1 THEN 1 ELSE Ends[k - 1] + 1, Ends[k] - 1)
    IN  [k \in DOMAIN Ends |-> Part(k)]

Combine(op, l, r) ==
    IF Error \in {l, r} THEN Error ELSE [op |-> op, l |-> l, r |-> r]

\* attribute BETWEEN literal AND literal. What stands before BETWEEN is the
\* attribute, whatever it is.
ParseBetween(s) ==
    LET b    == SelectInSeq(s, LAMBDA w : w.t = "BETWEEN")
        rest == SubSeq(s, b + 1, Len(s))
        a    == SelectInSeq(rest, LAMBDA w : w.t = "AND")
    IN  IF a = 2 /\ Len(rest) = 3 /\ rest[1].t = "literal" /\ rest[3].t = "literal"
        THEN [op |-> "between", low |-> rest[1].l, high |-> rest[3].l,
              attr |-> IF b = 2 /\ s[1].t = "attribute" THEN s[1].a ELSE NoAttribute]
        ELSE Error

\* The text before IS NULL is taken from the capitalised copy. The beginning of
\* a word that was cut reads as nothing.
ParsePrimary(s) ==
    LET last == s[Len(s)]
        Capital(a) == IF a \in DOMAIN Upper THEN Upper[a] ELSE a
    IN  IF s = <<>> THEN Error
        ELSE IF last.t = "leaf" /\ last.e.op \in {"null", "notnull"}
        THEN [last.e EXCEPT !.attr = IF Len(s) = 1 THEN Capital(@) ELSE NoAttribute]
        ELSE IF Mentions(s, "BETWEEN") THEN ParseBetween(s)
        ELSE IF Len(s) = 1 /\ last.t = "leaf" THEN last.e
        ELSE Error

RECURSIVE ParseOrExpr(_), ParseAndExpr(_), ParseNotExpr(_)
ParseOrExpr(s) ==
    LET parts == SplitTopLevel(s, {"OR"})
    IN  FoldLeft(LAMBDA e, part : Combine("or", e, ParseAndExpr(part)),
                 ParseAndExpr(parts[1]), Tail(parts))

\* A text with a BETWEEN is not split at AND.
ParseAndExpr(s) ==
    LET parts == SplitTopLevel(s, {"AND"})
    IN  IF Mentions(s, "BETWEEN") THEN ParseNotExpr(s)
        ELSE FoldLeft(LAMBDA e, part : Combine("and", e, ParseNotExpr(part)),
                      ParseNotExpr(parts[1]), Tail(parts))

ParseNotExpr(s) ==
    IF s # <<>> /\ s[1].t = "NOT"
    THEN LET inner == ParseNotExpr(Tail(s))
         IN  IF inner = Error THEN Error ELSE [op |-> "not", arg |-> inner]
    ELSE IF Len(s) > 1 /\ s[1].t = "(" /\ s[Len(s)].t = ")"
    THEN ParseOrExpr(SubSeq(s, 2, Len(s) - 1))
    ELSE ParsePrimary(s)


ParseCql(s) == ParseOrExpr(s)

\* WMS draws the features the filter keeps, all of them if it cannot be read;
\* WFS refuses the request then.
WmsKeeps(f, s) == LET e == ParseCql(s) IN e = Error \/ EvaluateCql(f, e)

-----------------------------------------------------------------------------
\* OGC filters: lists of arguments become binary trees, from the left.
RECURSIVE NodeToFilter(_)
NodeToFilter(node) ==
    CASE node.op \in {"and", "or"} ->
            FoldLeft(LAMBDA e, n : [op |-> node.op, l |-> e, r |-> NodeToFilter(n)],
                     NodeToFilter(node.args[1]), Tail(node.args))
      [] node.op = "not" -> [op |-> "not", arg |-> NodeToFilter(node.args[1])]
      [] OTHER -> node

-----------------------------------------------------------------------------
\* Styles: the filters of a rule, read from the events of the XML. stack has
\* the arguments read so far of each operator that is open; what closes goes to
\* the innermost of them, or to the rule.
PushFilter(st, filter) ==
    IF st.stack = <<>> THEN [st EXCEPT !.filters = Append(@, filter)]
    ELSE [st EXCEPT !.stack[Len(st.stack)] = Append(@, filter)]

CloseOperator(st, op) ==
    LET subs == st.stack[Len(st.stack)]
        rest == [st EXCEPT !.stack = Front(@)]
    IN  IF subs = <<>> THEN rest
        ELSE PushFilter(rest, [op |-> op, args |-> IF op = "not" THEN <<subs[1]>> ELSE subs])

ReadRule(events) ==
    FoldLeft(LAMBDA st, ev :
                CASE "open" \in DOMAIN ev  -> [st EXCEPT !.stack = Append(@, <<>>)]
                  [] "leaf" \in DOMAIN ev  -> PushFilter(st, ev.leaf)
                  [] "close" \in DOMAIN ev -> CloseOperator(st, ev.close),
             [stack |-> <<>>, filters |-> <<>>], events).filters

-----------------------------------------------------------------------------
(* LIKE. A text is a sequence of characters, and a pattern too: "%" stands *)
(* for any text and "_" for any character. WFS and the styles have a copy  *)
(* each of wildcard_match (services/wfs.rs, utils/sld_parser.rs); CQL      *)
(* turns the pattern into a regular expression and looks for its parts.    *)

\* The loop of wildcard_match, counting from 1: at place i of the text and j of
\* the pattern, with the places to fall back to, if there are any.
RECURSIVE MatchFrom(_, _, _, _, _)
MatchFrom(text, pattern, i, j, star) ==
    LET more == j <= Len(pattern)
    IN  IF i > Len(text)
        THEN \A k \in j .. Len(pattern) : pattern[k] = "%"
             /\ j <= Len(pattern) + 1
        ELSE IF more /\ pattern[j] \in {"_", text[i]}
        THEN MatchFrom(text, pattern, i + 1, j + 1, star)
        ELSE IF more /\ pattern[j] = "%"
        THEN MatchFrom(text, pattern, i, j + 1, <<i, j>>)
        ELSE /\ star # <<>>
             \* the place after the "%" becomes the one to fall back to
             /\ MatchFrom(text, pattern, star[1] + 1, star[2] + 1, <<star[1] + 1, star[2] + 1>>)

WildcardMatch(text, pattern) == MatchFrom(text, pattern, 1, 1, <<>>)

\* The parts of a pattern between its "%". "_" becomes ".", and a "." is escaped
\* with a backslash: both are then looked for as they stand.
Parts(pattern) ==
    LET Cuts == {i \in DOMAIN pattern : pattern[i] = "%"}
        Ends == SetToSortSeq(Cuts \cup {Len(pattern) + 1}, <)
    IN  [k \in DOMAIN Ends |->
            SubSeq(pattern, IF k = 1 THEN 1 ELSE Ends[k - 1] + 1, Ends[k] - 1)]

AsRegex(pattern) ==
    FlattenSeq([i \in DOMAIN pattern |->
        IF pattern[i] = "_" THEN <<".">>
        ELSE IF pattern[i] = "." THEN <<"\\", ".">>
        ELSE <<pattern[i]>>])

\* The places of text, from pos on, at which part stands; where a search goes
\* on after it found part, and 0 where there is none.
Found(text, part, pos) ==
    {k \in pos .. Len(text) - Len(part) + 1 : SubSeq(text, k, k + Len(part) - 1) = part}

After(text, part, pos) ==
    LET places == Found(text, part, pos)
    IN  IF part = <<>> \/ pos = 0 THEN pos
        ELSE IF places = {} THEN 0
        ELSE (CHOOSE k \in places : \A other \in places : k <= other) + Len(part)

\* The parts one after the other, wherever the first begins and the last ends;
\* a pattern without "%" is compared.
RegexLike(text, pattern) ==
    LET regex == AsRegex(pattern)
        Search(pos, part) == After(text, part, pos)
    IN  IF \E i \in DOMAIN pattern : pattern[i] = "%"
        THEN FoldLeft(Search, 1, Parts(regex)) # 0
        ELSE text = regex

-----------------------------------------------------------------------------
\* What LIKE means in SQL.
RECURSIVE SqlLike(_, _)
SqlLike(text, pattern) ==
    IF pattern = <<>> THEN text = <<>>
    ELSE IF Head(pattern) = "%"
    THEN \E k \in 0 .. Len(text) : SqlLike(SubSeq(text, k + 1, Len(text)), Tail(pattern))
    ELSE /\ text # <<>>
         /\ Head(pattern) \in {"_", Head(text)}
         /\ SqlLike(Tail(text), Tail(pattern))
=============================================================================
