----------------------------- MODULE StyleReaders -----------------------------
(***************************************************************************)
(* The readers of the four style languages: SLD (utils/sld_parser.rs), CSS *)
(* (css_parser.rs), YSLD (ysld_parser.rs) and MBStyle (mbstyle_parser.rs), *)
(* which one reads a text (models/style.rs, handlers/style_handler.rs),    *)
(* and what a feature then looks like.                                     *)
(*                                                                         *)
(* A value in a text is [text, hash]: a text, with or without "#" before   *)
(* it; a number [num], a list of numbers [nums], or an attribute [attr].   *)
(* Opacities are in tenths. A style is a record of what is painted; what a *)
(* style need not have is <<>> or <<v>>.                                   *)
(***************************************************************************)
EXTENDS FilterReaders

CONSTANT ShadeOf    \* the texts of six characters, each with <<the colour it reads as>>,
                    \* or <<>> if they are not hexadecimal

Hash(t) == [hash |-> TRUE, text |-> t]
Plain(t) == [hash |-> FALSE, text |-> t]
Num(n) == [num |-> n]

IsText(v) == "text" \in DOMAIN v
IsNum(v) == "num" \in DOMAIN v
Dashes(v) == IF IsNum(v) THEN <<v.num>> ELSE IF "nums" \in DOMAIN v THEN v.nums ELSE <<>>
Clamped(v) == IF IsNum(v) THEN Num(IF v.num < 0 THEN 0 ELSE IF v.num > 10 THEN 10 ELSE v.num) ELSE v

DefaultStyle ==
    [fill |-> [color |-> Hash("808080"), opacity |-> 10],
     stroke |-> [color |-> Hash("000000"), width |-> 1, opacity |-> 10, dash |-> <<>>],
     mark |-> <<>>, size |-> <<>>, label |-> <<>>, z |-> 0, composite |-> "normal"]

EmptyRule == [filters |-> <<>>, min |-> {}, max |-> {}, style |-> DefaultStyle]

Modes == {"normal", "multiply", "screen", "overlay", "darken", "lighten"}

\* What all the readers do with a property that they know; a number that is none
\* changes nothing.
Paint(style, name, v) ==
    CASE name = "fill"   -> [style EXCEPT !.fill.color = v]
      [] name = "stroke" -> [style EXCEPT !.stroke.color = v]
      [] name = "fill-opacity" /\ IsNum(v)   -> [style EXCEPT !.fill.opacity = v.num]
      [] name = "stroke-opacity" /\ IsNum(v) -> [style EXCEPT !.stroke.opacity = v.num]
      [] name = "stroke-width" /\ IsNum(v)   -> [style EXCEPT !.stroke.width = v.num]
      [] name = "stroke-dasharray" /\ Dashes(v) # <<>> -> [style EXCEPT !.stroke.dash = Dashes(v)]
      [] name = "mark-size" /\ IsNum(v)      -> [style EXCEPT !.size = <<v.num>>]
      [] name = "composite" /\ v.text \in Modes -> [style EXCEPT !.composite = v.text]
      [] OTHER -> style

-----------------------------------------------------------------------------
\* SLD: the events of the XML, [open |-> tag, name |-> an attribute], which an
\* empty element reports as well, [close |-> tag], [text |-> a value], and those
\* of the filters. on are the elements that the reader knows to be inside of.
SldStart ==
    [rules |-> <<>>, rule |-> EmptyRule, stack |-> <<>>, filters |-> <<>>, on |-> {}, collect |-> FALSE,
     literal |-> <<>>, param |-> "", value |-> <<>>, option |-> "", setting |-> <<>>, raw |-> <<>>,
     label |-> [text |-> <<>>, attr |-> <<>>, size |-> 0, color |-> <<>>, halo |-> <<>>, radius |-> 0]]

\* The first of the names that is in on.
Innermost(on, names, otherwise) ==
    LET i == SelectInSeq(names, LAMBDA n : n \in on) IN IF i = 0 THEN otherwise ELSE names[i]

WithHash(v) == IF IsText(v) THEN Hash(v.text) ELSE v

\* Fill means the fill of a symbol, of a label or of its halo.
Entered(on, tag) ==
    LET In(tags) == on \cap tags # {}
    IN  CASE tag \in {"Rule", "PolygonSymbolizer", "LineSymbolizer", "PointSymbolizer", "TextSymbolizer",
                      "Filter", "VendorOption"} -> {tag}
          [] tag = "Fill" -> IF In({"PolygonSymbolizer", "Mark"}) THEN {"Fill"}
                             ELSE IF In({"Halo"}) THEN {"HaloFill"}
                             ELSE IF In({"TextSymbolizer"}) THEN {"LabelFill"} ELSE {}
          [] tag = "Stroke" /\ In({"PolygonSymbolizer", "LineSymbolizer", "Mark"}) -> {tag}
          [] tag = "Graphic" /\ In({"PointSymbolizer"}) -> {tag}
          [] tag = "Mark" /\ In({"Graphic"}) -> {tag}
          [] tag \in {"Label", "Font", "Halo"} /\ In({"TextSymbolizer"}) -> {tag}
          [] tag = "Radius" /\ In({"Halo"}) -> {tag}
          [] OTHER -> {}

Collects(on, tag) ==
    LET In(tags) == on \cap tags # {}
    IN  CASE tag \in {"Name", "MinScaleDenominator", "MaxScaleDenominator"} -> In({"Rule"})
          [] tag \in {"CssParameter", "VendorOption"} -> TRUE
          [] tag = "WellKnownName" -> In({"Mark"})
          [] tag = "Size" -> In({"Graphic"})
          [] tag \in {"PropertyName", "Literal"} -> In({"Filter", "Label"})
          [] tag = "Label" -> In({"TextSymbolizer"})
          [] tag = "Radius" -> In({"Halo"})
          [] OTHER -> FALSE

StartTag(st, tag, name) ==
    LET entered == [st EXCEPT !.on = @ \cup Entered(st.on, tag), !.collect = @ \/ Collects(st.on, tag)]
    IN  CASE tag = "Rule"           -> [entered EXCEPT !.rule = EmptyRule, !.filters = <<>>]
          [] tag = "TextSymbolizer" -> [entered EXCEPT !.label = SldStart.label]
          [] tag = "CssParameter"   -> [entered EXCEPT !.param = name]
          [] tag = "VendorOption"   -> [entered EXCEPT !.option = name]
          [] tag = "Filter"         -> [entered EXCEPT !.stack = <<>>]
          [] OTHER -> entered

TextOf(st, v) ==
    IF ~st.collect THEN st
    ELSE IF "Filter" \in st.on THEN [st EXCEPT !.literal = <<v>>]
    ELSE IF "Label" \in st.on THEN [st EXCEPT !.raw = <<v>>]
    ELSE IF "Radius" \in st.on THEN [st EXCEPT !.label.radius = IF IsNum(v) THEN v.num ELSE 1]
    ELSE IF "VendorOption" \in st.on THEN [st EXCEPT !.setting = <<v>>]
    ELSE IF st.param # "" THEN [st EXCEPT !.value = <<v>>]
    ELSE [st EXCEPT !.literal = <<v>>]

\* A parameter of the other kind, a "stroke" in a Fill, changes nothing.
apply_css_param(style, name, v, fill) ==
    IF name \in IF fill THEN {"fill", "fill-opacity"} ELSE {"stroke", "stroke-width", "stroke-opacity", "stroke-dasharray"}
    THEN Paint(style, name, WithHash(v)) ELSE style

\* Slip: the fill of the halo is taken for the one of the text.
apply_label_fill_flat(label, name, v, halo) ==
    IF name = "fill" THEN [label EXCEPT !.color = <<WithHash(v)>>] ELSE label

apply_label_fill(label, name, v, halo) ==
    IF name # "fill" THEN label
    ELSE IF halo THEN [label EXCEPT !.halo = <<WithHash(v)>>] ELSE [label EXCEPT !.color = <<WithHash(v)>>]

apply_label_font(label, name, v) ==
    IF name = "font-size" /\ IsNum(v) THEN [label EXCEPT !.size = IF v.num > 1 THEN v.num ELSE 1] ELSE label

Apply(st, place) ==
    IF st.value = <<>> THEN st
    ELSE CASE place \in {"Fill", "Stroke"} ->
                  [st EXCEPT !.rule.style = apply_css_param(@, st.param, st.value[1], place = "Fill")]
           [] place = "Font" -> [st EXCEPT !.label = apply_label_font(@, st.param, st.value[1])]
           [] place \in {"LabelFill", "HaloFill"} ->
                  [st EXCEPT !.label = apply_label_fill(@, st.param, st.value[1], place = "HaloFill")]
           [] OTHER -> st

\* A text that was found in the label, as its text or as an attribute.
Read(st, field, other) ==
    IF st.raw = <<>> THEN st ELSE [st EXCEPT !.label[field] = st.raw, !.label[other] = <<>>, !.raw = <<>>]

Or(opt, v) == IF opt = <<>> THEN v ELSE opt[1]
Positive(n, default) == IF n > 0 THEN n ELSE default

LabelOf(l) ==
    [text |-> IF l.text = <<>> THEN "" ELSE l.text[1].text,
     attr |-> IF l.attr = <<>> THEN <<>> ELSE <<l.attr[1].text>>,
     size |-> Positive(l.size, 12), color |-> Or(l.color, Hash("333333")),
     halo |-> l.halo, radius |-> Positive(l.radius, 1)]

Scale(st) == IF st.literal # <<>> /\ IsNum(st.literal[1]) THEN {st.literal[1].num} ELSE {}

\* The name of a mark is gone before its Mark ends.
EndTag(st, tag) ==
    LET left == [st EXCEPT !.on = @ \ {tag}]
        Known(s) == [s EXCEPT !.literal = <<>>, !.collect = FALSE]
    IN  CASE tag = "Rule" -> [left EXCEPT !.rules = Append(@, [st.rule EXCEPT !.filters = st.filters])]
          [] tag \in {"Name", "WellKnownName"} -> Known(st)
          [] tag = "MinScaleDenominator" -> Known([st EXCEPT !.rule.min = IF Scale(st) = {} THEN @ ELSE Scale(st)])
          [] tag = "MaxScaleDenominator" -> Known([st EXCEPT !.rule.max = IF Scale(st) = {} THEN @ ELSE Scale(st)])
          [] tag = "Size" -> Known([st EXCEPT !.rule.style = IF st.literal = <<>> THEN @ ELSE Paint(@, "mark-size", st.literal[1])])
          [] tag = "Mark" /\ st.literal # <<>> ->
                 Known([left EXCEPT !.rule.style.mark =
                           IF st.literal[1].text \in {"circle", "square", "cross", "x", "star", "triangle"}
                           THEN <<st.literal[1].text>> ELSE @])
          [] tag \in {"Fill", "Stroke"} ->
                 LET place == IF tag = "Stroke" THEN tag ELSE Innermost(st.on, <<"HaloFill", "LabelFill">>, tag)
                 IN  [Apply(st, place) EXCEPT !.on = @ \ {place}, !.value = <<>>]
          [] tag = "CssParameter" ->
                 LET place == Innermost(st.on, <<"Fill", "Stroke", "Font", "LabelFill", "HaloFill">>, "none")
                 IN  [Apply(st, place) EXCEPT !.param = "", !.value = <<>>, !.collect = FALSE]
          [] tag \in {"PropertyName", "Literal"} ->
                 IF "Label" \in st.on
                 THEN [(IF tag = "Literal" THEN Read(st, "text", "attr") ELSE Read(st, "attr", "text")) EXCEPT !.collect = FALSE]
                 ELSE Known(st)
          [] tag = "Label" ->
                 LET bare == st.label.text = <<>> /\ st.label.attr = <<>>
                 IN  [(IF bare THEN Read(left, "text", "attr") ELSE left) EXCEPT !.raw = <<>>, !.collect = FALSE]
          [] tag = "Radius" -> [left EXCEPT !.collect = FALSE]
          [] tag = "Halo" -> [left EXCEPT !.on = @ \ {"Radius"}, !.collect = FALSE]
          [] tag = "TextSymbolizer" ->
                 [left EXCEPT !.label = SldStart.label,
                              !.rule.style.label = IF st.label.text = <<>> /\ st.label.attr = <<>> THEN @ ELSE <<LabelOf(st.label)>>]
          [] tag = "VendorOption" ->
                 [left EXCEPT !.option = "", !.setting = <<>>, !.collect = FALSE,
                              !.rule.style = IF st.setting = <<>> THEN @
                                             ELSE IF st.option = "z-index" /\ IsNum(st.setting[1]) THEN [@ EXCEPT !.z = st.setting[1].num]
                                             ELSE IF st.option = "composite" THEN Paint(@, "composite", st.setting[1]) ELSE @]
          [] tag = "Filter" -> [left EXCEPT !.stack = <<>>]
          [] OTHER -> left

ReadEvent(st, ev) ==
    CASE "leaf" \in DOMAIN ev -> [PushFilter(st, ev.leaf) EXCEPT !.collect = FALSE]
      [] "text" \in DOMAIN ev -> TextOf(st, ev.text)
      [] "open" \in DOMAIN ev -> IF ev.open \in {"and", "or", "not"} THEN [st EXCEPT !.stack = Append(@, <<>>)]
                                 ELSE StartTag(st, ev.open, ev.name)
      [] "close" \in DOMAIN ev -> IF ev.close \in {"and", "or", "not"} THEN [CloseOperator(st, ev.close) EXCEPT !.collect = FALSE]
                                  ELSE EndTag(st, ev.close)

parse_sld(events) == FoldLeft(ReadEvent, SldStart, events).rules

-----------------------------------------------------------------------------
\* CSS: a text is a sequence of words [t]: brackets, "/*", "*/", selectors
\* [t |-> "selector", ...] and properties [t |-> "property", name, value].
\* One selector is "*", a name, or in brackets a condition [attr, rel, lit] or
\* [scale |-> rel, bound].
strip_comments(words) ==
    FoldLeft(LAMBDA st, w : IF st.inside THEN [st EXCEPT !.inside = w.t # "*/"]
                            ELSE IF w.t = "/*" THEN [st EXCEPT !.inside = TRUE]
                            ELSE [st EXCEPT !.text = Append(@, w)],
             [inside |-> FALSE, text |-> <<>>], words).text

\* Blocks with a selector; brackets inside of a block are part of it.
extract_blocks(words) ==
    LET Step(st, w) ==
            CASE st.depth = 0 /\ w.t = "{" -> [st EXCEPT !.depth = 1]
              [] st.depth = 0 /\ w.t = "}" -> [st EXCEPT !.selector = <<>>]
              [] st.depth = 0 /\ w.t \notin {"{", "}"} -> [st EXCEPT !.selector = Append(@, w)]
              [] st.depth = 1 /\ w.t = "}" ->
                    [depth |-> 0, selector |-> <<>>, body |-> <<>>,
                     blocks |-> IF st.selector = <<>> THEN st.blocks
                                ELSE Append(st.blocks, [selector |-> st.selector, body |-> st.body])]
              [] OTHER -> [st EXCEPT !.body = Append(@, w),
                                     !.depth = @ + (IF w.t = "{" THEN 1 ELSE IF w.t = "}" THEN -1 ELSE 0)]
        end == FoldLeft(Step, [depth |-> 0, selector |-> <<>>, body |-> <<>>, blocks |-> <<>>], words)
    IN  IF end.depth = 0 \/ end.selector = <<>> THEN end.blocks
        ELSE Append(end.blocks, [selector |-> end.selector, body |-> end.body])

\* Of the conditions on the scale those with "<" and ">" are read.
parse_selectors(selector) ==
    SelectSeq(selector, LAMBDA s : "attr" \in DOMAIN s \/ ("scale" \in DOMAIN s /\ s.scale \in {"<", ">"}))

NamedColors ==
    "red" :> "FF0000" @@ "green" :> "008000" @@ "blue" :> "0000FF" @@ "white" :> "FFFFFF" @@ "black" :> "000000"
    @@ "yellow" :> "FFFF00" @@ "orange" :> "FFA500" @@ "purple" :> "800080" @@ "pink" :> "FFC0CB" @@ "brown" :> "A52A2A"
    @@ "gray" :> "808080" @@ "grey" :> "808080" @@ "cyan" :> "00FFFF" @@ "magenta" :> "FF00FF" @@ "transparent" :> "00000000"

Hexadecimal(t) == t \in DOMAIN ShadeOf /\ ShadeOf[t] # <<>>

normalize_color(v) ==
    IF ~IsText(v) THEN <<>>
    ELSE IF v.hash THEN <<v>>
    ELSE IF v.text \in DOMAIN NamedColors THEN <<Hash(NamedColors[v.text])>>
    ELSE IF Hexadecimal(v.text) THEN <<Hash(v.text)>> ELSE <<>>

CssLabel == LabelOf(SldStart.label)

apply_css_property(style, name, v) ==
    LET Labelled(l) == [style EXCEPT !.label = <<l>>]
        label == Or(style.label, CssLabel)
        color == normalize_color(v)
    IN  CASE name \in {"fill-opacity", "stroke-opacity"} -> Paint(style, name, Clamped(v))
          [] name = "fill" -> Paint(style, name, Or(color, Hash("808080")))
          [] name = "stroke" /\ color # <<>> -> Paint(style, name, color[1])
          [] name \in {"stroke-width", "stroke-dasharray", "mark-size"} -> Paint(style, name, v)
          [] name = "composite" /\ IsText(v) -> Paint(style, name, v)
          [] name = "mark" -> [style EXCEPT !.mark = <<v.text>>]
          [] name = "label" -> Labelled(IF "attr" \in DOMAIN v THEN [label EXCEPT !.attr = <<v.attr>>]
                                        ELSE [label EXCEPT !.attr = <<>>, !.text = v.text])
          [] name \in {"label-size", "font-size"} /\ IsNum(v) -> Labelled([label EXCEPT !.size = IF v.num > 1 THEN v.num ELSE 1])
          [] name \in {"label-color", "font-fill"} /\ color # <<>> -> Labelled([label EXCEPT !.color = color[1]])
          [] name = "halo-color" /\ color # <<>> -> Labelled([label EXCEPT !.halo = color])
          [] name = "halo-radius" /\ IsNum(v) -> Labelled([label EXCEPT !.radius = IF v.num > 0 THEN v.num ELSE 0])
          [] OTHER -> style

\* What stands behind a bracket within a block is not a property of a known name.
parse_properties(body, style) ==
    LET known == {i \in DOMAIN body : body[i].t = "property" /\ (i > 1 => body[i - 1].t = "property")}
    IN  FoldLeft(LAMBDA s, i : IF i \in known THEN apply_css_property(s, body[i].name, body[i].value) ELSE s,
                 style, [i \in DOMAIN body |-> i])

\* Below a scale, [@scale < n], is read as from n on.
CssRule(block) ==
    LET read == parse_selectors(block.selector)
        Bound(rel) == LET of == SelectSeq(read, LAMBDA s : "scale" \in DOMAIN s /\ s.scale = rel)
                      IN  IF of = <<>> THEN {} ELSE {of[1].bound}
        conditions == SelectSeq(read, LAMBDA s : "attr" \in DOMAIN s)
    IN  [filters |-> [i \in DOMAIN conditions |-> [op |-> "cmp", attr |-> conditions[i].attr, rel |-> conditions[i].rel, lit |-> conditions[i].lit]],
         min |-> Bound("<"), max |-> Bound(">"), style |-> parse_properties(block.body, DefaultStyle)]

parse_css(words) ==
    LET blocks == extract_blocks(strip_comments(words))
    IN  IF blocks = <<>> THEN <<EmptyRule>> ELSE [i \in DOMAIN blocks |-> CssRule(blocks[i])]

-----------------------------------------------------------------------------
\* YSLD: a list of lists of rules [scale, filter, symbolizers]. A condition is
\* [property, key, value], where a value in a list is a pair; a symbolizer is
\* [type, props], props a sequence of [key, value] in the order of the keys.
YsldRels == "greater-than" :> ">" @@ "less-than" :> "<" @@ "equals" :> "=" @@ "not-equal" :> "<>"

\* Only texts are read, whatever the order of the numbers.
YsldCondition(c) ==
    CASE c.key \in DOMAIN YsldRels /\ c.value.kind = "text" -> <<[op |-> "cmp", attr |-> c.property, rel |-> YsldRels[c.key], lit |-> c.value]>>
      [] c.key = "like" /\ c.value.kind = "text" -> <<[op |-> "among", attr |-> c.property, texts |-> c.texts]>>
      [] c.key = "between" /\ c.value.kind = "list" /\ \A i \in 1 .. 2 : c.value.of[i].kind = "text" ->
             <<[op |-> "between", attr |-> c.property, low |-> c.value.of[1].text, high |-> c.value.of[2].text]>>
      [] OTHER -> <<>>

parse_ysld_filters(conditions) == FlattenSeq([i \in DOMAIN conditions |-> YsldCondition(conditions[i])])

\* The properties that a symbolizer knows, by the names that they have in CSS.
StrokeKeys == "stroke-color" :> "stroke" @@ "stroke-width" :> "stroke-width"
FillKeys == "fill-color" :> "fill" @@ "fill-opacity" :> "fill-opacity"
LineKeys == StrokeKeys @@ "stroke-opacity" :> "stroke-opacity"
PointKeys == FillKeys @@ StrokeKeys @@ "mark-size" :> "mark-size" @@ "size" :> "mark-size"

\* Colours must be texts, all else numbers.
PaintKeys(style, keys, props) ==
    FoldLeft(LAMBDA s, p :
                IF p.key \in DOMAIN keys /\ (keys[p.key] \in {"fill", "stroke"} => IsText(p.value))
                THEN Paint(s, keys[p.key], IF keys[p.key] \in {"fill-opacity", "stroke-opacity"} THEN Clamped(p.value) ELSE p.value)
                ELSE s,
             style, props)

apply_ysld_polygon(style, props) == PaintKeys(style, FillKeys @@ LineKeys, props)
apply_ysld_line(style, props) == PaintKeys(style, LineKeys, props)

\* The stroke of a point is opaque and has no dashes.
apply_ysld_point(style, props) ==
    LET marks == SelectSeq(props, LAMBDA p : p.key = "mark" /\ IsText(p.value))
    IN  [PaintKeys(style, PointKeys, props)
            EXCEPT !.stroke.opacity = 10, !.stroke.dash = <<>>, !.mark = IF marks = <<>> THEN @ ELSE <<marks[1].value.text>>]

apply_ysld_symbolizer(style, sym) ==
    CASE sym.type = "polygon" -> apply_ysld_polygon(style, sym.props)
      [] sym.type = "line"    -> apply_ysld_line(style, sym.props)
      [] sym.type = "point"   -> apply_ysld_point(style, sym.props)
      [] OTHER -> style

YsldRule(r) ==
    [filters |-> parse_ysld_filters(r.filter),
     min |-> IF Len(r.scale) >= 2 THEN {r.scale[1]} ELSE {}, max |-> IF Len(r.scale) >= 2 THEN {r.scale[2]} ELSE {},
     style |-> FoldLeft(apply_ysld_symbolizer, DefaultStyle, r.symbolizers)]

parse_ysld(styles) ==
    LET rules == FlattenSeq(styles)
    IN  IF rules = <<>> THEN <<EmptyRule>> ELSE [i \in DOMAIN rules |-> YsldRule(rules[i])]

-----------------------------------------------------------------------------
\* MBStyle: a list of layers [type, paint, filter, minzoom, maxzoom], paint a
\* function on the keys given. A filter is [op, attr, lit], [op, attr], [op,
\* args], or "none" at all.
get_color(v) == IF IsText(v) THEN <<v>> ELSE IF "rgb" \in DOMAIN v THEN <<Hash(v.rgb)>> ELSE <<>>

\* The keys of paint, in the order in which they are looked at.
PaintAll(style, keys, paint) ==
    FoldLeft(LAMBDA s, k :
                IF k[1] \notin DOMAIN paint THEN s
                ELSE IF k[2] \in {"fill", "stroke"}
                THEN LET c == get_color(paint[k[1]]) IN IF c = <<>> THEN s ELSE Paint(s, k[2], c[1])
                ELSE Paint(s, k[2], IF k[2] \in {"fill-opacity", "stroke-opacity"} THEN Clamped(paint[k[1]]) ELSE paint[k[1]]),
             style, keys)

apply_fill_paint(style, paint) ==
    PaintAll(style, <<<<"fill-color", "fill">>, <<"fill-opacity", "fill-opacity">>, <<"fill-outline-color", "stroke">>>>, paint)

apply_line_paint(style, paint) ==
    PaintAll(style, <<<<"line-color", "stroke">>, <<"line-width", "stroke-width">>, <<"line-opacity", "stroke-opacity">>,
                      <<"line-dasharray", "stroke-dasharray">>>>, paint)

apply_circle_paint(style, paint) ==
    LET painted == PaintAll(style, <<<<"circle-color", "fill">>, <<"circle-opacity", "fill-opacity">>,
                                     <<"circle-stroke-color", "stroke">>, <<"circle-stroke-width", "stroke-width">>>>, paint)
        stroked == {"circle-stroke-color", "circle-stroke-width"} \cap DOMAIN paint # {}
    IN  [painted EXCEPT !.stroke.dash = IF stroked THEN <<>> ELSE @, !.mark = <<"circle">>,
                        !.size = IF "circle-radius" \in DOMAIN paint THEN <<2 * paint["circle-radius"].num>> ELSE @]

MbRels == "==" :> "=" @@ "!=" :> "<>" @@ "<" :> "<" @@ ">" :> ">" @@ "<=" :> "<=" @@ ">=" :> ">="

\* "has" is said as: is not the empty text, which a missing property is not.
RECURSIVE parse_mbstyle_filter(_)
parse_mbstyle_filter(f) ==
    LET subs == FlattenSeq([i \in DOMAIN f.args |-> parse_mbstyle_filter(f.args[i])])
    IN  CASE f.op \in DOMAIN MbRels -> <<[op |-> "cmp", attr |-> f.attr, rel |-> MbRels[f.op], lit |-> f.lit]>>
          [] f.op = "has"  -> <<[op |-> "cmp", attr |-> f.attr, rel |-> "<>", lit |-> [kind |-> "text", text |-> ""]]>>
          [] f.op = "!has" -> <<[op |-> "null", attr |-> f.attr]>>
          [] f.op \in {"all", "any"} ->
                 IF Len(subs) <= 1 THEN subs ELSE <<[op |-> IF f.op = "all" THEN "and" ELSE "or", args |-> subs]>>
          [] f.op = "none" -> IF subs = <<>> THEN subs ELSE <<[op |-> "not", args |-> <<[op |-> "or", args |-> subs]>>]>>
          [] OTHER -> <<>>

\* Layers that are not visible are drawn; levels of zoom are taken for scales.
MbRule(layer) ==
    [filters |-> IF layer.filter = <<>> THEN <<>> ELSE parse_mbstyle_filter(layer.filter[1]),
     min |-> layer.minzoom, max |-> layer.maxzoom,
     style |-> CASE layer.type \in {"fill", "background"} -> apply_fill_paint(DefaultStyle, layer.paint)
                 [] layer.type = "line"   -> apply_line_paint(DefaultStyle, layer.paint)
                 [] layer.type = "circle" -> apply_circle_paint(DefaultStyle, layer.paint)
                 [] OTHER -> DefaultStyle]

parse_mbstyle(layers) == IF layers = <<>> THEN <<EmptyRule>> ELSE [i \in DOMAIN layers |-> MbRule(layers[i])]

-----------------------------------------------------------------------------
\* A text of any of the languages: [begins, mentions, in, body], where in is the
\* language in which its body is written.
detect_style_format(text) ==
    CASE text.begins \in {"<?xml", "<StyledLayerDescriptor"} -> "SLD"
      [] text.begins = "{" -> IF {"version", "layers"} \subseteq text.mentions THEN "MBStyle" ELSE "SLD"
      [] text.begins \in {"name:", "title:", "feature-styles:"} -> "YSLD"
      [] OTHER -> "CSS"

\* A reader that finds another language reads no rules, or one that draws all
\* features in the default style: CSS always, YSLD of JSON.
parse_style_content(text, format) ==
    IF text.in # format
    THEN IF format = "CSS" \/ (format = "YSLD" /\ text.in = "MBStyle") THEN <<EmptyRule>> ELSE <<>>
    ELSE CASE format = "SLD"     -> parse_sld(text.body)
           [] format = "CSS"     -> parse_css(text.body)
           [] format = "YSLD"    -> parse_ysld(text.body)
           [] format = "MBStyle" -> parse_mbstyle(text.body)

\* The rules a layer is drawn with, by its first style: styles are texts, meta the
\* formats that were given with them.
get_style_rules(styles, meta, name, default) ==
    IF name \notin DOMAIN styles THEN parse_sld(default)
    ELSE parse_style_content(styles[name], IF name \in DOMAIN meta THEN meta[name] ELSE detect_style_format(styles[name]))

\* Values of ENV, in any order: what looks like a colour recolours everything.
apply_env_to_style(style, env) ==
    FoldLeft(LAMBDA s, v : IF v.hash /\ v.text \in DOMAIN ShadeOf
                           THEN [s EXCEPT !.fill.color = v, !.stroke.color = v] ELSE s, style, env)

\* The style of the first rule that draws the feature.
resolve_style(rules, f, scale, env) ==
    LET i == SelectInSeq(rules, LAMBDA r : MatchRule(r, f, scale))
        style == apply_env_to_style(rules[i].style, env)
        Told(l) == IF l.attr = <<>> THEN l
                   ELSE [l EXCEPT !.text = IF Has(f, l.attr[1]) THEN f.props[l.attr[1]].text ELSE ""]
    IN  IF i = 0 THEN DefaultStyle
        ELSE [style EXCEPT !.label = IF @ = <<>> THEN @ ELSE <<Told(@[1])>>]

\* What is seen of a style: colours that cannot be read are grey, unless they have
\* six characters, when nothing is painted; opacity is cut to what there is.
Shade(c) == IF c.hash /\ c.text \in DOMAIN ShadeOf THEN ShadeOf[c.text] ELSE <<"646464">>

Look(style) ==
    [fill |-> [shade |-> Shade(style.fill.color), opacity |-> Clamped(Num(style.fill.opacity))],
     stroke |-> [style.stroke EXCEPT !.color = Shade(@), !.opacity = Clamped(Num(@))],
     mark |-> Or(style.mark, "circle"), size |-> Or(style.size, 6), z |-> style.z, composite |-> style.composite,
     label |-> IF style.label = <<>> \/ style.label[1].text = "" THEN <<>>
               ELSE LET l == style.label[1]
                    IN  <<[text |-> l.text, size |-> l.size, color |-> Shade(l.color),
                           halo |-> IF l.halo = <<>> THEN <<>> ELSE <<Shade(l.halo[1]), l.radius>>]>>]
=============================================================================
