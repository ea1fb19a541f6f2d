-------------------------- MODULE MCBridgeDispatch --------------------------
(* Instances of BridgeDispatch for TLC, and the codec of its payloads over   *)
(* bounded types, expressions, layouts and messages.                         *)
EXTENDS BridgeDispatch, MessageCodec

Int8 == IntType(1, TRUE)
UInt8 == IntType(1, FALSE)
Int16 == IntType(2, TRUE)
UInt16 == IntType(2, FALSE)
Float == FloatType(4)
Types == {Bool, Int8, UInt8, Int16, UInt16, Float}
IntTypes == {Int8, UInt8, Int16, UInt16}
Edges == {-32769, -32768, -129, -128, -127, -1, 0, 1, 127, 128, 255, 256, 32767, 32768, 65535, 65536}
Values(t) == IF t.kind = "float" THEN {<<0, 1>>, <<-5, 2>>, <<7, 1>>, NonFinite} ELSE Edges \cap t.lo..t.hi

\* A value of a wire type is what its bytes give back (payload_codec.cpp:77-175).
ASSUME BytesKeepValue ==
    \A t \in Types : \A v \in Values(t) : UnpackValue(PackValue(v, t), t) = v

\* An exact integer and its double are refused or converted alike
\* (payload_codec.cpp:42-70).
ASSUME ExactAndDoubleAgree ==
    \A t \in IntTypes, v \in Edges \cap -Precision..Precision :
        CoerceOutgoingInteger(v, t) = CoerceOutgoing(Double(v), t)

\* Past Precision they may not: the double of the largest 16-bit integer is refused
\* by a 16-bit type (payload_codec.cpp:47).
ASSUME BoundaryRefused ==
    ~CoerceOutgoing(Double(65535), UInt16).ok /\ CoerceOutgoingInteger(65535, UInt16).ok

-----------------------------------------------------------------------------
(* Expressions.  Render writes a tree with the parentheses it needs.          *)

Literals == {0, 2, 3, 1000}
Level(op) == CASE op \in {"+", "-"} -> 1 [] op \in {"*", "/", "%"} -> 2 [] op = "neg" -> 3 [] OTHER -> 4

RECURSIVE Render(_, _)
Render(e, level) ==
    LET bare ==
            CASE e.op \in {"+", "-", "*", "/", "%"} ->
                    Render(e.args[1], Level(e.op)) \o <<Symbol(e.op)>> \o Render(e.args[2], Level(e.op) + 1)
              [] e.op = "neg" -> <<Symbol("-")>> \o Render(e.args[1], 3)
              [] e.op \in Functions2 ->
                    <<Symbol(e.op), Symbol("(")>> \o Render(e.args[1], 1) \o <<Symbol(",")>>
                        \o Render(e.args[2], 1) \o <<Symbol(")")>>
              [] OTHER -> <<Leaf(e.op, e.arg)>> IN
    IF Level(e.op) < level THEN <<Symbol("(")>> \o bare \o <<Symbol(")")>> ELSE bare

Operators == {"+", "-", "*", "/", "%", "max"}
Depth0 == {LeafTree(Leaf("int", v)) : v \in Literals} \cup {LeafTree(Leaf("name", <<Plain("x")>>))}
Depth1 == Depth0 \cup {Tree("neg", <<e>>) : e \in Depth0}
                 \cup {Tree(op, <<a, b>>) : op \in Operators, a \in Depth0, b \in Depth0}
Depth2 == Depth1 \cup {Tree("neg", <<e>>) : e \in Depth1}
                 \cup {Tree(op, <<a, b>>) : op \in Operators, a \in Depth1, b \in Depth0}
                 \cup {Tree(op, <<a, b>>) : op \in Operators, a \in Depth0, b \in Depth1}

\* The descent inverts Render: precedence, and grouping from the left
\* (math_expression.cpp:77-109).
ASSUME ParseInvertsRender ==
    \A e \in Depth2 : Parse(Render(e, 1)) = [tree |-> e, pos |-> Len(Render(e, 1)) + 1]

\* Where the exact evaluation gives a value and no operand was divided, the doubles
\* give the same (math_expression.cpp:356).
RECURSIVE Ops(_)
Ops(e) == {e.op} \cup UNION {Ops(e.args[i]) : i \in DOMAIN e.args}
XNames == [p \in {<<Plain("x")>>} |-> [exact |-> TRUE, value |-> -7]]

ASSUME ExactIsDouble ==
    \A e \in Depth2 : (Exact(e, XNames).is = "value" /\ Ops(e) \cap {"/", "%"} = {})
        => Floated(e, XNames).ok /\ SameNumber(Floated(e, XNames).value, <<Exact(e, XNames).value, 1>>)

\* A division of integers truncates toward zero, and the remainder completes it
\* (math_expression.cpp:270).
ASSUME DivisionTruncates ==
    \A a \in -7..7, b \in -3..3 \ {0} :
        /\ Integral("/", a, b).value * b + Integral("%", a, b).value = a
        /\ Magnitude(Integral("/", a, b).value * b) <= Magnitude(a)
        /\ Magnitude(Integral("%", a, b).value) < Magnitude(b)

-----------------------------------------------------------------------------
(* Layouts: up to three members over a message with every kind of field.      *)

Inner == [p |-> Field("no", 0, Int8), q |-> Field("open", 0, UInt8)]
Schema ==
    [x |-> Field("no", 0, Int16), f |-> Field("no", 0, Float),
     v |-> Field("open", 0, UInt8), w |-> Field("fixed", 2, Int8),
     n |-> MessageField("open", 0, Inner), o |-> MessageField("no", 0, Inner)]

Whole(path) == Member(path, UInt8)
OpenPaths == {<<Plain("v")>>, <<Slice("v", 1, Absent, 1)>>, <<Plain("o"), Plain("q")>>}
ClosedMembers ==
    {Member(<<Plain("x")>>, Int16), Member(<<Plain("x")>>, Int8), Member(<<Plain("f")>>, Float),
     Whole(<<Indexed("v", 0)>>), Whole(<<Indexed("v", 2)>>), Whole(<<Slice("v", 0, 3, 2)>>),
     Member(<<Plain("w")>>, Int8), Member(<<Slice("w", 1, Absent, 1)>>, Int16),
     Member(<<Indexed("n", 1), Plain("p")>>, Int8), Member(<<Slice("n", 0, 2, 1), Plain("p")>>, Int8),
     Whole(<<Indexed("n", 0), Slice("q", 0, 1, 1)>>), Member(<<Plain("o"), Plain("p")>>, Int8),
     Computed(<<Plain("sum")>>, <<Leaf("name", <<Plain("x")>>), Symbol("+"), Leaf("int", 1)>>, Int16)}
RefusedMembers ==
    {Whole(<<Plain("z")>>), Whole(<<Indexed("x", 0)>>), Whole(<<Plain("n"), Plain("p")>>),
     Whole(<<Slice("n", 0, Absent, 1), Plain("p")>>), Whole(<<Plain("w"), Plain("p")>>), Whole(<<Plain("o")>>),
     Whole(<<Slice("n", 0, 1, 1), Plain("q")>>)}
Layouts == {<<a>> : a \in ClosedMembers \cup {Whole(p) : p \in OpenPaths}}
      \cup {<<a, b>> : a, b \in ClosedMembers \cup {Whole(p) : p \in OpenPaths}}

\* Messages, by the sizes of v and n.
Filled(v, n, o) ==
    [size |-> [k \in {<<Step("v", -1)>>, <<Step("n", -1)>>, <<Step("n", 0), Step("q", -1)>>,
                      <<Step("o", -1), Step("q", -1)>>} |->
                 CASE k = <<Step("v", -1)>> -> v [] k = <<Step("n", -1)>> -> n [] OTHER -> o],
     leaf |-> [a \in {<<Step("x", -1)>>, <<Step("f", -1)>>, <<Step("w", 0)>>, <<Step("w", 1)>>}
                     \cup {<<Step("v", i)>> : i \in 0..(v - 1)}
                     \cup {<<Step("n", i), Step("p", -1)>> : i \in 0..(n - 1)}
                     \cup {<<Step("n", 0), Step("q", i)>> : i \in 0..(o - 1)}
                     \cup {<<Step("o", -1), Step("q", i)>> : i \in 0..(o - 1)} |->
                 IF a = <<Step("f", -1)>> THEN <<-5, 2>> ELSE 40 + a[Len(a)].at + 3 * a[1].at]]
Messages == {Filled(v, n, o) : v \in {0, 1, 3, 4}, n \in {0, 2}, o \in 0..1}

PathMembers(layout) == {layout[i] : i \in {j \in DOMAIN layout : layout[j].tokens = <<>>}}
LeavesOf(layout, m) ==
    UNION {ToSet(Collect(Schema, m, <<>>, a.path, TRUE, Absent).leaves) : a \in PathMembers(layout)}
OpenCount(layout) == Cardinality({i \in DOMAIN layout : layout[i].path \in OpenPaths})
Sent(layout, m) == EncodePayload(Schema, m, layout)
Received(layout, m) == DecodePayload(Schema, Sent(layout, m).payload, layout, <<>>)

\* A message the exporter can encode gives every selected field back at the importer,
\* unless the layout has two open members or a later one moved a sequence
\* (generic_message_bridge.cpp:939-1079).
ASSUME RoundTrip ==
    \A layout \in Layouts, m \in Messages :
        (Sent(layout, m).ok /\ OpenCount(layout) <= 1 /\ Received(layout, m).stale = {})
        => /\ Received(layout, m).ok
           /\ \A leaf \in LeavesOf(layout, m) :
                 LeafValue(Received(layout, m).m, leaf.at, leaf.type) = LeafValue(m, leaf.at, leaf.type)

\* Two open members are encoded and never decoded (generic_message_bridge.cpp:1014).
ASSUME TwoOpenMembers ==
    \A layout \in Layouts, m \in Messages : OpenCount(layout) = 2 => ~Received(layout, m).ok

\* An address is lost only where two members select elements of one sequence
\* (generic_message_bridge.cpp:1047).
ASSUME LostByOneSequence ==
    \A layout \in Layouts, m \in Messages :
        (Sent(layout, m).ok /\ Received(layout, m).stale # {})
        => \E i, j \in DOMAIN layout : i < j /\ layout[i].path[1].name = layout[j].path[1].name

\* ...as v[0] does before v[2] (generic_message_bridge.cpp:1057).
ASSUME LostFirst ==
    Received(<<Whole(<<Indexed("v", 0)>>), Whole(<<Indexed("v", 2)>>)>>, Filled(3, 0, 0)).stale
        = {<<Step("v", 0)>>}

\* What the decoder refuses to count, the encoder refuses, but for an open slice in the
\* middle of a path (generic_message_bridge.cpp:210, 240).
ASSUME RefusedByBoth ==
    \A a \in RefusedMembers, m \in Messages :
        /\ ~Received(<<a>>, m).ok
        /\ Sent(<<a>>, m).ok => a.path[1].slice

\* An assignment after the members computes from the decoded integers exactly
\* (generic_message_bridge.cpp:1084).
ASSUME AssignmentsFollow ==
    LET layout == <<Computed(<<Plain("sum")>>, <<Leaf("name", <<Plain("x")>>), Symbol("*"), Leaf("int", 2)>>, Int16)>>
        back == <<[path |-> <<Plain("x")>>, tokens |-> <<Leaf("name", <<Plain("sum")>>), Symbol("/"), Leaf("int", 2)>>],
                  [path |-> <<Indexed("v", 1)>>, tokens |-> <<Leaf("name", <<Plain("sum")>>)>>]>>
        m == Filled(0, 0, 0)
        d == DecodePayload(Schema, Sent(layout, m).payload, layout, back) IN
    /\ d.ok /\ d.m.leaf[<<Step("x", -1)>>] = m.leaf[<<Step("x", -1)>>]
    /\ d.m.size[<<Step("v", -1)>>] = 2
===========================================================================
