---------------------------- MODULE MessageCodec ----------------------------
(***************************************************************************)
(* Payloads of the "struct" format (generic_message_bridge.cpp): a list of *)
(* members, each a path into a ROS message or an expression over its       *)
(* fields, becomes the concatenation of their wire values, and back.       *)
(* Sequences of booleans, which have no element pointers, are left out.    *)
(***************************************************************************)
EXTENDS MathExpression

\* A schema gives each field [array, length, type, nested]: array is "no", "fixed"
\* or "open" (a resizable sequence); nested is the schema of a message.
Field(array, length, type) == [array |-> array, length |-> length, type |-> type, nested |-> <<>>]
MessageField(array, length, schema) ==
    [Field(array, length, [kind |-> "message", size |-> 0, lo |-> 0, hi |-> 0]) EXCEPT !.nested = schema]
IsMessage(field) == field.type.kind = "message"
IsScalar(leaf) == leaf.type.kind \in {"bool", "int", "float"}

\* An address is a sequence of [name, at], at = -1 for a field that is not an
\* array.  A message gives sizes of sequences, addressed with at = -1, and
\* values of leaves.  What it does not give is initialized: empty, or zero.
Step(name, i) == [name |-> name, at |-> i]
NewMessage == [size |-> <<>>, leaf |-> <<>>]
Put(f, a, v) == [x \in DOMAIN f \cup {a} |-> IF x = a THEN v ELSE f[x]]
Zero(type) == IF type.kind = "float" THEN <<0, 1>> ELSE 0
LeafValue(m, a, type) == IF a \in DOMAIN m.leaf THEN m.leaf[a] ELSE Zero(type)

ArraySize(m, a, field) ==
    IF field.array # "open" THEN field.length
    ELSE IF a \in DOMAIN m.size THEN m.size[a] ELSE 0

\* A segment of a path: start, stop and step are those of a slice; Absent is left out.
Absent == -1
Plain(name) == [name |-> name, index |-> Absent, slice |-> FALSE, start |-> Absent, stop |-> Absent, step |-> 1]
Indexed(name, i) == [Plain(name) EXCEPT !.index = i]
Slice(name, start, stop, step) ==
    [Plain(name) EXCEPT !.slice = TRUE, !.start = start, !.stop = stop, !.step = step]
HasSelector(seg) == seg.index # Absent \/ seg.slice
Start(seg) == IF seg.start = Absent THEN 0 ELSE seg.start

CountRange(start, stop, step) == IF start >= stop THEN 0 ELSE 1 + (stop - start - 1) \div step

-----------------------------------------------------------------------------
(* How many leaves a path selects in a message not yet seen: Many when the   *)
(* payload tells, Wrong when the decoder refuses the path.                   *)

Many == -1
Wrong == -2

\* What one segment selects in an array.
CountHere(seg, field, isLast) ==
    CASE seg.index # Absent -> 1
      [] seg.slice /\ seg.stop # Absent ->
              IF field.array # "open" /\ seg.stop > field.length THEN Wrong
              ELSE CountRange(Start(seg), seg.stop, seg.step)
      [] seg.slice /\ seg.stop = Absent ->
              IF ~isLast THEN Wrong ELSE IF field.array = "open" THEN Many
              ELSE IF Start(seg) > field.length THEN Wrong
              ELSE CountRange(Start(seg), field.length, seg.step)
      [] ~HasSelector(seg) ->
              IF ~isLast THEN Wrong ELSE IF field.array = "open" THEN Many ELSE field.length

RECURSIVE SelectionCount(_, _)
SelectionCount(schema, path) ==
    LET seg == Head(path)
        field == schema[seg.name]
        here == IF field.array # "no" THEN CountHere(seg, field, Len(path) = 1)
                ELSE IF HasSelector(seg) THEN Wrong ELSE 1
        inside == SelectionCount(field.nested, Tail(path)) IN
    CASE seg.name \notin DOMAIN schema -> Wrong
      [] seg.name \in DOMAIN schema /\ (here < 0 \/ Len(path) = 1) -> here
      [] seg.name \in DOMAIN schema /\ here >= 0 /\ Len(path) > 1 ->
              IF ~IsMessage(field) \/ inside = Wrong THEN Wrong
              ELSE IF inside # Many THEN here * inside
              ELSE IF field.array = "no" THEN Many ELSE Wrong

-----------------------------------------------------------------------------
(* Which elements of an array a segment selects: in the source, which keeps  *)
(* its size, and in the destination, which grows.                            *)

Selected(ok, size, indices) == [ok |-> ok, size |-> size, indices |-> indices]
Rejected == Selected(FALSE, 0, <<>>)
From(start, step, n) == [i \in 1..n |-> start + (i - 1) * step]

SelectConst(seg, isLast, size) ==
    LET stop == IF seg.stop = Absent THEN size ELSE seg.stop IN
    CASE seg.index # Absent ->
              IF seg.index >= size THEN Rejected ELSE Selected(TRUE, size, <<seg.index>>)
      [] seg.slice ->
              IF Start(seg) > size \/ stop > size THEN Rejected
              ELSE Selected(TRUE, size, From(Start(seg), seg.step, CountRange(Start(seg), stop, seg.step)))
      [] ~HasSelector(seg) ->
              IF ~isLast THEN Rejected ELSE Selected(TRUE, size, From(0, 1, size))

\* room: the number of elements an open selection receives, Absent when it is
\* another member that is open.
SelectMutable(seg, isLast, field, size, room) ==
    LET Grown(n, indices) ==                    \* ensure_size
            IF n <= size THEN Selected(TRUE, size, indices)
            ELSE IF field.array # "open" THEN Rejected ELSE Selected(TRUE, n, indices)
        start == Start(seg) IN
    CASE seg.index # Absent -> Grown(seg.index + 1, <<seg.index>>)
      [] seg.slice /\ seg.stop # Absent ->
              Grown(seg.stop, From(start, seg.step, CountRange(start, seg.stop, seg.step)))
      [] seg.slice /\ seg.stop = Absent ->
              IF room # Absent
              THEN Grown(IF room = 0 THEN start ELSE start + (room - 1) * seg.step + 1,
                         From(start, seg.step, room))
              ELSE IF ~isLast THEN Rejected
              ELSE Selected(TRUE, size, From(start, seg.step, CountRange(start, size, seg.step)))
      [] ~HasSelector(seg) ->
              IF ~isLast THEN Rejected
              ELSE IF room = Absent THEN Selected(TRUE, size, From(0, 1, size))
              ELSE Grown(room, From(0, 1, room))

\* The leaves a path selects, in order, and the message with the sequences
\* grown on the way; at is where the schema is entered.
NoLeaves == [ok |-> FALSE, m |-> NewMessage, leaves |-> <<>>]

RECURSIVE Collect(_, _, _, _, _, _)
Collect(schema, m, at, path, reading, room) ==
    LET seg == Head(path)
        isLast == Len(path) = 1
        field == schema[seg.name]
        key == Append(at, Step(seg.name, -1))
        size == ArraySize(m, key, field)
        sel == IF field.array = "no"
               THEN IF HasSelector(seg) THEN Rejected ELSE Selected(TRUE, 0, <<-1>>)
               ELSE IF reading THEN SelectConst(seg, isLast, size)
               ELSE SelectMutable(seg, isLast, field, size, room)
        grown == IF field.array = "open" /\ sel.size # size
                 THEN [m EXCEPT !.size = Put(@, key, sel.size)] ELSE m
        Element(i) == [at |-> Append(at, Step(seg.name, i)), type |-> field.type]
        Inside(acc, i) ==
            IF ~acc.ok THEN acc
            ELSE LET r == Collect(field.nested, acc.m, Append(at, Step(seg.name, i)),
                                  Tail(path), reading, room) IN
                 IF ~r.ok THEN r ELSE [r EXCEPT !.leaves = acc.leaves \o @]
        start == [ok |-> TRUE, m |-> grown, leaves |-> <<>>] IN
    IF seg.name \notin DOMAIN schema THEN NoLeaves
    ELSE IF ~sel.ok THEN NoLeaves
    ELSE IF isLast THEN [start EXCEPT !.leaves = [k \in DOMAIN sel.indices |-> Element(sel.indices[k])]]
    ELSE IF ~IsMessage(field) /\ sel.indices # <<>> THEN NoLeaves
    ELSE FoldLeft(Inside, start, sel.indices)

\* One scalar, of an expression or an assignment: a slice in the path is not
\* looked at, and an array wants an index.
RECURSIVE Resolve(_, _, _, _, _)
Resolve(schema, m, at, path, reading) ==
    LET seg == Head(path)
        field == schema[seg.name]
        isLast == Len(path) = 1
        key == Append(at, Step(seg.name, -1))
        size == ArraySize(m, key, field)
        here == Append(at, Step(seg.name, seg.index))
        grown == IF ~reading /\ field.array = "open" /\ seg.index >= size
                 THEN [m EXCEPT !.size = Put(@, key, seg.index + 1)] ELSE m IN
    IF seg.name \notin DOMAIN schema THEN NoLeaves
    ELSE IF (field.array = "no") # (seg.index = Absent) THEN NoLeaves
    ELSE IF field.array # "no" /\ seg.index >= ArraySize(grown, key, field) THEN NoLeaves
    ELSE IF isLast THEN [ok |-> TRUE, m |-> grown, leaves |-> <<[at |-> here, type |-> field.type]>>]
    ELSE IF ~IsMessage(field) THEN NoLeaves
    ELSE Resolve(field.nested, grown, here, Tail(path), reading)

-----------------------------------------------------------------------------
(* The codec.  A member is [path, tokens, wire]: an expression when tokens   *)
(* is not empty, and path is then only its name.                             *)

Member(path, wire) == [path |-> path, tokens |-> <<>>, wire |-> wire]
Computed(path, tokens, wire) == [path |-> path, tokens |-> tokens, wire |-> wire]

\* Exactly if every operand is an integer, else in doubles.  An error of the exact
\* evaluation is an error.
Evaluate(tokens, names) ==
    LET e == Parse(tokens)
        exact == Exact(e.tree, names)
        double == Floated(e.tree, names) IN
    IF e.pos = 0 THEN [is |-> "error", value |-> 0]
    ELSE IF exact.is # "float" THEN exact
    ELSE IF double.ok THEN [is |-> "double", value |-> double.value]
    ELSE [is |-> "error", value |-> 0]

NamesIn(tokens) == {tokens[i].arg : i \in {j \in DOMAIN tokens : tokens[j].t = "name"}}

\* The fields an expression reads.
FieldNames(schema, m, tokens) ==
    LET Leaves(p) == Resolve(schema, m, <<>>, p, TRUE)
        Known == {p \in NamesIn(tokens) : Leaves(p).ok /\ IsScalar(Leaves(p).leaves[1])} IN
    [p \in Known |->
        LET leaf == Leaves(p).leaves[1]
            v == LeafValue(m, leaf.at, leaf.type) IN
        [exact |-> ReadInteger(v, leaf.type).ok, value |-> v]]

OutgoingResult(r, wire) ==
    CASE r.is = "value"  -> CoerceOutgoingInteger(r.value, wire)
      [] r.is = "double" -> CoerceOutgoing(r.value, wire)
      [] r.is = "error"  -> Failed

OutgoingLeaf(m, leaf, wire) ==
    LET v == LeafValue(m, leaf.at, leaf.type) IN
    CASE ~IsScalar(leaf) -> Failed
      [] leaf.type.kind = "float" -> CoerceOutgoing(v, wire)
      [] leaf.type.kind \in {"int", "bool"} -> CoerceOutgoingInteger(v, wire)

\* encode_payload
EncodePayload(schema, m, members) ==
    LET Values(member) ==
            LET c == Collect(schema, m, <<>>, member.path, TRUE, Absent)
            IN  IF member.tokens # <<>>
                THEN <<OutgoingResult(Evaluate(member.tokens, FieldNames(schema, m, member.tokens)),
                                      member.wire)>>
                ELSE IF ~c.ok THEN <<Failed>>
                ELSE [k \in DOMAIN c.leaves |-> OutgoingLeaf(m, c.leaves[k], member.wire)]
        all == [i \in DOMAIN members |-> Values(members[i])]
        Bytes(i) == FlattenSeq([k \in DOMAIN all[i] |-> PackValue(all[i][k].value, members[i].wire)]) IN
    IF \E i \in DOMAIN all : \E k \in DOMAIN all[i] : ~all[i][k].ok
    THEN [ok |-> FALSE, payload |-> <<>>]
    ELSE [ok |-> TRUE, payload |-> FlattenSeq([i \in DOMAIN all |-> Bytes(i)])]

\* decode_payload, in its order.  First the room of the open member...
Room(schema, members, payload) ==
    LET Count(i) == IF members[i].tokens # <<>> THEN 1 ELSE SelectionCount(schema, members[i].path)
        open == {i \in DOMAIN members : Count(i) = Many}
        fixed == FoldLeft(LAMBDA n, i : n + (IF Count(i) = Many THEN 0 ELSE Count(i) * members[i].wire.size),
                          0, [i \in DOMAIN members |-> i])
        left == Len(payload) - fixed IN
    IF (\E i \in DOMAIN members : Count(i) = Wrong) \/ Cardinality(open) > 1 \/ left < 0
    THEN [ok |-> FALSE, open |-> 0, n |-> 0]
    ELSE IF open = {} THEN [ok |-> left = 0, open |-> 0, n |-> 0]
    ELSE LET i == CHOOSE i \in open : TRUE IN
         [ok |-> left % members[i].wire.size = 0, open |-> i, n |-> left \div members[i].wire.size]

\* ...then the addresses of all values are taken, member by member; a later member
\* that grows a sequence may move the elements whose addresses were taken before.
Bind(schema, members, room) ==
    LET BindMember(acc, i) ==
            IF ~acc.ok THEN acc
            ELSE IF members[i].tokens # <<>>
            THEN [acc EXCEPT !.slots = Append(@, [member |-> i, leaf |-> <<>>])]
            ELSE LET c == Collect(schema, acc.m, <<>>, members[i].path, FALSE,
                                  IF room.open = i THEN room.n ELSE Absent) IN
                 [ok |-> c.ok, m |-> c.m,
                  slots |-> acc.slots \o [k \in DOMAIN c.leaves |-> [member |-> i, leaf |-> <<c.leaves[k]>>]],
                  stale |-> acc.stale \cup {a \in {s.leaf[1].at : s \in {acc.slots[j] : j \in
                                  {j \in DOMAIN acc.slots : acc.slots[j].leaf # <<>>}}} :
                      \E key \in DOMAIN c.m.size :
                          /\ key \notin DOMAIN acc.m.size \/ acc.m.size[key] # c.m.size[key]
                          /\ Len(key) <= Len(a) /\ SubSeq(key, 1, Len(key) - 1) = SubSeq(a, 1, Len(key) - 1)
                          /\ a[Len(key)].name = key[Len(key)].name}] IN
    FoldLeft(BindMember, [ok |-> TRUE, m |-> NewMessage, slots |-> <<>>, stale |-> {}],
             [i \in DOMAIN members |-> i])

IncomingLeaf(w, wire, leaf) ==
    CASE ~IsScalar(leaf) -> Failed
      [] IsScalar(leaf) /\ wire.kind = "float" -> WriteNumeric(CoerceIncoming(w, wire), leaf.type)
      [] IsScalar(leaf) /\ wire.kind # "float" -> WriteInteger(w, leaf.type)

\* ...then the values are read and written, and named after the target of their
\* member (the first of several); last, the assignments.  stale: the addresses
\* whose first writes may have gone to memory given back.
DecodePayload(schema, payload, members, assignments) ==
    LET room == Room(schema, members, payload)
        bound == Bind(schema, members, room)
        wire == [k \in DOMAIN bound.slots |-> members[bound.slots[k].member].wire]
        Offset[k \in 0..Len(bound.slots)] == IF k = 0 THEN 0 ELSE Offset[k - 1] + wire[k].size
        value == [k \in DOMAIN bound.slots |->
                    UnpackValue(SubSeq(payload, Offset[k - 1] + 1, Offset[k]), wire[k])]
        Write(acc, k) ==
            LET leaf == bound.slots[k].leaf[1]
                r == IncomingLeaf(value[k], wire[k], leaf) IN
            IF bound.slots[k].leaf = <<>> \/ ~acc.ok THEN acc
            ELSE IF ~r.ok THEN [acc EXCEPT !.ok = FALSE]
            ELSE [acc EXCEPT !.m.leaf = Put(@, leaf.at, r.value)]
        written == FoldLeft(Write, [ok |-> TRUE, m |-> bound.m], [k \in DOMAIN value |-> k])
        target == [k \in DOMAIN value |-> members[bound.slots[k].member].path]
        First(p) == CHOOSE k \in DOMAIN value : target[k] = p /\ \A j \in 1..(k - 1) : target[j] # p
        names == [p \in {target[k] : k \in DOMAIN value} |->
                    [exact |-> CoerceIncomingInteger(value[First(p)], wire[First(p)]).ok,
                     value |-> value[First(p)]]]
        Assign(acc, a) ==
            LET r == Evaluate(a.tokens, names)
                to == Resolve(schema, acc.m, <<>>, a.path, FALSE)
                leaf == to.leaves[1]
                v == IF r.is = "value" THEN WriteInteger(r.value, leaf.type)
                     ELSE WriteNumeric(r.value, leaf.type) IN
            IF ~acc.ok THEN acc
            ELSE IF r.is = "error" \/ ~to.ok THEN [acc EXCEPT !.ok = FALSE]
            ELSE IF ~IsScalar(leaf) \/ ~v.ok THEN [acc EXCEPT !.ok = FALSE]
            ELSE [acc EXCEPT !.m = [to.m EXCEPT !.leaf = Put(@, leaf.at, v.value)]]
        done == FoldLeft(Assign, written, assignments)
        failed == [ok |-> FALSE, m |-> NewMessage, stale |-> {}] IN
    IF ~room.ok THEN failed
    ELSE IF ~bound.ok \/ Len(payload) < Offset[Len(bound.slots)] THEN failed
    ELSE IF ~done.ok THEN failed
    ELSE [ok |-> TRUE, m |-> done.m, stale |-> bound.stale]
=============================================================================
