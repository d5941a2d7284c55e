-------------------------------- MODULE Schema ---------------------------------
(***************************************************************************)
(* The schema half of the serialization layer (serialize/schema.c and      *)
(* match.c): a type is measured, flattened into a table of rows and placed *)
(* in records, so that a message of it can be read and written by row.     *)
(*                                                                         *)
(* A type is a tree instead of wire bytes. Lengths count cells: a cell     *)
(* stands for a byte of a value or for a whole length word.                *)
(***************************************************************************)
EXTENDS Integers, Sequences, SequencesExt, FiniteSets, FiniteSetsExt

CONSTANTS
    MaxDepth,   \* how deep arrays and structs nest (8)
    Limit       \* the longest default message (4 GB)

----------------------------------------------------------------------------
(* Types. A name is a sequence of characters.                              *)

NoName == <<>>
\* k: the kind; nm: the name of the type; n: the cells of a scalar, the
\* cap of a string or the count of an array; e: the element of an array; fs: the
\* fields of a struct, or the options of an enum, each as a scalar of its value.
Type(k, n, e, fs) == [k |-> k, nm |-> NoName, n |-> n, e |-> e, fs |-> fs]
Scalar(n)   == Type("scalar", n, <<>>, <<>>)
Str(cap)    == Type("str", cap, <<>>, <<>>)
VStr        == Type("vstr", 0, <<>>, <<>>)
MapType     == Type("map", 0, <<>>, <<>>)
Arr(n, e)   == Type("arr", n, <<e>>, <<>>)
VArr(e)     == Type("varr", 0, <<e>>, <<>>)
Named(nm, t)      == [t EXCEPT !.nm = nm]
Field(nm, t)      == [name |-> nm, t |-> t]
Struct(nm, fs)    == Named(nm, Type("struct", 0, <<>>, fs))
Enum(nm, n, opts) == Named(nm, Type("enum", n, <<>>, opts))

Arrays == {"arr", "varr"}
Sum(s) == FoldSeq(+, 0, s)

----------------------------------------------------------------------------
(* Measuring, rd_type: what a type occupies, or why it is refused.         *)

\* size: its fixed cells, frames: the default frames it adds to its record, body: its
\* own default body, var: whether it has no static size, rows: the rows under it.
Measured(size, frames, body, var, rows) ==
    [ok |-> TRUE, size |-> size, frames |-> frames, body |-> body, var |-> var, rows |-> rows]
Refused == [Measured(0, 0, 0, FALSE, 0) EXCEPT !.ok = FALSE]
Within(m) == IF m.size > Limit \/ m.frames > Limit \/ m.body > Limit THEN Refused ELSE m

\* The default payload of an array whose elements vary: the count, an end and a body each.
ArrDmin(k, count, elemVar, elemBody) ==
    IF ~elemVar THEN 0 ELSE IF k = "varr" THEN 1 ELSE 1 + (1 + elemBody) * count

RECURSIVE Measure(_, _)
Measure(t, depth) ==
    CASE t.k = "scalar" -> Measured(t.n, 0, 0, FALSE, 0)
      [] t.k = "enum"   -> IF t.nm = NoName THEN Refused ELSE Measured(t.n, 0, 0, FALSE, 0)
      [] t.k = "str"    -> Measured(1 + t.n, 0, 0, FALSE, 0)
      [] t.k \in {"vstr", "map"} -> Measured(0, 1, 0, TRUE, 0)
      [] t.k \in Arrays ->
           LET e == IF depth < MaxDepth THEN Measure(t.e[1], depth + 1) ELSE Refused
               body == ArrDmin(t.k, t.n, e.var, e.body) IN
           IF ~e.ok \/ (~e.var /\ e.size = 0) THEN Refused
           ELSE IF t.k = "arr" /\ ~e.var THEN Within(Measured(t.n * e.size, 0, 0, FALSE, e.rows + 1))
           ELSE Within(Measured(0, 1 + body, body, TRUE, e.rows + 1))
      [] t.k = "struct" ->
           LET ms == [i \in DOMAIN t.fs |-> Measure(t.fs[i].t, depth + 1)]
               size   == Sum([i \in DOMAIN ms |-> ms[i].size])
               frames == Sum([i \in DOMAIN ms |-> ms[i].frames]) IN
           IF t.nm = NoName \/ depth >= MaxDepth \/ \E i \in DOMAIN ms : ~ms[i].ok THEN Refused
           ELSE Within(Measured(size, frames, size + frames, \E i \in DOMAIN ms : ms[i].var,
                                Sum([i \in DOMAIN ms |-> ms[i].rows + 1])))

\* wire_why: whether a root is accepted.
Accepted(t) == LET m == Measure(t, 0) IN m.ok /\ m.size + m.frames <= Limit

----------------------------------------------------------------------------
(* The rows, emit_type and emit_struct: one per type, depth first.         *)

RECURSIVE EmitType(_, _, _, _, _, _), EmitFields(_, _, _, _, _)
\* The type at row idx, and the rows under it. next is past its subtree.
EmitType(t, name, depth, parent, off, idx) ==
    LET kids == CASE t.k = "struct" -> EmitFields(t.fs, depth + 1, idx, off, idx + 1)
                  [] t.k \in Arrays -> EmitType(t.e[1], NoName, depth + 1, idx, 0, idx + 1)
                  [] OTHER -> <<>>
        mine == SelectSeq(kids, LAMBDA r : r.parent = idx)
        var  == t.k \in {"vstr", "map", "varr"} \/ \E i \in DOMAIN mine : mine[i].var
        size == CASE t.k = "struct" -> Sum([i \in DOMAIN mine |-> mine[i].size])
                  [] t.k = "arr"    -> IF var THEN 0 ELSE t.n * mine[1].size
                  [] t.k = "str"    -> 1 + t.n
                  [] t.k \in {"scalar", "enum"} -> t.n
                  [] OTHER -> 0 IN
    <<[name |-> name, type |-> t, depth |-> depth, parent |-> parent, off |-> off,
       size |-> size, var |-> var, next |-> idx + 1 + Len(kids)]>> \o kids
EmitFields(fs, depth, parent, off, idx) ==
    IF fs = <<>> THEN <<>>
    ELSE LET first == EmitType(fs[1].t, fs[1].name, depth, parent, off, idx) IN
         first \o EmitFields(Tail(fs), depth, parent, off + first[1].size, idx + Len(first))

----------------------------------------------------------------------------
(* Placing the rows, schema_place.                                         *)

\* A framed row rides a frame of its record; a record is the message, 0, or the element
\* row of the nearest array. A struct's variable members join its record.
Framed(rows, i) ==
    LET r == rows[i] IN
    r.var /\ r.type.k # "struct" /\ (r.parent = 0 \/ rows[r.parent].type.k \notin Arrays)
RECURSIVE ArrParent(_, _)
ArrParent(rows, i) ==
    LET p == rows[i].parent IN
    IF p = 0 THEN 0 ELSE IF rows[p].type.k \in Arrays THEN p ELSE ArrParent(rows, p)
RECURSIVE ArrDepth(_, _)
ArrDepth(rows, i) == LET a == ArrParent(rows, i) IN IF a = 0 THEN 0 ELSE ArrDepth(rows, a) + 1
Record(rows, i) == LET a == ArrParent(rows, i) IN IF a = 0 THEN 0 ELSE a + 1

\* The framed rows of a record, in order.
FrameRows(rows, rec) == {i \in DOMAIN rows : Framed(rows, i) /\ Record(rows, i) = rec}

\* The default body of a variable row: a framed payload, or a whole element.
RECURSIVE Dmin(_, _)
Dmin(rows, i) ==
    LET r == rows[i] IN
    CASE ~r.var -> 0
      [] r.var /\ r.type.k = "struct" /\ r.parent # 0 /\ rows[r.parent].type.k \in Arrays ->
           r.size + FoldSet(LAMBDA j, a : a + 1 + Dmin(rows, j), 0, FrameRows(rows, i))
      [] r.var /\ r.type.k \in Arrays ->
           ArrDmin(r.type.k, r.type.n, rows[i + 1].var, Dmin(rows, i + 1))
      [] OTHER -> 0

\* The place of a framed row's frame in its record.
Ordinal(rows, i) == Cardinality({j \in FrameRows(rows, Record(rows, i)) : j < i})

\* A frame has no static offset.
Placed(rows) ==
    [i \in DOMAIN rows |->
        [framed |-> Framed(rows, i), ord |-> IF Framed(rows, i) THEN Ordinal(rows, i) ELSE 0,
         arr |-> ArrParent(rows, i), arrDepth |-> ArrDepth(rows, i), dmin |-> Dmin(rows, i),
         nvar |-> Cardinality(FrameRows(rows, i)),
         off |-> IF Framed(rows, i) THEN 0 ELSE rows[i].off] @@ rows[i]]

\* schema_compile: the root is a struct, whose fields are the top rows, or one row.
SchemaOf(t, rows, size) ==
    [nm |-> t.nm, value |-> t.k # "struct", rows |-> Placed(rows), size |-> size,
     nvar |-> Cardinality(FrameRows(rows, 0)),
     msgMin |-> size + FoldSet(LAMBDA j, a : a + 1 + Dmin(rows, j), 0, FrameRows(rows, 0))]
TopSize(rows) == Sum([i \in DOMAIN rows |-> IF rows[i].parent = 0 THEN rows[i].size ELSE 0])
Flattened(t, rows) == SchemaOf(t, rows, TopSize(rows))
Compile(t) ==
    Flattened(t, IF t.k = "struct" THEN EmitFields(t.fs, 0, 0, 0, 1) ELSE EmitType(t, NoName, 0, 0, 0, 1))

----------------------------------------------------------------------------
(* Paths, schema_child and field_by_path. A path is a sequence of a name   *)
(* with the indices after it.                                              *)

NoRow == [row |-> 0, elems |-> <<>>]
Children(s, p) == {i \in DOMAIN s.rows : s.rows[i].parent = p}
\* The element row under row i, past the arrays the path gave no index for: their first.
RECURSIVE Elements(_, _)
Elements(s, at) ==
    IF at.row # 0 /\ s.rows[at.row].type.k \in Arrays
    THEN Elements(s, [row |-> at.row + 1, elems |-> Append(at.elems, 0)]) ELSE at
RECURSIVE Indexed(_, _, _)
Indexed(s, at, idx) ==
    IF idx = <<>> \/ at = NoRow THEN at
    ELSE IF s.rows[at.row].type.k \notin Arrays THEN NoRow
    ELSE Indexed(s, [row |-> at.row + 1, elems |-> Append(at.elems, idx[1])], Tail(idx))
RECURSIVE Walk(_, _, _)
Walk(s, at, path) ==
    IF path = <<>> THEN at
    ELSE LET from == IF at = NoRow THEN at ELSE Elements(s, at)
             hits == {i \in Children(s, from.row) : s.rows[i].name = path[1].name} IN
         IF (from # NoRow /\ s.rows[from.row].type.k # "struct") \/ hits = {} THEN NoRow
         ELSE LET got == Indexed(s, [row |-> Min(hits), elems |-> from.elems], path[1].idx) IN
              IF got = NoRow THEN NoRow ELSE Walk(s, got, Tail(path))
FieldByPath(s, path) ==
    LET at == Walk(s, NoRow, path) IN
    IF at # NoRow /\ Len(at.elems) = s.rows[at.row].arrDepth THEN at ELSE NoRow

----------------------------------------------------------------------------
(* Readers and writers, type_cmp, subset_why and rebase.                   *)

\* Names narrow, an enum compares by its backing, everything else exactly.
RECURSIVE TypeCmp(_, _)
TypeCmp(a, b) ==
    /\ a.nm # NoName => a.nm = b.nm
    /\ a.k = b.k
    /\ a.n = b.n
    /\ a.k \in Arrays => TypeCmp(a.e[1], b.e[1])
    /\ a.k = "struct" =>
         /\ Len(a.fs) = Len(b.fs)
         /\ \A i \in DOMAIN a.fs : a.fs[i].name = b.fs[i].name /\ TypeCmp(a.fs[i].t, b.fs[i].t)

\* A top row by name.
Find(s, name) == {i \in Children(s, 0) : s.rows[i].name = name}

Subset(sub, pub) ==
    /\ IF sub.value \/ pub.value
       THEN sub.value = pub.value /\ (sub.nm # NoName => sub.nm = pub.nm)
       ELSE sub.nm = pub.nm
    /\ \A i \in Children(sub, 0) : \E j \in Find(pub, sub.rows[i].name) :
          TypeCmp([sub.rows[i].type EXCEPT !.nm = IF sub.value THEN NoName ELSE @], pub.rows[j].type)

\* mutant: the frames stay in the reader's order
RebasedOffsets(r, p) == [r EXCEPT !.off = p.off]
RebasedRow(r, p) == [r EXCEPT !.off = p.off, !.ord = p.ord]
\* The reader's rows with the writer's layout.
Rebase(sub, pub) ==
    LET Top(i) == Max({j \in Children(sub, 0) : j <= i})
        Its(i) == Min(Find(pub, sub.rows[Top(i)].name)) + (i - Top(i)) IN
    [sub EXCEPT !.rows = [i \in DOMAIN sub.rows |-> RebasedRow(sub.rows[i], pub.rows[Its(i)])],
                !.size = pub.size, !.nvar = pub.nvar, !.msgMin = pub.msgMin]

=============================================================================
