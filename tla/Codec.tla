-------------------------------- MODULE Codec ----------------------------------
(***************************************************************************)
(* A program sets values of a message by path, and readers with schemas of *)
(* their own read it. What a message is comes from a second definition,    *)
(* Encode, by structure over the type and without rows: the layout of      *)
(* spec/schema.md. The buffer must always hold the encoding of the values  *)
(* the program set.                                                        *)
(***************************************************************************)
EXTENDS Message, SchemaText

CONSTANTS
    Setups     \* the setups to run with, see setup

VARIABLES
    setup,     \* a member of Setups: whether the program sets values of a message of
               \* [t, s, readers], a type is compiled [t], any n cells are taken for a
               \* message [t, s, n, vals: all values that fit in n cells], a program
               \* writes a map, any n cells are taken for a map [n], programs compile
               \* texts and peers' schemas arrive [texts, peers], or all words of n
               \* characters are taken for names [n]
    buf,       \* the buffer
    val,       \* the values that were set: by type, cells or a sequence of values; the
               \* entries of the open maps and arrays of a map writer; the schemas
               \* made from texts
    writer,    \* a map writer
    reg        \* a registry of schemas

vars == <<setup, buf, val, writer, reg>>

----------------------------------------------------------------------------
(* The reference encoding.                                                 *)

IsVar(t) == Measure(t, 0).var

RECURSIVE DefaultVal(_)
DefaultVal(t) ==
    CASE t.k \in {"scalar", "enum"} -> Zeros(t.n)
      [] t.k = "arr"    -> [i \in 1 .. t.n |-> DefaultVal(t.e[1])]
      [] t.k = "struct" -> [i \in DOMAIN t.fs |-> DefaultVal(t.fs[i].t)]
      [] OTHER          -> <<>>

RECURSIVE Fixed(_, _), Frames(_, _), Payload(_, _)
\* The fixed cells of a value.
Fixed(t, v) ==
    CASE t.k \in {"scalar", "enum"} -> v
      [] t.k = "str"    -> <<Len(v)>> \o v \o Zeros(t.n - Len(v))
      [] t.k = "arr"    -> IF IsVar(t.e[1]) THEN <<>> ELSE FlattenSeq([i \in DOMAIN v |-> Fixed(t.e[1], v[i])])
      [] t.k = "struct" -> FlattenSeq([i \in DOMAIN v |-> Fixed(t.fs[i].t, v[i])])
      [] OTHER          -> <<>>
\* The frames a value adds to its record.
Frames(t, v) ==
    IF ~IsVar(t) THEN <<>>
    ELSE IF t.k = "struct" THEN FlattenSeq([i \in DOMAIN v |-> Frames(t.fs[i].t, v[i])])
    ELSE <<Len(Payload(t, v))>> \o Payload(t, v)
Payload(t, v) ==
    IF t.k \notin Arrays THEN v
    ELSE IF ~IsVar(t.e[1]) THEN FlattenSeq([i \in DOMAIN v |-> Fixed(t.e[1], v[i])])
    ELSE LET body(i) == IF t.e[1].k = "struct" THEN Fixed(t.e[1], v[i]) \o Frames(t.e[1], v[i])
                                               ELSE Payload(t.e[1], v[i])
             end(i) == Sum([j \in 1 .. i |-> Len(body(j))]) IN
         <<Len(v)>> \o [i \in DOMAIN v |-> end(i)] \o FlattenSeq([i \in DOMAIN v |-> body(i)])
Encode(t, v) == Fixed(t, v) \o Frames(t, v)

----------------------------------------------------------------------------
(* Where the values of a message are: a path, the indices into val, and    *)
(* the type there.                                                         *)

Seg(name) == [name |-> name, idx |-> <<>>]
RECURSIVE Under(_, _, _, _)
Under(t, v, path, adr) ==
    {[path |-> path, adr |-> adr, t |-> t]} \cup
    CASE t.k \in Arrays ->
           UNION {Under(t.e[1], v[i],
                        Append(Front(path), [Last(path) EXCEPT !.idx = Append(@, i - 1)]), Append(adr, i)) : i \in DOMAIN v}
      [] t.k = "struct" ->
           UNION {Under(t.fs[i].t, v[i], Append(path, Seg(t.fs[i].name)), Append(adr, i)) : i \in DOMAIN v}
      [] OTHER -> {}
Spots(t, v) ==
    IF t.k = "struct" THEN UNION {Under(t.fs[i].t, v[i], <<Seg(t.fs[i].name)>>, <<i>>) : i \in DOMAIN v}
    ELSE Under(t, v, <<Seg(NoName)>>, <<>>)

RECURSIVE Get(_, _), Put(_, _, _)
Get(v, adr) == IF adr = <<>> THEN v ELSE Get(v[adr[1]], Tail(adr))
Put(v, adr, x) == IF adr = <<>> THEN x ELSE [v EXCEPT ![adr[1]] = Put(@, Tail(adr), x)]

----------------------------------------------------------------------------
(* The program.                                                            *)

Init ==
    /\ setup \in Setups
    /\ val = CASE setup.mode = "set" -> DefaultVal(setup.t)
                [] setup.mode = "map" -> <<<<>>>>
                [] setup.mode = "text" -> {}
                [] OTHER -> <<>>
    /\ writer = MapBegin
    /\ reg = NoRegistry
    /\ buf = IF setup.mode = "set"
             THEN LET d == MessageDefault(setup.s) IN d \o Zeros(Cap - Len(d)) ELSE <<>>

\* The values a program sets at a type, one that is too long included, and the
\* default of an array's elements that are not given.
Ones(n) == [i \in 1 .. n |-> IF i = 1 THEN 1 ELSE 0]
SetTo(t) ==
    CASE t.k \in {"scalar", "enum"} -> {Ones(t.n), Zeros(t.n)}
      [] t.k = "str"            -> {<<>>, <<2>>, [i \in 1 .. t.n + 1 |-> 2]}
      [] t.k = "vstr"           -> {<<>>, <<2>>, <<2, 2>>}
      [] t.k = "map"            -> {<<>>, <<2>>, <<1, 0, KScalar, 0>>}
      [] OTHER                  -> {}
Elems(t) == IF t.k \notin Arrays \/ IsVar(t.e[1]) THEN {} ELSE {<<DefaultVal(t.e[1])>>, <<>>}
Legal(t, x) == (t.k = "str" => Len(x) <= t.n) /\ (t.k = "map" => MapValid(x))

Does(new, b) ==
    /\ buf' = b
    /\ val' = IF Len(Encode(setup.t, new)) <= Cap THEN new ELSE val
    /\ UNCHANGED <<setup, writer, reg>>

Set(p, at, sp, x) ==
    Does(IF Legal(p.t, x) THEN Put(val, p.adr, x) ELSE val, SetValue(setup.s, buf, at, sp, x))

\* Packed elements: over the front of a fixed array, or exactly them.
Filled(vs, n, e) == [i \in 1 .. n |-> IF i <= Len(vs) THEN vs[i] ELSE DefaultVal(e)]
SetArray(p, at, sp, es) ==
    Does(Put(val, p.adr, IF p.t.k = "varr" THEN es ELSE Filled(es, p.t.n, p.t.e[1])),
         SetValue(setup.s, buf, at, sp, FlattenSeq([i \in DOMAIN es |-> Fixed(p.t.e[1], es[i])])))

\* No cells for a struct: its fixed part is cleared, what varies in it stays.
RECURSIVE Cleared(_, _)
Cleared(t, v) ==
    CASE t.k = "struct" -> [i \in DOMAIN v |-> Cleared(t.fs[i].t, v[i])]
      [] t.k # "struct" /\ IsVar(t) -> v
      [] OTHER -> DefaultVal(t)
ClearStruct(p, at, sp) ==
    Does(Put(val, p.adr, Cleared(p.t, Get(val, p.adr))), SetValue(setup.s, buf, at, sp, <<>>))

SetArrayCount(p, at, sp, n) ==
    Does(IF p.t.k = "varr" THEN Put(val, p.adr, Filled(Get(val, p.adr), n, p.t.e[1])) ELSE val,
         SetCount(setup.s, buf, at.row, sp, n))

\* The map writer. What it took is added to the entries of the innermost open one.
Took(w, vals) ==
    /\ writer' = w
    /\ val' = IF w.err \/ w = writer THEN val ELSE vals
    /\ UNCHANGED <<setup, buf, reg>>
Item(key, k, x) == [key |-> IF key = <<>> THEN <<>> ELSE key[1], k |-> k, x |-> x]
Added(vs, item) == [vs EXCEPT ![Len(vs)] = Append(@, item)]

Puts(key, k, cells) ==
    Took(MapPut(writer, key, (IF k = KString THEN <<k, Len(cells)>> ELSE <<k>>) \o cells),
         Added(val, Item(key, k, cells)))
Opens(key, arr) ==
    Took(MapOpen(writer, key, arr),
         Append(Added(val, Item(key, IF arr THEN KArray ELSE KMap, <<>>)), <<>>))
\* What was open becomes the value of the last entry around it.
Nested(vs) ==
    LET out == Front(vs)  n == Len(Last(out)) IN [out EXCEPT ![Len(out)][n].x = Last(vs)]
Closes == Took(MapClose(writer), IF Len(val) > 1 THEN Nested(val) ELSE val)
Finishes == Took(MapFinish(writer), val)

Keys == {<<>>, <<NoName>>, <<<<7>>>>, <<[i \in 1 .. KeyMax + 1 |-> 7]>>}

\* Texts and schemas of peers.
CompilesText(text) ==
    /\ \E c \in {Compiled(reg, text)} :
          /\ reg' = c.r
          /\ val' = IF c.ok THEN val \cup {c.t} ELSE val
    /\ UNCHANGED <<setup, buf, writer>>
ParsesPeer(t) == reg' = Parse(reg, t).r /\ UNCHANGED <<setup, buf, val, writer>>
AsksStd(t) == reg' = Recognize(reg, t).r /\ UNCHANGED <<setup, buf, val, writer>>

Next ==
    \/ /\ setup.mode = "set"
       /\ \E p \in Spots(setup.t, val) :
          \E at \in {FieldByPath(setup.s, p.path)} : \E sp \in {Resolve(setup.s, buf, at)} :
             \/ \E x \in SetTo(p.t) : Set(p, at, sp, x)
             \/ \E es \in Elems(p.t) : SetArray(p, at, sp, es)
             \/ p.t.k = "struct" /\ ClearStruct(p, at, sp)
             \/ p.t.k \in Arrays /\ \E n \in 0 .. 2 : SetArrayCount(p, at, sp, n)
    \/ /\ setup.mode = "map"
       /\ \/ \E key \in Keys :
                \/ Puts(key, KScalar, <<1>>)
                \/ \E x \in {<<>>, <<7>>} : Puts(key, KString, x)
                \/ \E arr \in BOOLEAN : Opens(key, arr)
          \/ Closes
          \/ Finishes
    \/ /\ setup.mode = "text"
       /\ \/ \E text \in setup.texts : CompilesText(text)
          \/ \E t \in setup.peers : ParsesPeer(t)
          \/ \E t \in reg.owned : AsksStd(t)
    \/ setup.mode \notin {"set", "map", "text"} /\ UNCHANGED vars

Spec == Init /\ [][Next]_vars

----------------------------------------------------------------------------
(* Properties.                                                             *)

Msg == Cells(buf, 0, MsgLen(setup.s, buf))

\* A reader's part of the values.
Projected(r, t, v) ==
    IF r.k # "struct" THEN v
    ELSE [i \in DOMAIN r.fs |-> v[CHOOSE j \in DOMAIN t.fs : t.fs[j].name = r.fs[i].name]]
ReadAt(s, p, v) ==
    \A at \in {FieldByPath(s, p.path)} :
    /\ at # NoRow
    /\ p.t.k \in Arrays => GetCount(s, Msg, at) = Len(v)
    /\ p.t.k \notin Arrays /\ p.t.k # "struct" => GetAt(s, Msg, p.path) = v

\* A reader whose schema is a subset of the writer's finds the message valid and reads
\* at every path of its own schema the value the writer set, whatever the order of its
\* fields (subset, rebase, resolve).
ReadersAgree ==
    setup.mode = "set" =>
        \A r \in setup.readers : Subset(r.s, setup.s) =>
            LET s == Rebase(r.s, setup.s)  v == Projected(r.t, setup.t, val) IN
            /\ Validate(s, Msg)
            /\ \A p \in Spots(r.t, v) : ReadAt(s, p, Get(v, p.adr))

\* The buffer holds exactly the encoding of the values that were set: a set is taken
\* when its result fits and refused otherwise, a refused one changes nothing, and one
\* that resizes a value moves what follows it and corrects every length around it
\* (set_value_at, set_count, resize).
SetsAgree == setup.mode = "set" => MsgLen(setup.s, buf) >= 0 /\ Msg = Encode(setup.t, val)

\* The measure that accepts a schema and the rows it is compiled to agree on the rows,
\* on the fixed size and on the length of the default message, and that message is
\* valid and is the encoding of the default (rd_type, emit_type, schema_place,
\* message_default).
LayoutAgrees ==
    setup.mode = "layout" /\ Accepted(setup.t) =>
        \A s \in {Compile(setup.t)}, m \in {Measure(setup.t, 0)} :
        /\ Len(s.rows) = m.rows + (IF s.value THEN 1 ELSE 0)
        /\ s.size = m.size
        /\ s.msgMin = m.size + m.frames
        /\ MessageDefault(s) = Encode(setup.t, DefaultVal(setup.t))
        /\ Validate(s, MessageDefault(s))

\* What the writer's side holds is always the encoding of its values, from the default
\* message of any accepted schema through every set.
Canonical == LayoutAgrees /\ SetsAgree

\* Cells are valid exactly when they are the encoding of a value: nothing else passes,
\* however a peer made it, and nothing a writer makes is refused (validate).
ExactlyMessages ==
    setup.mode = "wire" =>
        LET all == {Encode(setup.t, v) : v \in setup.vals} IN
        \A k \in 0 .. setup.n : \A m \in [1 .. k -> 0 .. setup.n - 1] : Validate(setup.s, m) <=> m \in all

\* The entries a reader finds in a body, nested ones read through their own bodies.
RECURSIVE Tree(_, _)
Tree(b, keyed) ==
    [i \in 1 .. MapCount(b) |->
        LET e == EntryAt(b, i - 1, keyed) IN
        [key |-> e.key, k |-> e.k,
         x |-> IF e.k \in {KMap, KArray} THEN Tree(e.cells, e.k = KMap) ELSE e.cells]]
RECURSIVE MapCells(_, _)
MapCells(es, keyed) ==
    <<Len(es)>> \o FlattenSeq([i \in DOMAIN es |->
        LET e == es[i] IN
        (IF keyed THEN <<Len(e.key)>> \o e.key ELSE <<>>) \o <<e.k>> \o
        (CASE e.k = KString -> <<Len(e.x)>> \o e.x
           [] e.k \in {KMap, KArray} -> MapCells(e.x, e.k = KMap)
           [] OTHER -> e.x)])

\* A map that finishes is valid to every reader and reads back as the entries that were
\* put, as deep as the writer went; and whatever cells pass for a valid map are read
\* whole: every entry is found, and they are the cells of those entries and nothing more
\* (map_finish, map_valid, map_at, map_get).
MapReadsBack ==
    /\ setup.mode = "map" /\ ~writer.err /\ writer.open = <<>> =>
         /\ MapValid(writer.buf)
         /\ Tree(writer.buf, TRUE) = val[1]
         /\ \A i \in DOMAIN val[1] :
               (\A j \in 1 .. i - 1 : val[1][j].key # val[1][i].key)
               => MapGet(writer.buf, val[1][i].key) = MapAt(writer.buf, i - 1)
    /\ setup.mode = "mapwire" =>
         \A k \in 1 .. setup.n : \A m \in [1 .. k -> 0 .. KArray] :
            MapValid(m) => /\ \A i \in 0 .. MapCount(m) - 1 : MapAt(m, i).ok
                           /\ MapCells(Tree(m, TRUE), TRUE) = m

\* What a schema made from a text prints compiles back to the same schema, in a fresh
\* registry and in the one that made it, whatever was compiled, refused or received
\* between, and a name has one shape in all of them. A schema is a standard type
\* exactly when it is what the library's own text makes. And the names a print spells
\* are names of the wire, which stay as they are (registry_compile, schema_print,
\* std_recognize, name_normalize).
PrintInverse ==
    /\ setup.mode = "text" =>
         /\ \A t \in val : \A r \in {NoRegistry, reg} :
               \A c \in {Compiled(r, SchemaPrint(t))} : c.ok /\ c.t = t /\ c.r.owned = r.owned \cup {t}
         /\ \A t, o \in UNION {Range(DefScan(<<>>, x)) : x \in val} : t.nm = o.nm => t = o
         /\ \A t \in reg.owned :
               Recognize(reg, t).ok <=> \E i \in DOMAIN Std : Compiled(NoRegistry, <<Statement(NoName, TypeWord(Std[i].name))>>).t = t
    /\ setup.mode = "names" =>
         \A k \in 0 .. setup.n : \A w \in [1 .. k -> {"a", "A", "1", "_"}] :
            /\ FieldName(FieldName(w)) = FieldName(w)
            /\ TypeName(TypeName(w)) = TypeName(w)

=============================================================================
