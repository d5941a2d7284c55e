------------------------------- MODULE MapBody ---------------------------------
(***************************************************************************)
(* The map (serialize/map.c): a body of cells that a writer fills entry by *)
(* entry and that readers walk without trusting it. A cell stands for a    *)
(* kind, a length, a count, a scalar or a character.                       *)
(***************************************************************************)
EXTENDS Schema

CONSTANTS
    MapCap,     \* the cells of the caller's buffer
    KeyMax,     \* the longest key (255)
    CountMax    \* the most entries of a map or an array (65535)

\* The kinds of a value.
KScalar == 3
KString == 4
KMap    == 5
KArray  == 6

CellAt(b, i) == b[i + 1]

----------------------------------------------------------------------------
(* Readers. A position is -1 once a read has failed.                       *)

\* rd_u8, rd_u16, rd_skip: past n cells.
Skip(b, pos, n) == IF pos < 0 \/ pos + n > Len(b) THEN -1 ELSE pos + n
\* Past a cell and as many cells as it says: a key or the text of a string.
Counted(b, pos) == IF Skip(b, pos, 1) < 0 THEN -1 ELSE Skip(b, pos + 1, CellAt(b, pos))

RECURSIVE MapValue(_, _, _), MapEntries(_, _, _, _, _)
\* map_value: past the value at pos.
MapValue(b, pos, depth) ==
    IF Skip(b, pos, 1) < 0 THEN -1
    ELSE LET k == CellAt(b, pos) IN
         CASE k = KScalar -> Skip(b, pos + 1, 1)
           [] k = KString -> Counted(b, pos + 1)
           [] k \in {KMap, KArray} ->
                IF depth + 1 >= MaxDepth \/ Skip(b, pos + 1, 1) < 0 THEN -1
                ELSE MapEntries(b, pos + 2, CellAt(b, pos + 1), k = KMap, depth + 1)
           [] OTHER -> -1
\* Past n entries, keyed or not.
MapEntries(b, pos, n, keyed, depth) ==
    IF n = 0 \/ pos < 0 THEN pos
    ELSE MapEntries(b, MapValue(b, IF keyed THEN Counted(b, pos) ELSE pos, depth), n - 1, keyed, depth)

MapCount(b) == IF b = <<>> THEN 0 ELSE CellAt(b, 0)
MapValid(b) == b = <<>> \/ MapEntries(b, 1, CellAt(b, 0), TRUE, 0) = Len(b)

\* map_at and map_array_at: entry i, its key and its value: the kind and its cells, the
\* body of a nested map or array.
NoEntry == [ok |-> FALSE, key |-> <<>>, k |-> 0, cells |-> <<>>]
EntryAt(b, i, keyed) ==
    LET at  == MapEntries(b, 1, i, keyed, 0)
        val == IF keyed THEN Counted(b, at) ELSE at
        end == MapValue(b, val, 0) IN
    IF i >= MapCount(b) \/ at < 0 \/ val < 0 \/ end < 0 THEN NoEntry
    ELSE [ok |-> TRUE, key |-> IF keyed THEN SubSeq(b, at + 2, val) ELSE <<>>, k |-> CellAt(b, val),
          cells |-> SubSeq(b, val + (IF CellAt(b, val) = KString THEN 3 ELSE 2), end)]
MapAt(b, i) == EntryAt(b, i, TRUE)
MapArrayAt(b, i) == EntryAt(b, i, FALSE)
\* map_get: the first entry of the key.
MapGet(b, key) ==
    LET hits == {i \in 0 .. MapCount(b) - 1 : MapAt(b, i).ok /\ MapAt(b, i).key = key} IN
    IF hits = {} \/ \E i \in 0 .. Min(hits) : ~MapAt(b, i).ok THEN NoEntry ELSE MapAt(b, Min(hits))

----------------------------------------------------------------------------
(* The writer: the cells so far and the open maps and arrays. An error     *)
(* stays.                                                                  *)

MapBegin == [buf |-> <<0>>, open |-> <<[pos |-> 0, count |-> 0, arr |-> FALSE]>>, err |-> FALSE]
Failed(w) == [w EXCEPT !.err = TRUE]
HasRoom(w, n) == Len(w.buf) + n <= MapCap

\* map_entry: key is <<>> for none. The count of the innermost open one goes up.
Entry(w, key) ==
    IF \/ w.err
       \/ w.open = <<>>
       \/ Last(w.open).arr # (key = <<>>)
       \/ key # <<>> /\ Len(key[1]) > KeyMax
       \/ Last(w.open).count = CountMax
       \/ key # <<>> /\ ~HasRoom(w, 1 + Len(key[1]))
    THEN Failed(w)
    ELSE [w EXCEPT !.buf = IF key = <<>> THEN @ ELSE @ \o <<Len(key[1])>> \o key[1],
                   !.open[Len(w.open)].count = @ + 1]

\* put_scalar and put_string: a kind and its cells.
MapPut(w, key, cells) ==
    LET e == Entry(w, key) IN
    IF e.err \/ ~HasRoom(e, Len(cells)) THEN Failed(e) ELSE [e EXCEPT !.buf = @ \o cells]

\* mutant: one more level than a reader takes
DepthLeftOver(w) == Len(w.open) <= MaxDepth
DepthLeft(w) == Len(w.open) < MaxDepth
MapOpen(w, key, arr) ==
    LET e == Entry(w, key) IN
    IF e.err \/ ~DepthLeft(e) \/ ~HasRoom(e, 2) THEN Failed(e)
    ELSE [e EXCEPT !.buf = @ \o <<IF arr THEN KArray ELSE KMap, 0>>,
                   !.open = Append(@, [pos |-> Len(e.buf) + 1, count |-> 0, arr |-> arr])]

\* The count of the innermost open one is written, and it is closed.
Counts(w) ==
    LET o == Last(w.open) IN [w EXCEPT !.buf[o.pos + 1] = o.count, !.open = Front(@)]
MapClose(w) == IF w.err \/ Len(w.open) <= 1 THEN Failed(w) ELSE Counts(w)
\* 0, and nothing changed, for a writer that failed or has one open.
MapFinish(w) == IF w.err \/ Len(w.open) # 1 THEN w ELSE Counts(w)

=============================================================================
