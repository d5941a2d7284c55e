------------------------------- MODULE Message ---------------------------------
(***************************************************************************)
(* Messages of a compiled schema (serialize/message.c): validate, get and  *)
(* set by path over one buffer. A record is its fixed part and then a      *)
(* frame, a length and a payload, for each framed row. An array of varying *)
(* elements holds a count, the ends of its bodies and the bodies. A set    *)
(* that changes a length moves the rest of the message and adds the change *)
(* to every length that carries the value.                                 *)
(***************************************************************************)
EXTENDS MapBody, TLC

CONSTANTS
    Cap        \* the cells of the buffer

NoSpan == [off |-> 0, len |-> 0, ok |-> FALSE, carry |-> <<>>]
Span(off, len, carry) == [off |-> off, len |-> len, ok |-> TRUE, carry |-> carry]
At(b, i) == CellAt(b, i)
Cells(b, off, len) == SubSeq(b, off + 1, off + len)
Zeros(n) == [i \in 1 .. n |-> 0]

RecSize(s, rec) == IF rec = 0 THEN s.size ELSE s.rows[rec].size
RecVars(s, rec) == IF rec = 0 THEN s.nvar ELSE s.rows[rec].nvar

----------------------------------------------------------------------------
(* Locating a value.                                                       *)

\* Frame ord of the frames from pos on, record_frame.
RECURSIVE FrameAt(_, _, _, _)
FrameAt(b, pos, end, ord) ==
    IF pos + 1 > end \/ pos + 1 + At(b, pos) > end THEN NoSpan
    ELSE IF ord = 0 THEN Span(pos + 1, At(b, pos), <<>>)
    ELSE FrameAt(b, pos + 1 + At(b, pos), end, ord - 1)
RecordFrame(s, b, rg, rec, ord) ==
    IF ord >= RecVars(s, rec) THEN NoSpan
    ELSE FrameAt(b, rg.off + RecSize(s, rec), rg.off + rg.len, ord)

\* A length word that carries a value, and the ends that do: from element from on.
Word(at) == [at |-> at, from |-> 0, count |-> 0]
Ends(at, from, count) == [at |-> at, from |-> from, count |-> count]

\* Row i in the region rg of record rec.
Locate(s, b, rg, rec, i) ==
    IF i = rec THEN IF rg.len < s.rows[i].size THEN NoSpan ELSE rg
    ELSE IF s.rows[i].framed
    THEN LET f == RecordFrame(s, b, rg, rec, s.rows[i].ord) IN
         IF f.ok THEN Span(f.off, f.len, Append(rg.carry, Word(f.off - 1))) ELSE NoSpan
    ELSE IF s.rows[i].off + s.rows[i].size > rg.len THEN NoSpan
    ELSE Span(rg.off + s.rows[i].off, s.rows[i].size, rg.carry)

\* array_live: the live count of the array at row a over its span, -1 for none.
Live(s, b, a, sp) ==
    LET e == s.rows[a + 1]  t == s.rows[a].type IN
    IF ~e.var THEN IF t.k = "arr" THEN t.n ELSE sp.len \div e.size
    ELSE IF sp.len < 1 THEN -1
    ELSE LET n == At(b, sp.off) IN
         IF (t.k = "arr" /\ n # t.n) \/ 1 + n > sp.len THEN -1 ELSE n

\* array_elem: element i of the array at row a.
Element(s, b, a, sp, i) ==
    LET n == Live(s, b, a, sp)  e == s.rows[a + 1] IN
    IF i >= n THEN NoSpan
    ELSE IF ~e.var THEN Span(sp.off + i * e.size, e.size, sp.carry)
    ELSE LET lo == IF i = 0 THEN 0 ELSE At(b, sp.off + i)
             hi == At(b, sp.off + 1 + i) IN
         IF lo > hi \/ hi > sp.len - 1 - n THEN NoSpan
         ELSE Span(sp.off + 1 + n + lo, hi - lo, Append(sp.carry, Ends(sp.off, i, n)))

\* resolve: where row i sits, with an index for each array around it.
RECURSIVE Region(_, _, _, _)
Region(s, b, a, elems) ==
    IF a = 0 THEN Span(0, Len(b), <<>>)
    ELSE LET out == s.rows[a].arr
             rg  == Region(s, b, out, Front(elems))
             sp  == IF rg.ok THEN Locate(s, b, rg, IF out = 0 THEN 0 ELSE out + 1, a) ELSE NoSpan IN
         IF sp.ok THEN Element(s, b, a, sp, Last(elems)) ELSE NoSpan
Resolve(s, b, at) ==
    LET a  == s.rows[at.row].arr
        rg == Region(s, b, a, at.elems) IN
    IF rg.ok THEN Locate(s, b, rg, IF a = 0 THEN 0 ELSE a + 1, at.row) ELSE NoSpan

----------------------------------------------------------------------------
(* Validating, valid_record and valid_payload.                             *)

RECURSIVE ValidRecord(_, _, _, _), ValidFrames(_, _, _, _, _, _), ValidPayload(_, _, _, _)
\* The row that holds frame ord of a record, if this schema declares it.
RecordRows(s, rec, ord) == {i \in FrameRows(s.rows, rec) : s.rows[i].ord = ord}
ValidPayload(s, b, i, sp) ==
    LET t == s.rows[i].type IN
    IF t.k \notin Arrays THEN TRUE
    ELSE LET e == s.rows[i + 1] IN
         IF ~e.var THEN sp.len % e.size = 0
         ELSE LET n == Live(s, b, i, sp)
                  End(k) == IF k = 0 THEN 0 ELSE At(b, sp.off + k)
                  bodies == sp.off + 1 + n IN
              /\ n >= 0
              /\ \A k \in 1 .. n :
                    /\ End(k) >= End(k - 1)
                    /\ bodies + End(k) <= sp.off + sp.len
              /\ bodies + End(n) = sp.off + sp.len
              /\ \A k \in 1 .. n :
                    LET body == Span(bodies + End(k - 1), End(k) - End(k - 1), <<>>) IN
                    IF e.type.k = "struct" THEN ValidRecord(s, b, i + 1, body)
                                           ELSE ValidPayload(s, b, i + 1, body)
ValidFrames(s, b, rec, pos, end, ord) ==
    IF ord = RecVars(s, rec) THEN pos = end
    ELSE /\ pos + 1 <= end
         /\ pos + 1 + At(b, pos) <= end
         /\ \A i \in RecordRows(s, rec, ord) : ValidPayload(s, b, i, Span(pos + 1, At(b, pos), <<>>))
         /\ ValidFrames(s, b, rec, pos + 1 + At(b, pos), end, ord + 1)
ValidRecord(s, b, rec, rg) ==
    /\ RecSize(s, rec) <= rg.len
    /\ ValidFrames(s, b, rec, rg.off + RecSize(s, rec), rg.off + rg.len, 0)
\* mutant: what follows the last frame is not looked at
ValidateLoose(s, m) == \E n \in 0 .. Len(m) : ValidRecord(s, m, 0, Span(0, n, <<>>))
Validate(s, m) == ValidRecord(s, m, 0, Span(0, Len(m), <<>>))

\* msg_len: the live length, a hop over the message's frames; -1 when malformed.
RECURSIVE Hop(_, _, _)
Hop(b, pos, n) ==
    IF n = 0 THEN pos
    ELSE IF pos + 1 > Len(b) \/ pos + 1 + At(b, pos) > Len(b) THEN -1
    ELSE Hop(b, pos + 1 + At(b, pos), n - 1)
MsgLen(s, b) == IF Len(b) < s.size THEN -1 ELSE Hop(b, s.size, s.nvar)

----------------------------------------------------------------------------
(* The default message.                                                    *)

RECURSIVE DefaultRecord(_, _), DefaultPayload(_, _)
DefaultPayload(s, i) ==
    LET t == s.rows[i].type IN
    IF t.k \notin Arrays \/ ~s.rows[i + 1].var THEN <<>>
    ELSE LET n == IF t.k = "arr" THEN t.n ELSE 0
             e == s.rows[i + 1]
             body == IF e.type.k = "struct" THEN DefaultRecord(s, i + 1) ELSE DefaultPayload(s, i + 1) IN
         <<n>> \o [k \in 1 .. n |-> k * e.dmin] \o FlattenSeq([k \in 1 .. n |-> body])
DefaultRecord(s, rec) ==
    Zeros(RecSize(s, rec)) \o
    FlattenSeq([k \in 1 .. RecVars(s, rec) |->
        LET i == CHOOSE j \in RecordRows(s, rec, k - 1) : TRUE IN
        <<s.rows[i].dmin>> \o DefaultPayload(s, i)])
MessageDefault(s) == DefaultRecord(s, 0)

----------------------------------------------------------------------------
(* Setting. A set gives the new buffer, the old one when it is refused.    *)

\* The buffer with the cells from off on replaced.
Over(b, off, cells) == [i \in DOMAIN b |-> IF i > off /\ i <= off + Len(cells) THEN cells[i - off] ELSE b[i]]

\* resize_fits: the message is whole, holds the value, and stays within the buffer.
Fits(s, b, sp, len) ==
    LET total == MsgLen(s, b) IN
    total > 0 /\ sp.off + sp.len <= total /\ total - sp.len + len <= Len(b)

\* Every length that carries the value, changed with it.
CarriedBy(c) == IF c.count = 0 THEN {c.at} ELSE {c.at + 1 + k : k \in c.from .. c.count - 1}
\* mutant: only the end of the element itself is changed
CarriedFirst(sp) == UNION {LET c == sp.carry[i] IN IF c.count = 0 THEN {c.at} ELSE {c.at + 1 + c.from} : i \in DOMAIN sp.carry}
Carried(sp) == UNION {CarriedBy(sp.carry[i]) : i \in DOMAIN sp.carry}

\* resize: the value becomes the cells src.
Resize(s, b, sp, src) ==
    IF ~Fits(s, b, sp, Len(src)) THEN b
    ELSE LET rest  == Cells(b, sp.off + sp.len, MsgLen(s, b) - sp.off - sp.len)
             moved == Over(b, sp.off + Len(src), rest)
             words == [i \in DOMAIN b |-> IF i - 1 \in Carried(sp) THEN moved[i] - sp.len + Len(src) ELSE moved[i]] IN
         Over(words, sp.off, src)

\* A body of the default for each element from n on to count.
NewBodies(s, e, k) ==
    FlattenSeq([i \in 1 .. k |-> IF s.rows[e].type.k = "struct" THEN DefaultRecord(s, e) ELSE DefaultPayload(s, e)])
NewEnds(kept, dmin, k) == [i \in 1 .. k |-> kept + i * dmin]

\* set_count: the array at row a becomes count elements: the kept ones and new defaults.
SetCount(s, b, a, sp, count) ==
    LET e == s.rows[a + 1]
        n == Live(s, b, a, sp)
        keep == IF count < n THEN count ELSE n
        kept == IF keep = 0 THEN 0 ELSE At(b, sp.off + keep)
        src  == <<count>> \o Cells(b, sp.off + 1, keep)
                \o NewEnds(kept, e.dmin, count - keep)
                \o Cells(b, sp.off + 1 + n, kept) \o NewBodies(s, a + 1, count - keep) IN
    IF s.rows[a].type.k # "varr" THEN b
    ELSE IF ~e.var
    THEN Resize(s, b, sp, Cells(b, sp.off, (IF count * e.size < sp.len THEN count * e.size ELSE sp.len))
                          \o Zeros(IF count * e.size > sp.len THEN count * e.size - sp.len ELSE 0))
    ELSE IF n < 0 \/ kept > sp.len - 1 - n THEN b
    ELSE Resize(s, b, sp, src)

\* set_value_at: by the kind of the row. A fixed value is written over its cells, and
\* the rest of its slot is cleared.
Slot(b, sp, cells) == IF Len(cells) > sp.len THEN b ELSE Over(b, sp.off, cells \o Zeros(sp.len - Len(cells)))
\* check_elems: whole fixed elements, no string of them past its cap.
Whole(s, a, cells) ==
    LET e == s.rows[a + 1] IN
    /\ ~e.var
    /\ Len(cells) % e.size = 0
    /\ e.type.k = "str" => \A i \in 0 .. Len(cells) \div e.size - 1 : At(cells, i * e.size) <= e.type.n
SetValue(s, b, at, sp, v) ==
    LET t == s.rows[at.row].type IN
    CASE t.k \in {"scalar", "enum"} -> Over(b, sp.off, v)
      [] t.k = "str"    -> IF Len(v) > t.n THEN b ELSE Slot(b, sp, <<Len(v)>> \o v)
      [] t.k = "struct" -> IF Len(v) > s.rows[at.row].size THEN b
                           ELSE Over(b, sp.off, v \o Zeros(s.rows[at.row].size - Len(v)))
      [] t.k = "arr"    -> IF s.rows[at.row].var \/ ~Whole(s, at.row, v) THEN b ELSE Slot(b, sp, v)
      [] t.k = "map"    -> IF MapValid(v) THEN Resize(s, b, sp, v) ELSE b
      [] t.k = "varr"   -> IF Whole(s, at.row, v) THEN Resize(s, b, sp, v) ELSE b
      [] OTHER          -> Resize(s, b, sp, v)

\* get_value_at: the live cells of a value.
LiveCells(m, sp, t) ==
    IF ~sp.ok THEN <<>>
    ELSE IF t.k = "str" THEN Cells(m, sp.off + 1, Min({At(m, sp.off), t.n}))
    ELSE Cells(m, sp.off, sp.len)
GetValue(s, m, at) == LiveCells(m, Resolve(s, m, at), s.rows[at.row].type)
\* get_uint .. get_enum: a value by its path, nothing when the reader has no such field.
GetRow(s, m, at) == IF at = NoRow THEN <<>> ELSE GetValue(s, m, at)
GetAt(s, m, path) == GetRow(s, m, FieldByPath(s, path))
CountOf(s, m, at, sp) == IF sp.ok THEN Max({Live(s, m, at.row, sp), 0}) ELSE 0
GetCount(s, m, at) == CountOf(s, m, at, Resolve(s, m, at))

=============================================================================
