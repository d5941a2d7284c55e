------------------------------ MODULE SchemaText -------------------------------
(***************************************************************************)
(* The schema language (serialize/text.c, stdtypes.c): a text is a run of  *)
(* definitions and at most one type at its end, compiled against the       *)
(* definitions a registry has kept, and a schema is printed back as text.  *)
(*                                                                         *)
(* A text is the tree its tokens make. Words are sequences of characters,  *)
(* for how a word becomes a name of the wire is part of the language.      *)
(***************************************************************************)
EXTENDS Schema

CONSTANTS
    Std,        \* the standard library, a sequence of [name, sp]
    EnumMax,    \* the largest value an enum's backing holds
    MaxDefs     \* the most definitions that are printed (48)

----------------------------------------------------------------------------
(* Names, name_normalize.                                                  *)

Lower == <<"a", "b">>
Upper == <<"A", "B">>
IsLow(c) == c \in Range(Lower)
IsUp(c) == c \in Range(Upper)
IsDigit(c) == c = "1"
Swap(c, from, to) == IF c \in Range(from) THEN to[CHOOSE i \in DOMAIN from : from[i] = c] ELSE c
ToUp(c) == Swap(c, Lower, Upper)
ToLow(c) == Swap(c, Upper, Lower)

At1(w, i) == IF i \in DOMAIN w THEN w[i] ELSE " "

\* A word starts at a capital after a lowercase letter or a digit, and at the last capital
\* of a run before a lowercase letter.
Boundary(w, i, prev) ==
    IsUp(w[i]) /\ (IsLow(prev) \/ IsDigit(prev) \/ (IsUp(prev) /\ IsLow(At1(w, i + 1))))
\* The words of w, joined by underscores or by their capitals.
Joined(w, asType) ==
    LET Step(a, i) ==
            LET c == w[i]  start == a.boundary \/ Boundary(w, i, a.prev) IN
            IF c = "_" THEN [a EXCEPT !.boundary = TRUE]
            ELSE [out |-> IF asType /\ start THEN Append(a.out, ToUp(c))
                          ELSE a.out \o (IF start /\ a.out # <<>> THEN <<"_">> ELSE <<>>) \o <<ToLow(c)>>,
                  boundary |-> FALSE, prev |-> c] IN
    FoldLeft(Step, [out |-> <<>>, boundary |-> TRUE, prev |-> " "], [i \in DOMAIN w |-> i]).out
\* A capital after a capital and before no lowercase letter joins its word.
ReadOnce(out) ==
    [i \in DOMAIN out |->
        IF i > 1 /\ IsUp(out[i]) /\ IsUp(out[i - 1]) /\ ~IsLow(At1(out, i + 1)) THEN ToLow(out[i]) ELSE out[i]]
Unnamed(out) == out = <<>> \/ IsDigit(out[1])
FieldName(w) == LET out == Joined(w, FALSE) IN IF Unnamed(out) THEN NoName ELSE out
TypeName(w) == LET out == Joined(w, TRUE) IN IF Unnamed(out) THEN NoName ELSE ReadOnce(out)

----------------------------------------------------------------------------
(* Spellings.                                                              *)

\* k: a built in word (scalar, str, vstr, map), a type's word, a struct or an enum body,
\* or an array suffix; n: a size, a cap, a count or 0 for []; e: what is suffixed; fs: the
\* fields with their spellings, or the options with <<>> or <<a value>>.
Spelling(k, w, n, e, fs) == [k |-> k, w |-> w, n |-> n, e |-> e, fs |-> fs]
Builtin(k, n)   == Spelling(k, NoName, n, <<>>, <<>>)
TypeWord(w)         == Spelling("word", w, 0, <<>>, <<>>)
Body(k, n, fs)  == Spelling(k, NoName, n, <<>>, fs)
Suffix(sp, n)   == Spelling("suffix", NoName, n, <<sp>>, <<>>)
Member(w, x)    == [w |-> w, x |-> x]

\* Statements: a definition or a type on its own, whose word is NoName.
Statement(w, sp) == [w |-> w, sp |-> sp]

----------------------------------------------------------------------------
(* Compiling. A registry holds the definitions and the schemas it made.    *)

NoRegistry == [defs |-> <<>>, owned |-> {}]
Got(r, t) == [ok |-> TRUE, r |-> r, t |-> t]
Refuse(r) == [ok |-> FALSE, r |-> r, t |-> MapType]

Defs(r, name) == {i \in DOMAIN r.defs : r.defs[i].name = name}
StdOf(name) == {i \in DOMAIN Std : Std[i].name = name}
Bare(t) == t.k \in {"struct", "enum"} /\ t.nm = NoName
DefKept(r, name, t) == [r EXCEPT !.defs = Append(@, [name |-> name, t |-> t])]

\* dsl_enum: the options in order, each one more than the last when it gives no value.
EnumOptions(fs) ==
    LET Step(a, o) ==
            LET name == TypeName(o.w)  v == IF o.x = <<>> THEN a.next ELSE o.x[1] IN
            IF ~a.ok \/ name = NoName \/ (\E i \in DOMAIN a.opts : a.opts[i].name = name) \/ v \notin 0 .. EnumMax
            THEN [a EXCEPT !.ok = FALSE]
            ELSE [a EXCEPT !.opts = Append(@, Field(name, Scalar(v))), !.next = v + 1] IN
    FoldLeft(Step, [ok |-> TRUE, opts |-> <<>>, next |-> 0], fs)

\* The definition of a name that was just compiled, kept.
Keeping(e, name) == IF e.ok THEN Got(DefKept(e.r, name, e.t), e.t) ELSE e
AsWord(r, name, e) == IF name = NoName \/ ~e.ok THEN Refuse(r) ELSE Got(e.r, Named(name, e.t))
AsArray(r, n, e) == IF ~e.ok \/ Bare(e.t) THEN Refuse(r) ELSE Got(e.r, IF n = 0 THEN VArr(e.t) ELSE Arr(n, e.t))
AsField(a, name, e) ==
    IF ~a.ok \/ name = NoName \/ ~e.ok \/ \E i \in DOMAIN a.t.fs : a.t.fs[i].name = name THEN Refuse(a.r)
    ELSE Got(e.r, [a.t EXCEPT !.fs = Append(@, Field(name, e.t))])

RECURSIVE TypeOf(_, _, _), FieldsOf(_, _), Ref(_, _)
\* dsl_ref: the registry's definition, or the standard library's, which is then kept.
Ref(r, name) ==
    IF Defs(r, name) # {} THEN Got(r, r.defs[Min(Defs(r, name))].t)
    ELSE IF StdOf(name) = {} THEN Refuse(r)
    ELSE Keeping(TypeOf(r, Std[Min(StdOf(name))].sp, TRUE), name)
\* dsl_field_type: a body is spelled only as a definition's.
TypeOf(r, sp, body) ==
    CASE sp.k \in {"scalar", "str", "vstr", "map"} -> Got(r, Type(sp.k, sp.n, <<>>, <<>>))
      [] sp.k = "word" ->
           LET name == TypeName(sp.w) IN AsWord(r, name, Ref(r, name))
      [] sp.k = "enum" ->
           LET o == EnumOptions(sp.fs) IN
           IF body /\ o.ok THEN Got(r, Type("enum", sp.n, <<>>, o.opts)) ELSE Refuse(r)
      [] sp.k = "struct" -> IF body THEN FieldsOf(r, sp.fs) ELSE Refuse(r)
      [] sp.k = "suffix" -> AsArray(r, sp.n, TypeOf(r, sp.e[1], body))
\* dsl_fields: two fields of one struct have two names.
FieldsOf(r, fs) ==
    FoldLeft(LAMBDA a, f : AsField(a, FieldName(f.w), TypeOf(a.r, f.x, FALSE)),
             Got(r, Type("struct", 0, <<>>, <<>>)), fs)

\* mutant: a name may be defined again
SameShapeAny(old, new) == TRUE
SameShape(old, new) == old = new
\* dsl_def: the body is compiled, passes the rules of a schema there, and is kept, or is
\* the type its name already has.
Defined(r, name, old, new) ==
    IF name = NoName \/ ~new.ok \/ new.t.nm # NoName THEN Refuse(r)
    ELSE IF old.ok THEN IF SameShape(old.t, new.t) THEN Got(new.r, Named(name, new.t)) ELSE Refuse(r)
    ELSE IF ~Accepted(Named(name, new.t)) THEN Refuse(r)
    ELSE Got(DefKept(new.r, name, new.t), Named(name, new.t))
DefinedAs(r, name, old, sp) == Defined(r, name, old, TypeOf(old.r, sp, TRUE))
Redefined(r, name, sp) == DefinedAs(r, name, Ref(r, name), sp)
Define(r, st) == Redefined(r, TypeName(st.w), st.sp)

\* registry_parse: one schema per shape.
Parse(r, t) == IF Accepted(t) THEN Got([r EXCEPT !.owned = @ \cup {t}], t) ELSE Refuse(r)

\* registry_compile: a type on its own ends the text, and a text that is refused leaves
\* nothing behind.
Compiled(r, text) ==
    LET Whole(all) == IF text # <<>> /\ all.ok /\ Accepted(all.t) THEN Parse(all.r, all.t) ELSE Refuse(r) IN
    Whole(FoldLeft(LAMBDA a, i : IF ~a.ok THEN a
                                 ELSE IF text[i].w # NoName THEN Define(a.r, text[i])
                                 ELSE IF i < Len(text) THEN Refuse(r)
                                 ELSE TypeOf(a.r, text[i].sp, FALSE),
                   Got(r, MapType), [i \in DOMAIN text |-> i]))

\* std_recognize: a schema of a standard name with the shape the registry has for it.
Recognize(r, t) ==
    IF StdOf(t.nm) = {} THEN [ok |-> FALSE, r |-> r]
    ELSE LET Known(e) == [ok |-> e.ok /\ Named(t.nm, e.t) = t, r |-> e.r] IN Known(Ref(r, t.nm))

----------------------------------------------------------------------------
(* Printing.                                                               *)

\* defscan_type: the named types of t, those they depend on first, each once.
RECURSIVE DefScan(_, _)
DefScan(ds, t) ==
    LET kids == IF t.k \in Arrays THEN t.e
                ELSE IF t.k = "struct" THEN [i \in DOMAIN t.fs |-> t.fs[i].t] ELSE <<>>
        deps == FoldLeft(DefScan, ds, kids) IN
    IF t.nm = NoName \/ (\E i \in DOMAIN deps : deps[i].nm = t.nm) \/ Len(deps) >= MaxDefs THEN deps
    ELSE Append(deps, t)

\* spell_type: a named type is its name.
RECURSIVE Spell(_)
Spell(t) ==
    IF t.nm # NoName THEN TypeWord(t.nm)
    ELSE CASE t.k \in Arrays    -> Suffix(Spell(t.e[1]), t.n)
           [] t.k = "enum"      -> Body("enum", t.n, [i \in DOMAIN t.fs |-> Member(t.fs[i].name, <<t.fs[i].t.n>>)])
           [] t.k = "struct"    -> Body("struct", 0, [i \in DOMAIN t.fs |-> Member(t.fs[i].name, Spell(t.fs[i].t))])
           [] OTHER             -> Builtin(t.k, t.n)
SchemaPrint(t) ==
    LET root == Named(NoName, t)
        ds == DefScan(<<>>, root) IN
    [i \in DOMAIN ds |-> Statement(ds[i].nm, Spell(Named(NoName, ds[i])))] \o <<Statement(t.nm, Spell(root))>>

=============================================================================
