------------------------------- MODULE MCCodec ---------------------------------
(* Setups of Codec for TLC.                                                *)
EXTENDS Codec

U  == Scalar(1)
U2 == Scalar(2)
In  == Struct(<<"In">>, <<Field(<<"x">>, U), Field(<<"t">>, VStr)>>)
Pt  == Struct(<<"Pt">>, <<Field(<<"u">>, U), Field(<<"w">>, U)>>)
Rec == Struct(<<"Rec">>, <<Field(<<"l">>, VArr(VStr)), Field(<<"y">>, U)>>)
Main(fs) == Struct(<<"Main">>, fs)

Flat   == Main(<<Field(<<"a">>, U), Field(<<"s">>, VStr), Field(<<"in">>, In), Field(<<"b">>, U2), Field(<<"z">>, MapType)>>)
FlatR  == Main(<<Field(<<"z">>, MapType), Field(<<"b">>, U2), Field(<<"in">>, In)>>)
FlatX  == Main(<<Field(<<"b">>, U)>>)
FlatY  == Main(<<Field(<<"in">>, Struct(<<"In">>, <<Field(<<"t">>, VStr), Field(<<"x">>, U)>>))>>)
Lists  == Main(<<Field(<<"l">>, VArr(VStr)), Field(<<"z">>, VStr)>>)
ListsR == Main(<<Field(<<"z">>, VStr), Field(<<"l">>, VArr(VStr))>>)
Elems3 == Main(<<Field(<<"e">>, VArr(In)), Field(<<"z">>, U)>>)
Elems2 == Main(<<Field(<<"z">>, U), Field(<<"e">>, Arr(2, In))>>)
Deep   == Main(<<Field(<<"e">>, VArr(Rec)), Field(<<"s">>, VStr)>>)
DeepR  == Main(<<Field(<<"s">>, VStr), Field(<<"e">>, VArr(Rec))>>)
Fixeds == Main(<<Field(<<"c">>, Arr(2, Pt)), Field(<<"d">>, VArr(Pt)), Field(<<"st">>, Str(1)), Field(<<"en">>, Enum(<<"E">>, 1, <<Field(<<"On">>, Scalar(0))>>))>>)
FixedsR == Main(<<Field(<<"st">>, Str(1)), Field(<<"d">>, VArr(Pt))>>)
NestedT == VArr(VArr(VStr))
NamedNested == Named(<<"Nest">>, VArr(VArr(VStr)))

C(t) == [t |-> t, s |-> Compile(t)]
\* The types of a writer and of the readers beside its own.
Written == {<<Flat, {FlatR, FlatX, FlatY}>>, <<Lists, {ListsR}>>, <<Elems3, {}>>, <<Elems2, {}>>,
            <<Deep, {DeepR}>>, <<Fixeds, {FixedsR}>>, <<NestedT, {NamedNested}>>, <<NamedNested, {NestedT}>>}
Sets == {[mode |-> "set", t |-> w[1], s |-> Compile(w[1]), readers |-> {C(r) : r \in w[2] \cup {w[1]}}] : w \in Written}

\* Every type up to three levels deep from a few.
Leaf == {U, Str(1), VStr, Struct(<<"Empty">>, <<>>)}
Up(ts) == {Arr(2, t) : t \in ts} \cup {VArr(t) : t \in ts}
          \cup {Struct(<<"S">>, <<Field(<<"a">>, t), Field(<<"b">>, r)>>) : t \in ts, r \in {VStr, U}}
Types2 == Leaf \cup Up(Leaf)
Types3 == Types2 \cup Up(Types2)
Layouts == {[mode |-> "layout", t |-> t] : t \in Types3 \cup Up(Types3)}

\* All cells of a length up to n, and all values whose encoding is no longer.
Words(n, k) == [1 .. k -> 0 .. n - 1]
UpTo(n, k) == UNION {Words(n, i) : i \in 0 .. k}
Lists2(S, k) == UNION {[1 .. i -> S] : i \in 0 .. k}
InCells(m, n) == Len(m) <= n /\ \A i \in DOMAIN m : m[i] < n
Wired == {<<VArr(VStr), 5, Lists2(UpTo(5, 1), 3) \cup Lists2(UpTo(5, 2), 1)>>,
          <<In, 5, Words(5, 1) \X UpTo(5, 3)>>,
          <<VArr(In), 6, Lists2(Words(6, 1) \X UpTo(6, 1), 1)>>}
Wires == {[mode |-> "wire", t |-> w[1], s |-> Compile(w[1]), n |-> w[2],
           vals |-> {v \in w[3] : InCells(Encode(w[1], v), w[2])}] : w \in Wired}

\* Texts: a standard type, definitions that use it, one name in several spellings, shapes
\* that clash, and texts that are refused after a definition.
S1 == Builtin("scalar", 1)
MCStd == <<[name |-> <<"A", "1">>, sp |-> Body("struct", 0, <<Member(<<"a">>, S1)>>)],
           [name |-> <<"A", "1", "B">>, sp |-> Suffix(TypeWord(<<"a", "1">>), 2)]>>
Def(w, sp) == Statement(w, sp)
On(sp) == Statement(NoName, sp)
BOne == Def(<<"b">>, Body("struct", 0, <<Member(<<"a", "B">>, TypeWord(<<"A", "1">>)), Member(<<"b">>, Builtin("vstr", 0))>>))
BTwo == Def(<<"_", "B">>, Body("struct", 0, <<Member(<<"a">>, S1)>>))
BEnum == Def(<<"a", "_", "b">>, Body("enum", 1, <<Member(<<"a">>, <<>>), Member(<<"b">>, <<1>>)>>))
BFull == Def(<<"a", "_", "b">>, Body("enum", 1, <<Member(<<"a">>, <<2>>), Member(<<"b">>, <<>>)>>))
Texts == {
    <<BOne>>, <<BTwo, On(Suffix(TypeWord(<<"B">>), 0))>>, <<BTwo, On(TypeWord(<<"1">>))>>, <<BEnum>>, <<BFull>>,
    <<BEnum, BOne, Def(<<"A">>, Body("struct", 0, <<Member(<<"b">>, Suffix(TypeWord(<<"B">>), 2)), Member(<<"a">>, TypeWord(<<"A", "b">>))>>))>>,
    <<Def(<<"A">>, Suffix(Suffix(TypeWord(<<"a", "_", "1", "B">>), 0), 2))>>,
    <<Def(<<"A">>, Body("struct", 0, <<Member(<<"a", "B">>, S1), Member(<<"a", "_", "b">>, S1)>>))>>,
    <<Def(<<"A">>, TypeWord(<<"B">>))>>, <<On(TypeWord(<<"b">>))>>, <<On(TypeWord(<<"A", "1", "B">>))>>,
    <<Def(<<"a", "1">>, Body("struct", 0, <<Member(<<"A">>, S1)>>))>>,
    <<Def(<<"A", "1">>, Body("struct", 0, <<Member(<<"b">>, S1)>>))>>,
    <<On(S1), On(S1)>>, <<>>}
Peers == {Struct(<<"A", "1">>, <<Field(<<"b">>, U)>>), Struct(<<"A", "1">>, <<Field(<<"a">>, U)>>),
          Struct(<<"B">>, <<Field(<<"c">>, VStr)>>), Arr(2, Struct(<<"B">>, <<>>))}

MCSetups ==
    Sets \cup Layouts \cup Wires
    \cup {[mode |-> "map"], [mode |-> "mapwire", n |-> 5],
          [mode |-> "text", texts |-> Texts, peers |-> Peers], [mode |-> "names", n |-> 6]}
=============================================================================
