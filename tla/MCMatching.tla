----------------------------- MODULE MCMatching ------------------------------
(* Instances of Matching for TLC: the programs the two nodes run. *)
EXTENDS Matching

CONSTANTS n1, n2

\* Two names share a hash.
MCHash == [none |-> "h0", A |-> "hA", B |-> "hB", C |-> "hA", q |-> "hq", p |-> "hp",
           v |-> "hv", s |-> "hs"]

MCStem    == [A |-> "A", B |-> "B", C |-> "C", q |-> "F", p |-> "F", v |-> "V", s |-> "V"]
MCChannel == [F |-> [rsp |-> "p"], V |-> [set |-> "s"]]

MCNarrower == {<<"narrow", "wide">>}

Topic(name, role, schema) == [name |-> name, kind |-> "topic", role |-> role,
                              rel |-> TRUE, schema |-> schema, adopted |-> <<>>]
New(name, role, schema)   == [op |-> "create", def |-> Topic(name, role, schema), reflect |-> FALSE]
Adopt(name, role)         == [op |-> "create", def |-> Topic(name, role, "none"), reflect |-> TRUE]
Again(name)               == [op |-> "refresh", name |-> name]
Other(name, schema)       == [op |-> "retype", name |-> name, schema |-> schema]
Retired(name)             == [op |-> "retire", name |-> name]
Flip(name, role)          == [op |-> "role", name |-> name, role |-> role]
Begin                     == [op |-> "hold"]
End                       == [op |-> "release"]

Part(name, kind, role) == [op |-> "create", reflect |-> FALSE,
                           def |-> [Topic(name, role, "none") EXCEPT !.kind = kind]]

\* A function's handle: the request channel q, the answer channel p.
Handle(req, rsp) == <<Begin, Part("q", "req", req), Part("p", "rsp", rsp),
                      [op |-> "link", names |-> {"q", "p"}], End>>
\* A variable's: the value v, the set channel s.
Owner == <<Begin, Part("v", "var", "pub"), Part("s", "set", "sub"), End>>

Run(p1, p2) == [prog |-> [n \in Node |-> IF n = n1 THEN p1 ELSE p2], page |-> 2,
                external |-> {}, lossy |-> FALSE, forgets |-> {}, late |-> {},
                drops |-> {}, observers |-> {}, walks |-> {}]

\* A slot passes from one name to another that the peer reads as well.
Rebind == Run(<<New("A", "pub", "none"), Retired("A"), New("B", "pub", "none")>>,
              <<New("A", "sub", "none"), New("B", "sub", "none")>>)
\* The same topic again; a topic of another schema in its place.
Relink == Run(<<New("A", "pub", "wide"), Retired("A"), New("A", "pub", "wide")>>,
              <<New("A", "sub", "narrow")>>)
Typed  == Run(<<New("A", "pub", "wide"), Other("A", "narrow")>>, <<New("A", "sub", "none")>>)
\* A name of the same hash is judged first, the topic it stands for later.
Collide == Run(<<New("A", "pub", "none")>>, <<New("C", "sub", "none"), New("A", "sub", "none")>>)
\* The reader retires and rebinds too, and parks for a while.
Flips == Run(<<New("A", "both", "none")>>,
             <<New("A", "sub", "none"), Flip("A", "off"), Flip("A", "both")>>)
\* A caller and its provider; answers come one entry at a time. In Call the
\* provider's handle is made before the caller appears.
Meet  == [Run(Handle("sub", "pub"), Handle("pub", "sub")) EXCEPT !.page = 1]
Call  == [Meet EXCEPT !.late = {n2}]
\* The reader's interest is paged in.
Paged == [Run(<<New("A", "pub", "none")>>,
              <<New("A", "sub", "none"), New("B", "sub", "none"), Retired("B")>>)
            EXCEPT !.page = 1, !.external = {n2}]
Lossy == [Run(<<New("A", "pub", "none"), Retired("A"), New("B", "pub", "none")>>,
              <<New("B", "sub", "none")>>) EXCEPT !.lossy = TRUE]
Gone  == [Run(<<New("A", "pub", "none")>>, <<New("A", "sub", "none")>>) EXCEPT !.forgets = {n1, n2}]
\* An observer watches slots change hands; it loses sight of the peer once.
Watch == [Run(<<New("A", "pub", "wide"), Retired("A"), New("B", "pub", "none")>>, <<>>)
            EXCEPT !.observers = {n2}, !.walks = {n2}, !.drops = {n2}]
Pairs == [Run(Handle("sub", "pub") \o <<Retired("p")>>, <<>>)
            EXCEPT !.observers = {n2}, !.walks = {n2}, !.page = 1]
Owned == [Run(Owner, <<>>) EXCEPT !.observers = {n2}, !.walks = {n2}, !.lossy = TRUE]
\* A reader takes its type from the mesh and follows it.
Follow == [Run(<<New("A", "pub", "wide"), Other("A", "narrow")>>,
               <<Adopt("A", "sub"), Again("A")>>) EXCEPT !.late = {n2}]
\* An observer that matches nothing, and a topic that takes another schema.
Observe == [Run(<<New("A", "pub", "wide"), Other("A", "narrow")>>, <<>>) EXCEPT !.observers = {n2}]

MCSetups == {Rebind, Relink, Typed, Collide, Flips, Call, Paged, Lossy, Gone, Watch, Pairs, Owned, Follow}
MCMeet    == {Meet}
MCTyped   == {Typed}
MCObserve == {Observe}
=============================================================================
