------------------------------ MODULE Reflection ------------------------------
(***************************************************************************)
(* What a node shows of the mesh (the reflection tables of node/core.c).   *)
(*                                                                         *)
(* For every peer, and for itself, a node keeps a table of channels, one   *)
(* per topic slot: what the announce says of the slot and, once its        *)
(* details came, its name and schema. A table is folded into entities when *)
(* somebody walks it: a function's request and response channels are one   *)
(* entity, found through the hash of the name they share a stem with. The  *)
(* entities of all live tables make the mesh, one entry per kind and name, *)
(* whose schema is the provider's. A handle may take its schema from it.   *)
(*                                                                         *)
(* Pure operators on tables; Matching holds the state. Attributes travel   *)
(* with the schema and are left out.                                       *)
(***************************************************************************)
EXTENDS Integers, Sequences, FiniteSets, SequencesExt

CONSTANTS
    Slot,         \* 1..N: the topic slots of a node
    Hash,         \* [Name -> Hash]: the 32 bits a name announces
    Narrower,     \* pairs <<a, b>> of schemas: a reader of a reads a writer of b
    Stem,         \* [Name -> Stem]: the name without the suffix of its kind
    Channel       \* [Stem -> [kind -> Name]]: the partner channels a stem may have

Pubs(role) == role \in {"pub", "both"}
Subs(role) == role \in {"sub", "both"}
Heard(e)   == e.role \notin {"hole", "off"}

----------------------------------------------------------------------------
(* Tables of channels. *)

NoChannel == [hash |-> "none", kind |-> "topic", role |-> "hole", rel |-> FALSE,
              present |-> FALSE, name |-> "none", schema |-> "none"]

NoTable == [chan |-> [a \in Slot |-> NoChannel], ent |-> {}, dirty |-> FALSE]

\* mutant: the details of a slot outlive the channel they were about
StillOf(ch, e) == TRUE
\* An announced slot that holds the channel it held before keeps its details.
SameChannel(ch, e) == ch.hash = e.hash /\ ch.kind = e.kind

\* An announce is applied: what it does not list is absent.
ReflectInterest(r, b) ==
    [r EXCEPT !.dirty = TRUE,
              !.chan = [a \in Slot |->
                IF ~Heard(b[a]) THEN [@[a] EXCEPT !.present = FALSE]
                ELSE LET ch == IF SameChannel(@[a], b[a]) THEN @[a] ELSE NoChannel
                     IN [ch EXCEPT !.hash = b[a].hash, !.kind = b[a].kind, !.role = b[a].role,
                                   !.rel = b[a].rel, !.present = TRUE]]]

\* The details of a slot: a name once taken stays.
ReflectDetail(r, a, d) ==
    [r EXCEPT !.dirty = TRUE,
              !.chan[a] = [@ EXCEPT !.name = IF @ = "none" THEN d.name ELSE @,
                                    !.schema = d.schema]]

\* Our own table, from our live topics.
ReflectSelf(r, topics) ==
    [r EXCEPT !.dirty = TRUE,
              !.chan = [a \in Slot |->
                LET t == topics[a] IN
                IF t.st # "live" THEN [@[a] EXCEPT !.present = FALSE]
                ELSE [hash |-> Hash[t.name], kind |-> t.kind, role |-> t.role, rel |-> t.rel,
                      present |-> t.role # "off", name |-> t.name, schema |-> t.schema]]]

\* An observer asks for every advertised slot it has no name of.
GreedyWants(r, b) == {a \in Slot : Heard(b[a]) /\ r.chan[a].name = "none"}

----------------------------------------------------------------------------
(* The fold: channels to entities. *)

\* Per channel kind: its entity, whether it is the primary channel, whether
\* the provider is the side that publishes it.
KindRow == [topic |-> [entity |-> "topic",    primary |-> TRUE,  pubs |-> TRUE],
            req   |-> [entity |-> "function", primary |-> TRUE,  pubs |-> FALSE],
            rsp   |-> [entity |-> "function", primary |-> FALSE, pubs |-> TRUE],
            var   |-> [entity |-> "variable", primary |-> TRUE,  pubs |-> TRUE],
            set   |-> [entity |-> "variable", primary |-> FALSE, pubs |-> FALSE],
            treq  |-> [entity |-> "task",     primary |-> TRUE,  pubs |-> FALSE],
            tprg  |-> [entity |-> "task",     primary |-> FALSE, pubs |-> TRUE],
            trsp  |-> [entity |-> "task",     primary |-> FALSE, pubs |-> TRUE]]

\* The partner channels of a primary one; a variable does without its own.
Partners == [topic |-> {}, req |-> {"rsp"}, var |-> {"set"}, treq |-> {"trsp", "tprg"}]
Needed(kind) == IF kind = "var" THEN {} ELSE Partners[kind]

\* A channel that only watches calls belongs to no entity.
Listed(ch) == ch.present /\ ch.kind # "obs"

Least(S) == CHOOSE a \in S : \A b \in S : a <= b

\* The slot of the channel that goes with a stem: 32 bits name it, and its
\* own name must not contradict them.
Partner(r, stem, kind) ==
    LET name == Channel[stem][kind]
        fit  == {a \in Slot : /\ r.chan[a].present /\ r.chan[a].kind = kind
                              /\ r.chan[a].hash = Hash[name]
                              /\ r.chan[a].name \in {"none", name}}
    IN IF fit = {} THEN {} ELSE {Least(fit)}

StemOf(ch) == IF ch.name = "none" THEN "none" ELSE Stem[ch.name]

\* A primary channel opens an entity and claims its partners.
Opened(r, a) ==
    LET ch     == r.chan[a]
        of(k)  == IF StemOf(ch) = "none" THEN {} ELSE Partner(r, StemOf(ch), k)
    IN [kind |-> KindRow[ch.kind].entity, stem |-> StemOf(ch), primary |-> {a},
        parts |-> UNION {of(k) : k \in Partners[ch.kind]},
        incomplete |-> \E k \in Needed(ch.kind) : of(k) = {}]

\* A partner nobody claimed is half a pair.
Half(r, a) == [kind |-> KindRow[r.chan[a].kind].entity, stem |-> StemOf(r.chan[a]),
               primary |-> {}, parts |-> {a}, incomplete |-> TRUE]

Halves(r, heads) ==
    {a \in Slot : /\ Listed(r.chan[a]) /\ ~KindRow[r.chan[a].kind].primary
                  /\ \A e \in heads : a \notin e.parts}

Entities(r) ==
    LET heads == {Opened(r, a) : a \in {x \in Slot : /\ Listed(r.chan[x])
                                                     /\ KindRow[r.chan[x].kind].primary}}
    IN heads \cup {Half(r, a) : a \in Halves(r, heads)}

Folded(r) == IF r.dirty THEN [r EXCEPT !.ent = Entities(r), !.dirty = FALSE] ELSE r

----------------------------------------------------------------------------
(* The mesh. *)

\* The channel that says which side of an entity its node is on.
Side(r, e) == r.chan[Least(IF e.primary # {} THEN e.primary ELSE e.parts)]

Provides(ch) == IF KindRow[ch.kind].pubs THEN Pubs(ch.role) ELSE Subs(ch.role)
Consumes(ch) == IF KindRow[ch.kind].pubs THEN Subs(ch.role) ELSE Pubs(ch.role)

\* The channel of an entity for a purpose: the primary or a partner.
Which(r, e, kind) == {a \in e.primary \cup e.parts : r.chan[a].kind = kind}
SchemaOf(r, A)    == IF A = {} THEN "none" ELSE r.chan[Least(A)].schema

\* What a handle compares to learn that a definition changed.
Generation(who, r, e) ==
    <<who, SchemaOf(r, e.primary), SchemaOf(r, Which(r, e, "rsp") \cup Which(r, e, "trsp")),
      SchemaOf(r, Which(r, e, "tprg")), Which(r, e, "set") # {}, e.kind>>

\* The entities of one node as records; who is 0 for ourselves, 1 for the peer.
Gather(r, who) ==
    SetToSeq({[kind |-> e.kind, stem |-> e.stem, who |-> who, ent |-> e,
               provides |-> Provides(Side(r, e)), consumes |-> Consumes(Side(r, e)),
               schema |-> SchemaOf(r, e.primary), gen |-> Generation(who, r, e)] :
              e \in {x \in r.ent : x.stem # "none"}})

Wider(a, b) == a # b /\ <<a, b>> \in Narrower

\* The providers, ourselves first. The first takes the entry: a rival of
\* another schema wins if it was heard more recently, which is never so of a
\* peer against ourselves.
Providers(recs) == SelectSeq(recs, LAMBDA x : x.provides)

\* Without a provider the widest declaration of a consumer stands in.
Widest(recs) ==
    FoldLeft(LAMBDA p, x : IF x.schema # "none" /\ (p.schema = "none" \/ Wider(p.schema, x.schema))
                           THEN x ELSE p, Head(recs), recs)

\* Two declarations neither of which reads the other.
AtOdds(a, b) == /\ "none" \notin {a, b} /\ a # b
                /\ <<a, b>> \notin Narrower /\ <<b, a>> \notin Narrower

MeshEntity(recs) ==
    LET providers == Providers(recs)
        consumers == SelectSeq(recs, LAMBDA x : x.consumes)
        pick      == IF providers # <<>> THEN Head(providers) ELSE Widest(consumers)
    IN [kind |-> pick.kind, stem |-> pick.stem, from |-> pick.who, ent |-> pick.ent,
        providers |-> Len(providers), consumers |-> Len(consumers),
        conflict |-> \/ \E i \in DOMAIN providers : providers[i].schema # pick.schema
                     \/ \E i \in DOMAIN recs : AtOdds(recs[i].schema, pick.schema),
        gen |-> IF providers # <<>> THEN pick.gen ELSE <<-1>> \o Tail(pick.gen)]

\* The tables of this node (0) and of its live peers, folded.
MeshBuild(tables) ==
    LET recs == Gather(tables[0], 0) \o (IF 1 \in DOMAIN tables THEN Gather(tables[1], 1) ELSE <<>>)
        keys == {<<recs[i].kind, recs[i].stem>> : i \in DOMAIN recs}
    IN {MeshEntity(SelectSeq(recs, LAMBDA x : <<x.kind, x.stem>> = k)) : k \in keys}

\* The entry of a name, if the mesh has one.
MeshFind(mesh, kind, stem) == {m \in mesh : m.kind = kind /\ m.stem = stem}

\* Every live declaration of a name's channel.
Declared(tables, kind, stem, chan) ==
    UNION {{tables[w].chan[a] : a \in UNION {Which(tables[w], e, chan) :
              e \in {x \in tables[w].ent : x.kind = kind /\ x.stem = stem}}} : w \in DOMAIN tables}

\* The schema, reliability and generation a handle takes from the mesh: a
\* reader the provider's own declaration, a writer the widest that is live.
ReflectPick(mesh, tables, kind, stem, chan, writer) ==
    LET m    == CHOOSE x \in MeshFind(mesh, kind, stem) : TRUE
        own  == {tables[m.from].chan[a] : a \in Which(tables[m.from], m.ent, chan)}
        all  == Declared(tables, kind, stem, chan)
        given == ~writer /\ m.providers > 0 /\ own # {}
        decl  == IF given THEN own ELSE all
        typed == {x \in decl : x.schema # "none"}
    IN IF MeshFind(mesh, kind, stem) = {} THEN [found |-> FALSE, gen |-> <<>>]
       ELSE [found |-> decl # {}, gen |-> m.gen,
             schema |-> IF typed = {} THEN "none"
                        ELSE (CHOOSE x \in typed : \A y \in typed : ~Wider(x.schema, y.schema)).schema,
             rel |-> IF given THEN \E x \in own : x.rel
                     ELSE \E x \in all : Subs(x.role) /\ x.rel]
=============================================================================
