-------------------------- MODULE DiscoveryProofs ---------------------------
(***************************************************************************)
(* Proofs about the peer directories, for every set of nodes, interests,   *)
(* setups and bounds: what a datagram, a poll, a sweep or a change does to *)
(* one directory.                                                          *)
(*                                                                         *)
(* A directory is only ever changed in two ways. Most steps gain nothing:  *)
(* Fewer. A datagram may give its source a record and a slot: Near. Each   *)
(* operator on a directory is shown to do one or the other, both compose,  *)
(* and either keeps the bounds (Sound) and the live matches (MatchesKept), *)
(* which gives the first theorems.                                         *)
(*                                                                         *)
(* The last part asks more: whose blob may go unread. A record that tells  *)
(* of one (Judged) has b changed before a (Elder), and for that every      *)
(* datagram under way must not overstate its sender's age (Dated).         *)
(***************************************************************************)
EXTENDS Discovery, FiniteSetTheorems, TLAPS

-----------------------------------------------------------------------------
(* Types, as far as the proofs need them. *)

Flags == {"refetch", "filter", "full", "reask", "missed"}
Owed  == {"reply", "fetch", "match"}

\* a record; only a live peer is owed anything, and only a known one has a slot
AnyRecord == [state : {"none", "active", "dropped"}, slot : {"none", "loan", "match"},
              got : Int, ver : Int, adv : Int, want : {"no", "yes", "loan"},
              flags : SUBSET Flags, owed : SUBSET Owed, tries : Int]
Records == {r \in AnyRecord : /\ r.owed # {} => r.state = "active"
                              /\ r.slot # "none" => r.state # "none"}

Loose == [to : Node, full : BOOLEAN]

Directories == [rec : [Node -> Records], opened : BOOLEAN, distrust : BOOLEAN, misses : BOOLEAN,
                cap : Nat, loose : SUBSET Loose, left : SUBSET Node]

\* the slots in use fit, and so do the records
SlotsFit(d)   == Cardinality(Slotted(d)) <= d.cap
RecordsFit(d) == setup.recs \in Nat /\ Cardinality(Known(d)) <= setup.recs

Selves == [phase : {"down", "up", "gone"}, started : BOOLEAN, ver : Int, changed : Int,
           resend : BOOLEAN, fresh : BOOLEAN, repeats : Int, solicit : BOOLEAN]

\* what a datagram tells that the directory relies on
Readable(m) == m.src \in Node /\ m.dst \in Node /\ m.ver \in Int

\* The bounds of a directory, and that whoever left has no record: only
\* together with the types of the records is this inductive.
Sound(d) ==
    /\ SlotsFit(d) /\ RecordsFit(d)
    /\ \A b \in d.left : d.rec[b].state = "none"

Typed ==
    /\ dir \in [Node -> Directories]
    /\ self \in [Node -> Selves]
    /\ \A m \in net : Readable(m)
    /\ clock \in Int /\ setup \in Setups

DiscoveryInv == Typed /\ \A a \in Node : Sound(dir[a])

-----------------------------------------------------------------------------
(* What the operators on records change. *)

\* the record keeps its state and its slot
Kept(r, s) == s \in Records /\ s.state = r.state /\ s.slot = r.slot

LEMMA Fields ==
    ASSUME NEW r \in Records
    PROVE  /\ r \in AnyRecord
           /\ r.state \in {"none", "active", "dropped"} /\ r.slot \in {"none", "loan", "match"}
           /\ r.got \in Int /\ r.ver \in Int /\ r.adv \in Int /\ r.want \in {"no", "yes", "loan"}
           /\ r.flags \in SUBSET Flags /\ r.owed \in SUBSET Owed /\ r.tries \in Int
           /\ r.owed # {} => r.state = "active"
           /\ r.slot # "none" => r.state # "none"
  <1>1. r \in AnyRecord /\ (r.owed # {} => r.state = "active") /\ (r.slot # "none" => r.state # "none")
    BY DEF Records
  <1>2. /\ r.state \in {"none", "active", "dropped"} /\ r.slot \in {"none", "loan", "match"}
        /\ r.want \in {"no", "yes", "loan"}
    BY <1>1 DEF AnyRecord
  <1>3. r.got \in Int /\ r.ver \in Int /\ r.adv \in Int /\ r.tries \in Int
    BY <1>1 DEF AnyRecord
  <1>4. r.flags \in SUBSET Flags /\ r.owed \in SUBSET Owed
    BY <1>1 DEF AnyRecord
  <1> QED BY <1>1, <1>2, <1>3, <1>4

\* what is put in a record
LEMMA Values ==
    /\ 0 \in Int /\ 1 \in Int /\ {} \in SUBSET Owed
    /\ "none" \in {"none", "loan", "match"} /\ "loan" \in {"none", "loan", "match"}
    /\ "match" \in {"none", "loan", "match"}
    /\ "active" \in {"none", "active", "dropped"} /\ "dropped" \in {"none", "active", "dropped"}
    /\ "no" \in {"no", "yes", "loan"} /\ "yes" \in {"no", "yes", "loan"} /\ "loan" \in {"no", "yes", "loan"}
  OBVIOUS

LEMMA BlankIs == Blank \in Records /\ Blank.state = "none" /\ Blank.slot = "none"
  BY DEF Blank, Records, AnyRecord

LEMMA NewRecordIs == NewRecord \in Records /\ NewRecord.state = "active" /\ NewRecord.slot = "none"
  BY DEF NewRecord, Blank, Records, AnyRecord

\* flags, versions and wishes change neither state nor slot
LEMMA PlainKeeps ==
    ASSUME NEW r \in Records, NEW f \in SUBSET Flags, NEW v \in Int, NEW w \in {"no", "yes", "loan"}
    PROVE  /\ Kept(r, [r EXCEPT !.flags = f]) /\ [r EXCEPT !.flags = f].want = r.want
           /\ [r EXCEPT !.flags = f].flags = f
           /\ Kept(r, [r EXCEPT !.ver = v]) /\ Kept(r, [r EXCEPT !.adv = v])
           /\ Kept(r, [r EXCEPT !.got = v]) /\ Kept(r, [r EXCEPT !.tries = v])
           /\ Kept(r, [r EXCEPT !.want = w]) /\ Kept(r, [r EXCEPT !.ver = v, !.flags = f])
           /\ Kept(r, [r EXCEPT !.want = w, !.flags = f])
  <1> DEFINE Same(x) == x \in AnyRecord /\ x.state = r.state /\ x.slot = r.slot /\ x.owed = r.owed
  <1>1. r \in AnyRecord
    BY Fields
  <1>2. ASSUME NEW x, Same(x)
        PROVE  Kept(r, x)
    BY <1>2 DEF Kept, Records
  <1>3. Same([r EXCEPT !.flags = f]) /\ Same([r EXCEPT !.ver = v]) /\ Same([r EXCEPT !.adv = v])
    BY <1>1, Zenon DEF AnyRecord
  <1>4. Same([r EXCEPT !.got = v]) /\ Same([r EXCEPT !.tries = v]) /\ Same([r EXCEPT !.want = w])
    BY <1>1, Zenon DEF AnyRecord
  <1>5. Same([r EXCEPT !.ver = v, !.flags = f]) /\ Same([r EXCEPT !.want = w, !.flags = f])
    BY <1>1, Zenon DEF AnyRecord
  <1>6. [r EXCEPT !.flags = f].want = r.want /\ [r EXCEPT !.flags = f].flags = f
    BY <1>1, Zenon DEF AnyRecord
  <1> HIDE DEF Same
  <1> QED BY <1>2, <1>3, <1>4, <1>5, <1>6, Zenon

LEMMA SettleKeeps ==
    ASSUME NEW r \in Records, NEW bits
    PROVE  Kept(r, Settle(r, bits)) /\ Settle(r, bits).flags = r.flags
  <1> DEFINE x == Settle(r, bits)
             t == IF (r.owed \ bits) \cap AskBits = {} THEN 0 ELSE r.tries
  <1>1. r \in AnyRecord /\ r.owed \ bits \in SUBSET Owed /\ t \in Int
    BY Fields
  <1>2. x = [r EXCEPT !.owed = r.owed \ bits, !.tries = t]
    BY DEF Settle
  <1> HIDE DEF x, t
  <1>3. x \in AnyRecord /\ x.state = r.state /\ x.slot = r.slot /\ x.owed = r.owed \ bits
        /\ x.flags = r.flags
    BY <1>1, <1>2, Zenon DEF AnyRecord
  <1>4. x \in Records
    BY <1>3, Fields DEF Records
  <1> QED BY <1>3, <1>4 DEF Kept, x

LEMMA AskKeeps ==
    ASSUME NEW r \in Records, NEW bit \in Owed
    PROVE  Kept(r, Ask(r, bit)) /\ Ask(r, bit).flags = r.flags
  <1> DEFINE t == IF r.owed \cap AskBits # {} THEN r.tries ELSE Tries(r)
             x == [r EXCEPT !.owed = r.owed \cup {bit}, !.tries = t]
  <1>1. CASE r.state # "active"
    BY <1>1 DEF Ask, Kept
  <1>2. CASE r.state = "active"
    <2>1. t \in Int
      BY DiscoveryAssumption, Fields DEF Tries
    <2>2. r \in AnyRecord /\ r.owed \cup {bit} \in SUBSET Owed
      BY Fields
    <2>3. Ask(r, bit) = x
      BY <1>2 DEF Ask
    <2> HIDE DEF t
    <2>4. x \in AnyRecord /\ x.state = r.state /\ x.slot = r.slot /\ x.flags = r.flags
      BY <2>1, <2>2, Zenon DEF AnyRecord
    <2> HIDE DEF x
    <2>5. x \in Records
      BY <2>4, <1>2, Fields DEF Records
    <2> QED BY <2>3, <2>4, <2>5 DEF Kept
  <1> QED BY <1>1, <1>2

LEMMA FetchCheckKeeps ==
    ASSUME NEW r \in Records
    PROVE  Kept(r, FetchCheck(r)) /\ FetchCheck(r).flags = r.flags
  <1>1. Kept(r, Settle(r, {"fetch"})) /\ Settle(r, {"fetch"}).flags = r.flags
    BY SettleKeeps
  <1>2. Kept(r, Ask(r, "fetch")) /\ Ask(r, "fetch").flags = r.flags
    BY AskKeeps DEF Owed
  <1>3. Kept(r, r)
    BY DEF Kept
  <1> QED BY <1>1, <1>2, <1>3 DEF FetchCheck

LEMMA OfferKeeps ==
    ASSUME NEW r \in Records
    PROVE  Kept(r, Offer(r))
  <1> DEFINE x == [r EXCEPT !.flags = r.flags \cup {"refetch"}]
  <1>1. r.flags \cup {"refetch"} \in SUBSET Flags
    BY Fields DEF Flags
  <1>2. Kept(r, x)
    BY <1>1, PlainKeeps, Values, Zenon
  <1>3. Offer(r) = FetchCheck(x)
    BY DEF Offer
  <1> HIDE DEF x
  <1>4. Kept(x, FetchCheck(x))
    BY <1>2, FetchCheckKeeps DEF Kept
  <1> QED BY <1>2, <1>3, <1>4 DEF Kept

LEMMA GiveBackFrees ==
    ASSUME NEW r \in Records
    PROVE  /\ GiveBack(r) \in Records /\ GiveBack(r).state = r.state
           /\ GiveBack(r).slot = "none" /\ GiveBack(r).flags = r.flags
  <1> DEFINE x == Settle(r, {"match"})
             y == [x EXCEPT !.slot = "none", !.got = 0]
  <1>1. Kept(r, x) /\ x.flags = r.flags
    BY SettleKeeps
  <1>2. GiveBack(r) = IF r.slot = "none" THEN r ELSE y
    BY DEF GiveBack
  <1> HIDE DEF x
  <1>3. x \in Records /\ x.state = r.state
    BY <1>1 DEF Kept
  <1>4. x \in AnyRecord
    BY <1>3 DEF Records
  <1>5. y \in AnyRecord /\ y.state = x.state /\ y.slot = "none" /\ y.owed = x.owed /\ y.flags = x.flags
    BY <1>4, Values, Zenon DEF AnyRecord
  <1> HIDE DEF y
  <1>6. y \in Records
    BY <1>3, <1>5, Fields DEF Records
  <1> QED BY <1>1, <1>2, <1>3, <1>5, <1>6
-----------------------------------------------------------------------------
(* What the operators on a directory change. *)

\* nothing but a record, or a mark, changes: the slots, the uuids that left and
\* the other records stay
Alike(d, e) == /\ e \in Directories /\ e.cap = d.cap /\ e.left = d.left

LEMMA Parts ==
    ASSUME NEW d \in Directories
    PROVE  /\ d.rec \in [Node -> Records] /\ d.opened \in BOOLEAN /\ d.distrust \in BOOLEAN
           /\ d.misses \in BOOLEAN /\ d.cap \in Nat /\ d.left \in SUBSET Node /\ d.loose \in SUBSET Loose
           /\ \A x \in Node : d.rec[x] \in Records
  <1>1. d.rec \in [Node -> Records] /\ d.left \in SUBSET Node /\ d.loose \in SUBSET Loose
    BY DEF Directories
  <1>2. d.opened \in BOOLEAN /\ d.distrust \in BOOLEAN /\ d.misses \in BOOLEAN
    BY DEF Directories
  <1>3. d.cap \in Nat
    BY DEF Directories
  <1> QED BY <1>1, <1>2, <1>3

LEMMA MarksKeep ==
    ASSUME NEW d \in Directories, NEW p \in BOOLEAN, NEW q \in SUBSET Loose
    PROVE  /\ Alike(d, [d EXCEPT !.opened = p]) /\ [d EXCEPT !.opened = p].rec = d.rec
           /\ Alike(d, [d EXCEPT !.distrust = p]) /\ [d EXCEPT !.distrust = p].rec = d.rec
           /\ Alike(d, [d EXCEPT !.misses = p]) /\ [d EXCEPT !.misses = p].rec = d.rec
           /\ Alike(d, [d EXCEPT !.loose = q]) /\ [d EXCEPT !.loose = q].rec = d.rec
           /\ Alike(d, [d EXCEPT !.distrust = p, !.loose = q])
           /\ [d EXCEPT !.distrust = p, !.loose = q].rec = d.rec
  <1> DEFINE Same(x) == x \in Directories /\ x.cap = d.cap /\ x.left = d.left /\ x.rec = d.rec
  <1>1. Same([d EXCEPT !.opened = p])
    BY Zenon DEF Directories
  <1>2. Same([d EXCEPT !.distrust = p])
    BY Zenon DEF Directories
  <1>3. Same([d EXCEPT !.misses = p])
    BY Zenon DEF Directories
  <1>4. Same([d EXCEPT !.loose = q])
    BY Zenon DEF Directories
  <1>5. Same([d EXCEPT !.distrust = p, !.loose = q])
    BY Zenon DEF Directories
  <1>6. ASSUME NEW x, Same(x)
        PROVE  Alike(d, x) /\ x.rec = d.rec
    BY <1>6 DEF Alike
  <1> HIDE DEF Same
  <1> QED BY <1>1, <1>2, <1>3, <1>4, <1>5, <1>6, Zenon

\* the records of a directory replaced
LEMMA RecKeeps ==
    ASSUME NEW d \in Directories, NEW f \in [Node -> Records], NEW p \in BOOLEAN
    PROVE  /\ Alike(d, [d EXCEPT !.rec = f]) /\ [d EXCEPT !.rec = f].rec = f
           /\ [d EXCEPT !.rec = f].opened = d.opened
           /\ Alike(d, [d EXCEPT !.rec = f, !.opened = p]) /\ [d EXCEPT !.rec = f, !.opened = p].rec = f
           /\ Alike(d, [d EXCEPT !.opened = p, !.rec = f]) /\ [d EXCEPT !.opened = p, !.rec = f].rec = f
  <1> DEFINE Same(x) == x \in Directories /\ x.cap = d.cap /\ x.left = d.left /\ x.rec = f
  <1>1. Same([d EXCEPT !.rec = f]) /\ [d EXCEPT !.rec = f].opened = d.opened
    BY Zenon DEF Directories
  <1>2. Same([d EXCEPT !.rec = f, !.opened = p])
    BY Zenon DEF Directories
  <1>3. Same([d EXCEPT !.opened = p, !.rec = f])
    BY Zenon DEF Directories
  <1>4. ASSUME NEW x, Same(x)
        PROVE  Alike(d, x) /\ x.rec = f
    BY <1>4 DEF Alike
  <1> HIDE DEF Same
  <1> QED BY <1>1, <1>2, <1>3, <1>4, Zenon

LEMMA WithIs ==
    ASSUME NEW d \in Directories, NEW b \in Node, NEW r \in Records
    PROVE  /\ Alike(d, With(d, b, r)) /\ With(d, b, r).opened = d.opened
           /\ With(d, b, r).rec[b] = r
           /\ \A x \in Node \ {b} : With(d, b, r).rec[x] = d.rec[x]
  <1> DEFINE f == [d.rec EXCEPT ![b] = r]
  <1>1. d.rec \in [Node -> Records]
    BY Parts
  <1>2. f \in [Node -> Records] /\ f[b] = r /\ \A x \in Node \ {b} : f[x] = d.rec[x]
    BY <1>1
  <1>3. With(d, b, r) = [d EXCEPT !.rec = f]
    BY DEF With
  <1> HIDE DEF f
  <1>4. Alike(d, [d EXCEPT !.rec = f]) /\ [d EXCEPT !.rec = f].rec = f
        /\ [d EXCEPT !.rec = f].opened = d.opened
    BY <1>2, RecKeeps
  <1>5. Alike(d, With(d, b, r)) /\ With(d, b, r).rec = f /\ With(d, b, r).opened = d.opened
    BY <1>3, <1>4, Zenon
  <1> QED BY <1>2, <1>5
-----------------------------------------------------------------------------
(* How a directory may change. *)

\* nothing is gained
Loses(r, s) == /\ s.slot # "none" => r.slot # "none"
               /\ s.state # "none" => r.state # "none"
\* nothing is gained, and a live match stays one
Stays(r, s) == /\ Loses(r, s)
               /\ r.state = "active" /\ r.slot = "match" => s.state = "active" /\ s.slot = "match"

\* no record and no slot is gained
Fewer(d, e) == /\ e \in Directories /\ e.left = d.left /\ e.cap >= d.cap
               /\ \A x \in Node : Loses(d.rec[x], e.rec[x])

\* every record keeps its state and its slot
Steady(d, e) == /\ Alike(d, e)
                /\ \A x \in Node : e.rec[x].state = d.rec[x].state /\ e.rec[x].slot = d.rec[x].slot

\* only b may gain a slot, nobody else loses a live match, and all still fits
Near(d, e, b) ==
    /\ Alike(d, e)
    /\ \A x \in Node \ {b} : Stays(d.rec[x], e.rec[x])
    /\ SlotsFit(d) => SlotsFit(e)
    /\ RecordsFit(d) => RecordsFit(e)

LEMMA NodesFinite ==
    ASSUME NEW S, S \subseteq Node
    PROVE  IsFiniteSet(S) /\ Cardinality(S) \in Nat
  BY DiscoveryAssumption, FS_Subset, FS_CardinalityType

LEMMA FewerFits ==
    ASSUME NEW d \in Directories, NEW e, Fewer(d, e)
    PROVE  (SlotsFit(d) => SlotsFit(e)) /\ (RecordsFit(d) => RecordsFit(e))
  <1>1. Slotted(e) \subseteq Slotted(d) /\ Slotted(d) \subseteq Node
    BY DEF Slotted, Fewer, Loses
  <1>2. Known(e) \subseteq Known(d) /\ Known(d) \subseteq Node
    BY DEF Known, Fewer, Loses
  <1>3. Cardinality(Slotted(e)) <= Cardinality(Slotted(d))
    BY <1>1, NodesFinite, FS_Subset
  <1>4. Cardinality(Known(e)) <= Cardinality(Known(d))
    BY <1>2, NodesFinite, FS_Subset
  <1>5. Cardinality(Slotted(e)) \in Nat /\ Cardinality(Slotted(d)) \in Nat
        /\ Cardinality(Known(e)) \in Nat /\ Cardinality(Known(d)) \in Nat
    BY <1>1, <1>2, NodesFinite
  <1>6. d.cap \in Nat /\ e.cap \in Nat /\ e.cap >= d.cap
    BY Parts DEF Fewer
  <1>7. SlotsFit(d) => SlotsFit(e)
    BY <1>3, <1>5, <1>6 DEF SlotsFit
  <1>8. RecordsFit(d) => RecordsFit(e)
    BY <1>4, <1>5 DEF RecordsFit
  <1> QED BY <1>7, <1>8

LEMMA AlikeFewer ==
    ASSUME NEW d \in Directories, NEW e, Alike(d, e), \A x \in Node : Loses(d.rec[x], e.rec[x])
    PROVE  Fewer(d, e)
  <1>1. d.cap \in Nat
    BY Parts
  <1> QED BY <1>1 DEF Alike, Fewer

LEMMA FewerTrans ==
    ASSUME NEW d \in Directories, NEW e, NEW f, Fewer(d, e), Fewer(e, f)
    PROVE  Fewer(d, f)
  <1>1. d.cap \in Nat /\ e.cap \in Nat /\ f.cap \in Nat /\ f.cap >= d.cap
    BY Parts DEF Fewer
  <1>2. \A x \in Node : Loses(d.rec[x], f.rec[x])
    BY DEF Fewer, Loses
  <1> QED BY <1>1, <1>2 DEF Fewer

LEMMA NearBy ==
    ASSUME NEW d \in Directories, NEW e, NEW b \in Node, Alike(d, e),
           \A x \in Node \ {b} : Stays(d.rec[x], e.rec[x]), Loses(d.rec[b], e.rec[b])
    PROVE  Near(d, e, b)
  <1>1. \A x \in Node : Loses(d.rec[x], e.rec[x])
    BY DEF Stays
  <1>2. Fewer(d, e)
    BY <1>1, AlikeFewer
  <1> QED BY <1>2, FewerFits DEF Near

LEMMA SteadyIs ==
    ASSUME NEW d \in Directories, NEW e, Steady(d, e), NEW b \in Node
    PROVE  Near(d, e, b) /\ Fewer(d, e)
  <1>1. Alike(d, e) /\ \A x \in Node : Loses(d.rec[x], e.rec[x]) /\ Stays(d.rec[x], e.rec[x])
    BY DEF Steady, Stays, Loses
  <1> QED BY <1>1, NearBy, AlikeFewer

LEMMA NearTrans ==
    ASSUME NEW d \in Directories, NEW e, NEW f, NEW b \in Node, Near(d, e, b), Near(e, f, b)
    PROVE  Near(d, f, b)
  <1>1. Alike(d, f)
    BY DEF Near, Alike
  <1>2. \A x \in Node \ {b} : Stays(d.rec[x], f.rec[x])
    BY DEF Near, Stays, Loses
  <1> QED BY <1>1, <1>2 DEF Near

LEMMA NearItself ==
    ASSUME NEW d \in Directories, NEW b \in Node
    PROVE  Near(d, d, b)
  BY DEF Near, Alike, Stays, Loses

\* a record put with the state and the slot it had
LEMMA WithSteady ==
    ASSUME NEW d \in Directories, NEW b \in Node, NEW r, Kept(d.rec[b], r)
    PROVE  Steady(d, With(d, b, r)) /\ Near(d, With(d, b, r), b)
  <1>1. r \in Records /\ r.state = d.rec[b].state /\ r.slot = d.rec[b].slot
    BY DEF Kept
  <1>2. /\ Alike(d, With(d, b, r)) /\ With(d, b, r).rec[b] = r
        /\ \A x \in Node \ {b} : With(d, b, r).rec[x] = d.rec[x]
    BY <1>1, WithIs
  <1>3. Steady(d, With(d, b, r))
    BY <1>1, <1>2 DEF Steady
  <1> QED BY <1>3, SteadyIs

\* Offering open slots promises them and binds none.
LEMMA OfferSlotsSteady ==
    ASSUME NEW d \in Directories, NEW e \in OfferSlots(d)
    PROVE  Steady(d, e)
  <1>1. CASE ~d.opened
    BY <1>1 DEF OfferSlots, Steady, Alike
  <1>2. CASE d.opened
    <2>1. PICK S : e = [d EXCEPT !.opened = FALSE,
                                 !.rec = [x \in Node |-> IF x \in S THEN Offer(d.rec[x]) ELSE d.rec[x]]]
      BY <1>2 DEF OfferSlots
    <2> DEFINE f == [x \in Node |-> IF x \in S THEN Offer(d.rec[x]) ELSE d.rec[x]]
    <2>2. \A x \in Node : d.rec[x] \in Records /\ Kept(d.rec[x], Offer(d.rec[x])) /\ Kept(d.rec[x], d.rec[x])
      BY Parts, OfferKeeps DEF Kept
    <2>3. f \in [Node -> Records] /\ \A x \in Node : f[x].state = d.rec[x].state /\ f[x].slot = d.rec[x].slot
      BY <2>2 DEF Kept
    <2>4. e = [d EXCEPT !.opened = FALSE, !.rec = f]
      BY <2>1
    <2> HIDE DEF f
    <2>5. Alike(d, [d EXCEPT !.opened = FALSE, !.rec = f]) /\ [d EXCEPT !.opened = FALSE, !.rec = f].rec = f
      BY <2>3, RecKeeps
    <2>6. Alike(d, e) /\ e.rec = f
      BY <2>4, <2>5, Zenon
    <2> QED BY <2>3, <2>6 DEF Steady
  <1> QED BY <1>1, <1>2
-----------------------------------------------------------------------------
(* Forgetting a peer, and seating one. *)

LEMMA GoneIs ==
    ASSUME NEW d \in Directories, NEW b \in Node
    PROVE  /\ Alike(d, Gone(d, b)) /\ Gone(d, b).rec[b] = Blank
           /\ \A x \in Node \ {b} : Gone(d, b).rec[x] = d.rec[x]
  <1> DEFINE w == With(d, b, Blank)
             p == w.opened \/ d.rec[b].slot # "none"
  <1>1. /\ Alike(d, w) /\ w.rec[b] = Blank
        /\ \A x \in Node \ {b} : w.rec[x] = d.rec[x]
    BY WithIs, BlankIs
  <1>2. Gone(d, b) = [w EXCEPT !.opened = p] /\ p \in BOOLEAN
    BY DEF Gone
  <1> HIDE DEF w, p
  <1>3. w \in Directories /\ {} \in SUBSET Loose
    BY <1>1 DEF Alike
  <1>4. Alike(w, [w EXCEPT !.opened = p]) /\ [w EXCEPT !.opened = p].rec = w.rec
    BY <1>2, <1>3, MarksKeep
  <1>5. Alike(w, Gone(d, b)) /\ Gone(d, b).rec = w.rec
    BY <1>2, <1>4, Zenon
  <1> QED BY <1>1, <1>5 DEF Alike

\* marks set on a directory
LEMMA MarkIs ==
    ASSUME NEW d \in Directories, NEW e, Alike(d, e), NEW p \in BOOLEAN
    PROVE  /\ Alike(d, [e EXCEPT !.opened = p]) /\ [e EXCEPT !.opened = p].rec = e.rec
           /\ Alike(d, [e EXCEPT !.distrust = p]) /\ [e EXCEPT !.distrust = p].rec = e.rec
           /\ Alike(d, [e EXCEPT !.misses = p]) /\ [e EXCEPT !.misses = p].rec = e.rec
  <1>1. e \in Directories /\ {} \in SUBSET Loose
    BY DEF Alike
  <1>2. /\ Alike(e, [e EXCEPT !.opened = p]) /\ [e EXCEPT !.opened = p].rec = e.rec
        /\ Alike(e, [e EXCEPT !.distrust = p]) /\ [e EXCEPT !.distrust = p].rec = e.rec
        /\ Alike(e, [e EXCEPT !.misses = p]) /\ [e EXCEPT !.misses = p].rec = e.rec
    BY <1>1, MarksKeep
  <1>3. \A f : Alike(e, f) => Alike(d, f)
    BY DEF Alike
  <1> QED BY <1>2, <1>3, Zenon

LEMMA RefetchDoneSteady ==
    ASSUME NEW d \in Directories, NEW b \in Node
    PROVE  Steady(d, RefetchDone(d, b))
  <1> DEFINE r == d.rec[b]
             s == [r EXCEPT !.flags = r.flags \ {"refetch"}]
             w == With(d, b, s)
             p == w.opened \/ (r.want # "no" /\ r.slot = "none")
  <1>1. CASE "refetch" \notin r.flags
    BY <1>1 DEF RefetchDone, Steady, Alike
  <1>2. CASE "refetch" \in r.flags
    <2>1. r \in Records
      BY Parts
    <2>2. r.flags \ {"refetch"} \in SUBSET Flags
      BY <2>1, Fields
    <2>3. Kept(r, s)
      BY <2>1, <2>2, PlainKeeps, Values, Zenon
    <2>4. RefetchDone(d, b) = [w EXCEPT !.opened = p] /\ p \in BOOLEAN
      BY <1>2 DEF RefetchDone
    <2> HIDE DEF s
    <2>5. Steady(d, w)
      BY <2>3, WithSteady
    <2> HIDE DEF p, w
    <2>6. Alike(d, w)
      BY <2>5 DEF Steady
    <2>7. Alike(d, [w EXCEPT !.opened = p]) /\ [w EXCEPT !.opened = p].rec = w.rec
      BY <2>4, <2>6, MarkIs
    <2>8. Alike(d, RefetchDone(d, b)) /\ RefetchDone(d, b).rec = w.rec
      BY <2>4, <2>7, Zenon
    <2> QED BY <2>5, <2>8 DEF Steady
  <1> QED BY <1>1, <1>2

LEMMA BindIs ==
    ASSUME NEW d \in Directories, NEW b \in Node, NEW verdict, d.rec[b].state = "active"
    PROVE  /\ Alike(d, Bind(d, b, verdict))
           /\ Bind(d, b, verdict).rec[b].state = "active"
           /\ Bind(d, b, verdict).rec[b].slot # "none"
           /\ \A x \in Node \ {b} : Bind(d, b, verdict).rec[x] = d.rec[x]
  <1> DEFINE r == d.rec[b]
             k == IF verdict = "loan" THEN "loan" ELSE "match"
             f == r.flags \ {"refetch"}
             s == [r EXCEPT !.slot = k, !.ver = 0, !.want = "no", !.flags = f]
  <1>1. r \in Records /\ r \in AnyRecord
    BY Parts, Fields
  <1>2. f \in SUBSET Flags /\ k \in {"none", "loan", "match"} /\ k # "none"
    BY <1>1, Fields
  <1>3. Bind(d, b, verdict) = With(d, b, s)
    BY DEF Bind
  <1> HIDE DEF k, f
  <1>4. s \in AnyRecord /\ s.state = r.state /\ s.slot = k /\ s.owed = r.owed
    BY <1>1, <1>2, Values, Zenon DEF AnyRecord
  <1> HIDE DEF s
  <1>5. s \in Records /\ s.state = "active" /\ s.slot # "none"
    BY <1>2, <1>4 DEF Records
  <1> QED BY <1>3, <1>5, WithIs

\* giving back one of the slots in use leaves one free
LEMMA FreedOne ==
    ASSUME NEW d \in Directories, NEW e, Alike(d, e), NEW x \in Slotted(d), SlotsFit(d),
           e.rec[x].slot = "none", \A y \in Node \ {x} : e.rec[y].slot = d.rec[y].slot
    PROVE  FreeSlot(e)
  <1>1. Slotted(e) = Slotted(d) \ {x} /\ Slotted(d) \subseteq Node
    BY DEF Slotted
  <1>2. IsFiniteSet(Slotted(d)) /\ Cardinality(Slotted(d)) \in Nat
    BY <1>1, NodesFinite
  <1>3. Cardinality(Slotted(d) \ {x}) = Cardinality(Slotted(d)) - 1
    BY <1>2, FS_RemoveElement
  <1>4. d.cap \in Nat /\ e.cap = d.cap
    BY Parts DEF Alike
  <1> QED BY <1>1, <1>2, <1>3, <1>4 DEF SlotsFit, FreeSlot

\* a live peer bound where a slot is free
LEMMA BindNear ==
    ASSUME NEW d \in Directories, NEW e, NEW b \in Node, NEW verdict, Alike(d, e),
           \A x \in Node \ {b} : Stays(d.rec[x], e.rec[x]),
           d.rec[b].state = "active", e.rec[b] = d.rec[b], d.rec[b].slot = "none",
           SlotsFit(d) => FreeSlot(e)
    PROVE  /\ Near(d, Bind(e, b, verdict), b)
           /\ Bind(e, b, verdict).rec[b].state = "active"
           /\ Bind(e, b, verdict).rec[b].slot # "none"
  <1> DEFINE f == Bind(e, b, verdict)
  <1>1. /\ Alike(e, f) /\ f.rec[b].state = "active" /\ f.rec[b].slot # "none"
        /\ \A x \in Node \ {b} : f.rec[x] = e.rec[x]
    BY BindIs DEF Alike
  <1> HIDE DEF f
  <1>2. Alike(d, f) /\ \A x \in Node \ {b} : Stays(d.rec[x], f.rec[x])
    BY <1>1 DEF Alike
  <1>3. Slotted(e) \subseteq Node /\ Slotted(f) = Slotted(e) \cup {b} /\ b \notin Slotted(e)
    BY <1>1 DEF Slotted
  <1>4. IsFiniteSet(Slotted(e)) /\ Cardinality(Slotted(e)) \in Nat
    BY <1>3, NodesFinite
  <1>5. Cardinality(Slotted(f)) = Cardinality(Slotted(e)) + 1
    BY <1>3, <1>4, FS_AddElement
  <1>6. d.cap \in Nat /\ e.cap = d.cap /\ f.cap = d.cap
    BY <1>2, Parts DEF Alike
  <1>7. SlotsFit(d) => SlotsFit(f)
    BY <1>4, <1>5, <1>6 DEF SlotsFit, FreeSlot
  <1>8. Known(f) \subseteq Known(d) /\ Known(d) \subseteq Node
    BY <1>2 DEF Known, Stays, Loses
  <1>9. Cardinality(Known(f)) <= Cardinality(Known(d))
        /\ Cardinality(Known(f)) \in Nat /\ Cardinality(Known(d)) \in Nat
    BY <1>8, NodesFinite, FS_Subset
  <1>10. RecordsFit(d) => RecordsFit(f)
    BY <1>9 DEF RecordsFit
  <1>11. Near(d, f, b)
    BY <1>2, <1>7, <1>10 DEF Near
  <1> QED BY <1>1, <1>11 DEF f

\* Seating a peer takes a free slot, a dropped peer's, or a loan.
LEMMA SeatNear ==
    ASSUME NEW d \in Directories, NEW b \in Node, NEW verdict, NEW e \in Seat(d, b, verdict),
           d.rec[b].state = "active", d.rec[b].slot = "none"
    PROVE  Near(d, e, b) /\ e.rec[b].state = "active" /\ e.rec[b].slot # "none"
  <1>1. CASE FreeSlot(d)
    <2>1. e = Bind(d, b, verdict)
      BY <1>1 DEF Seat
    <2>2. Alike(d, d) /\ \A x \in Node \ {b} : Stays(d.rec[x], d.rec[x])
      BY DEF Alike, Stays, Loses
    <2> QED BY <1>1, <2>1, <2>2, BindNear
  <1>2. CASE ~FreeSlot(d) /\ \E x \in Slotted(d) : d.rec[x].state = "dropped"
    <2>1. PICK x \in Slotted(d) : /\ d.rec[x].state = "dropped"
                                  /\ e = Bind([Gone(d, x) EXCEPT !.distrust = TRUE], b, verdict)
      BY <1>2 DEF Seat
    <2> DEFINE g == Gone(d, x)
               w == [g EXCEPT !.distrust = TRUE]
    <2>2. x \in Node /\ x # b
      BY <2>1 DEF Slotted
    <2>3. Alike(d, g) /\ g.rec[x] = Blank /\ \A y \in Node \ {x} : g.rec[y] = d.rec[y]
      BY <2>2, GoneIs
    <2> HIDE DEF g
    <2>4. Alike(d, w) /\ w.rec = g.rec
      BY <2>3, MarkIs
    <2>5. e = Bind(w, b, verdict)
      BY <2>1 DEF g
    <2> HIDE DEF w
    <2>6. SlotsFit(d) => FreeSlot(w)
      BY <2>1, <2>2, <2>3, <2>4, BlankIs, FreedOne
    <2>7. \A y \in Node \ {b} : Stays(d.rec[y], w.rec[y])
      <3> TAKE y \in Node \ {b}
      <3>1. CASE y = x
        BY <3>1, <2>1, <2>3, <2>4, BlankIs DEF Stays, Loses
      <3>2. CASE y # x
        BY <3>2, <2>3, <2>4 DEF Stays, Loses
      <3> QED BY <3>1, <3>2
    <2>8. w.rec[b] = d.rec[b]
      BY <2>2, <2>3, <2>4
    <2> QED BY <2>4, <2>5, <2>6, <2>7, <2>8, BindNear
  <1>3. CASE ~FreeSlot(d) /\ ~\E x \in Slotted(d) : d.rec[x].state = "dropped"
    <2>1. PICK x \in LoanSlots(d) :
              e = Bind(With(d, x, [GiveBack(d.rec[x]) EXCEPT !.want = "loan"]), b, verdict)
      BY <1>3 DEF Seat
    <2> DEFINE q == GiveBack(d.rec[x])
               s == [q EXCEPT !.want = "loan"]
               w == With(d, x, s)
    <2>2. x \in Node /\ x \in Slotted(d) /\ x # b /\ d.rec[x].slot = "loan"
      BY <2>1 DEF LoanSlots, Slotted
    <2>3. q \in Records /\ q.state = d.rec[x].state /\ q.slot = "none"
      BY <2>2, Parts, GiveBackFrees
    <2>4. e = Bind(w, b, verdict)
      BY <2>1
    <2> HIDE DEF q
    <2>5. Kept(q, s)
      BY <2>3, PlainKeeps, Values, Zenon
    <2> HIDE DEF s
    <2>6. /\ Alike(d, w) /\ w.rec[x] = s /\ s.slot = "none" /\ s.state = d.rec[x].state
          /\ \A y \in Node \ {x} : w.rec[y] = d.rec[y]
      BY <2>2, <2>3, <2>5, WithIs DEF Kept
    <2> HIDE DEF w
    <2>7. SlotsFit(d) => FreeSlot(w)
      BY <2>2, <2>6, FreedOne
    <2>8. \A y \in Node \ {b} : Stays(d.rec[y], w.rec[y])
      <3> TAKE y \in Node \ {b}
      <3>1. CASE y = x
        BY <3>1, <2>2, <2>6 DEF Stays, Loses
      <3>2. CASE y # x
        BY <3>2, <2>6 DEF Stays, Loses
      <3> QED BY <3>1, <3>2
    <2>9. w.rec[b] = d.rec[b]
      BY <2>2, <2>6
    <2> QED BY <2>4, <2>6, <2>7, <2>8, <2>9, BindNear
  <1> QED BY <1>1, <1>2, <1>3
-----------------------------------------------------------------------------
(* What a datagram does to the record of its source. *)

LEMMA VerdictIs ==
    ASSUME NEW a, NEW va, NEW b, NEW v, NEW got
    PROVE  Verdict(a, va, b, v, got) \in {"no", "yes", "loan"}
  BY DEF Verdict

\* a live record put without a slot it had not
LEMMA WithNear ==
    ASSUME NEW d \in Directories, NEW b \in Node, NEW s \in Records,
           s.state = "active", d.rec[b].state # "none", s.slot # "none" => d.rec[b].slot # "none"
    PROVE  Near(d, With(d, b, s), b) /\ With(d, b, s).rec[b] = s
  <1> DEFINE w == With(d, b, s)
  <1>1. Alike(d, w) /\ w.rec[b] = s /\ \A x \in Node \ {b} : w.rec[x] = d.rec[x]
    BY WithIs
  <1> HIDE DEF w
  <1>2. \A x \in Node \ {b} : Stays(d.rec[x], w.rec[x])
    BY <1>1 DEF Stays, Loses
  <1>3. Loses(d.rec[b], w.rec[b])
    BY <1>1 DEF Loses
  <1>4. Near(d, w, b)
    BY <1>1, <1>2, <1>3, NearBy
  <1> QED BY <1>1, <1>4 DEF w

\* a mark set on a directory near d
LEMMA NearMark ==
    ASSUME NEW d \in Directories, NEW b \in Node, NEW e, Near(d, e, b), NEW p \in BOOLEAN
    PROVE  Near(d, [e EXCEPT !.opened = p], b)
  <1>1. Alike(e, e) /\ e \in Directories
    BY DEF Near, Alike
  <1>2. ASSUME NEW f, Alike(e, f), f.rec = e.rec
        PROVE  Near(d, f, b)
    <2>1. Steady(e, f)
      BY <1>2 DEF Steady
    <2>2. Near(e, f, b)
      BY <1>1, <2>1, SteadyIs
    <2> QED BY <1>1, <2>2, NearTrans
  <1>3. Alike(e, [e EXCEPT !.opened = p]) /\ [e EXCEPT !.opened = p].rec = e.rec
    BY <1>1, MarkIs
  <1> QED BY <1>2, <1>3, Zenon

LEMMA RefuseSteady ==
    ASSUME NEW d \in Directories, NEW b \in Node, NEW v \in {"no", "yes", "loan"}
    PROVE  Steady(d, Refuse(d, b, v))
  <1> DEFINE s == [d.rec[b] EXCEPT !.want = v]
             w == With(d, b, s)
  <1>1. d.rec[b] \in Records
    BY Parts
  <1>2. Kept(d.rec[b], s)
    BY <1>1, PlainKeeps, Values, Zenon
  <1> HIDE DEF s
  <1>3. Steady(d, w)
    BY <1>2, WithSteady
  <1>4. Refuse(d, b, v) = [w EXCEPT !.misses = TRUE]
    BY DEF Refuse, s
  <1> HIDE DEF w
  <1>5. Alike(d, w) /\ TRUE \in BOOLEAN
    BY <1>3 DEF Steady
  <1>6. Alike(d, [w EXCEPT !.misses = TRUE]) /\ [w EXCEPT !.misses = TRUE].rec = w.rec
    BY <1>5, MarkIs
  <1>7. Alike(d, Refuse(d, b, v)) /\ Refuse(d, b, v).rec = w.rec
    BY <1>4, <1>6, Zenon
  <1> QED BY <1>3, <1>7 DEF Steady

\* the blob of a peer in a slot, read: the slot stays, as a match or as it was
HeldAs(e, b, v, verdict, asks) ==
    LET s == [e.rec[b] EXCEPT !.ver = v, !.flags = e.rec[b].flags \ {"filter"},
                              !.slot = IF verdict = "yes" THEN "match" ELSE e.rec[b].slot]
    IN  With(e, b, IF asks THEN Ask(s, "match") ELSE s)

LEMMA HeldNear ==
    ASSUME NEW e \in Directories, NEW b \in Node, NEW v \in Int, NEW verdict, NEW asks,
           e.rec[b].state = "active", e.rec[b].slot # "none"
    PROVE  Near(e, HeldAs(e, b, v, verdict, asks), b) /\ HeldAs(e, b, v, verdict, asks).rec[b].state = "active"
  <1> DEFINE r == e.rec[b]
             f == r.flags \ {"filter"}
             k == IF verdict = "yes" THEN "match" ELSE r.slot
             s == [r EXCEPT !.ver = v, !.flags = f, !.slot = k]
             t == IF asks THEN Ask(s, "match") ELSE s
  <1>1. r \in Records
    BY Parts
  <1>2. r \in AnyRecord /\ f \in SUBSET Flags /\ k \in {"none", "loan", "match"} /\ k # "none"
    BY <1>1, Fields
  <1>3. HeldAs(e, b, v, verdict, asks) = With(e, b, t)
    BY DEF HeldAs
  <1> HIDE DEF k, f
  <1>4. s \in AnyRecord /\ s.state = r.state /\ s.slot = k /\ s.owed = r.owed
    BY <1>2, Zenon DEF AnyRecord
  <1> HIDE DEF s
  <1>5. s \in Records /\ s.state = "active"
    BY <1>4 DEF Records
  <1>6. Kept(s, Ask(s, "match")) /\ Kept(s, s)
    BY <1>5, AskKeeps DEF Owed, Kept
  <1>7. t \in Records /\ t.state = "active"
    BY <1>5, <1>6 DEF Kept
  <1> HIDE DEF t
  <1>8. Near(e, With(e, b, t), b) /\ With(e, b, t).rec[b] = t
    BY <1>7, WithNear
  <1> QED BY <1>3, <1>7, <1>8

\* A blob may seat its source or free its slot, and nothing else.
LEMMA JudgeNear ==
    ASSUME NEW a, NEW d \in Directories, NEW b \in Node, NEW v \in Int, NEW flags,
           d.rec[b].state = "active", NEW e \in Judge(a, d, b, v, flags)
    PROVE  Near(d, e, b) /\ e.rec[b].state = "active"
  <1> DEFINE r       == d.rec[b]
             known   == r.slot = "match" /\ r.ver > 0
             skipped == v > r.ver + 1
             verdict == Verdict(a, self[a].ver, b, v, r.got)
             d1      == RefetchDone(d, b)
             fl      == d1.rec[b].flags \ {"filter"}
             judged  == [d1.rec[b] EXCEPT !.ver = v, !.flags = fl]
             asks    == verdict = "yes" /\ Tells(a, known, skipped, flags)
             passed  == [GiveBack(judged) EXCEPT !.want = "no", !.flags = fl \cup {"filter"}]
             p       == With(d1, b, passed).opened \/ r.slot # "none"
  <1>1. \/ e = d
        \/ e = [With(d1, b, passed) EXCEPT !.opened = p]
        \/ r.slot # "none" /\ e = HeldAs(d1, b, v, verdict, asks)
        \/ e = With(d1, b, [judged EXCEPT !.want = "no"])
        \/ e = Refuse(With(d1, b, judged), b, verdict)
        \/ r.slot = "none" /\ \E g \in Seat(d1, b, verdict) : e = HeldAs(g, b, v, verdict, asks)
    BY DEF Judge, HeldAs
  <1>2. verdict \in {"no", "yes", "loan"} /\ p \in BOOLEAN
    BY VerdictIs
  <1> HIDE DEF known, skipped, verdict, asks, p
  <1>3. Steady(d, d1)
    BY RefetchDoneSteady
  <1>4. Near(d, d1, b) /\ d1 \in Directories /\ d1.rec[b].state = "active" /\ d1.rec[b].slot = r.slot
    BY <1>3, SteadyIs DEF Steady, Alike
  <1> HIDE DEF d1
  <1>5. d1.rec[b] \in Records
    BY <1>4, Parts
  <1>6. fl \in SUBSET Flags /\ fl \cup {"filter"} \in SUBSET Flags
    BY <1>5, Fields DEF Flags
  <1> HIDE DEF fl
  <1>7. Kept(d1.rec[b], judged)
    BY <1>5, <1>6, PlainKeeps, Values, Zenon
  <1> HIDE DEF judged
  <1>8. judged \in Records /\ judged.state = "active" /\ judged.slot = r.slot
    BY <1>4, <1>7 DEF Kept
  <1>9. CASE e = d
    BY <1>9, NearItself
  <1>10. CASE e = [With(d1, b, passed) EXCEPT !.opened = p]
    <2> DEFINE q == GiveBack(judged)
               w == With(d1, b, passed)
    <2>1. q \in Records /\ q.state = "active" /\ q.slot = "none"
      BY <1>8, GiveBackFrees
    <2>2. passed = [q EXCEPT !.want = "no", !.flags = fl \cup {"filter"}]
      OBVIOUS
    <2> HIDE DEF q, passed
    <2>3. Kept(q, [q EXCEPT !.want = "no", !.flags = fl \cup {"filter"}])
      BY <2>1, <1>6, PlainKeeps, Values, Zenon
    <2>4. passed \in Records /\ passed.state = "active" /\ passed.slot = "none"
      BY <2>1, <2>2, <2>3, Zenon DEF Kept
    <2>5. Near(d1, w, b) /\ w.rec[b] = passed
      BY <1>4, <2>4, WithNear
    <2> HIDE DEF w
    <2>6. d1 \in Directories /\ w \in Directories /\ Near(d1, w, b) /\ p \in BOOLEAN
      BY <1>2, <1>4, <2>5 DEF Near, Alike
    <2>7. Near(d1, [w EXCEPT !.opened = p], b)
      BY <2>6, NearMark, Zenon
    <2>8. [w EXCEPT !.opened = p].rec = w.rec
      BY <2>6, Zenon DEF Directories
    <2>9. e = [w EXCEPT !.opened = p]
      BY <1>10 DEF w
    <2>10. Near(d1, e, b) /\ e.rec = w.rec
      BY <2>7, <2>8, <2>9, Zenon
    <2> QED BY <1>4, <2>4, <2>5, <2>10, NearTrans
  <1>11. CASE r.slot # "none" /\ e = HeldAs(d1, b, v, verdict, asks)
    <2>1. Near(d1, e, b) /\ e.rec[b].state = "active"
      BY <1>4, <1>11, HeldNear
    <2> QED BY <1>4, <2>1, NearTrans
  <1>12. CASE e = With(d1, b, [judged EXCEPT !.want = "no"])
    <2> DEFINE s == [judged EXCEPT !.want = "no"]
    <2>1. Kept(judged, s)
      BY <1>8, PlainKeeps, Values, Zenon
    <2> HIDE DEF s
    <2>2. s \in Records /\ s.state = "active" /\ s.slot = r.slot
      BY <1>8, <2>1 DEF Kept
    <2>3. Near(d1, With(d1, b, s), b) /\ With(d1, b, s).rec[b] = s
      BY <1>4, <2>2, WithNear
    <2>4. e = With(d1, b, s)
      BY <1>12 DEF s
    <2> QED BY <1>4, <2>2, <2>3, <2>4, NearTrans
  <1>13. CASE e = Refuse(With(d1, b, judged), b, verdict)
    <2> DEFINE w == With(d1, b, judged)
    <2>1. Near(d1, w, b) /\ w.rec[b] = judged /\ w \in Directories
      BY <1>4, <1>8, WithNear DEF Near, Alike
    <2> HIDE DEF w
    <2>2. Steady(w, Refuse(w, b, verdict))
      BY <1>2, <2>1, RefuseSteady
    <2>3. Near(w, e, b) /\ e.rec[b].state = "active"
      BY <1>8, <1>13, <2>1, <2>2, SteadyIs DEF Steady, w
    <2>4. Near(d, w, b)
      BY <1>4, <2>1, NearTrans
    <2> QED BY <2>3, <2>4, NearTrans
  <1>14. CASE r.slot = "none" /\ \E g \in Seat(d1, b, verdict) : e = HeldAs(g, b, v, verdict, asks)
    <2>1. PICK g \in Seat(d1, b, verdict) : e = HeldAs(g, b, v, verdict, asks)
      BY <1>14
    <2>2. Near(d1, g, b) /\ g.rec[b].state = "active" /\ g.rec[b].slot # "none"
      BY <1>4, <1>14, SeatNear
    <2>3. g \in Directories
      BY <2>2 DEF Near, Alike
    <2>4. Near(g, e, b) /\ e.rec[b].state = "active"
      BY <2>1, <2>2, <2>3, HeldNear
    <2>5. Near(d, g, b)
      BY <1>4, <2>2, NearTrans
    <2> QED BY <2>4, <2>5, NearTrans
  <1> QED BY <1>1, <1>9, <1>10, <1>11, <1>12, <1>13, <1>14

LEMMA TakeFlagsNear ==
    ASSUME NEW d \in Directories, NEW m, m.src \in Node, d.rec[m.src].state # "none"
    PROVE  Near(d, TakeFlags(d, m), m.src) /\ TakeFlags(d, m).rec[m.src].state = "active"
  <1> DEFINE b  == m.src
             h  == d.rec[b]
             r0 == [h EXCEPT !.state = "active"]
             q1 == Settle(r0, {"match"})
             s1 == [q1 EXCEPT !.flags = q1.flags \ {"missed"}]
             r1 == IF "one" \in m.flags THEN s1 ELSE r0
             q2 == Settle(r1, {"match"})
             g2 == GiveBack(q2)
             f2 == ((g2.flags \cup {"full"}) \ {"reask", "missed"})
                     \cup (IF "one" \in m.flags THEN {} ELSE {"reask"})
             r2 == [g2 EXCEPT !.want = "no", !.flags = f2]
             f3 == (r1.flags \ {"full", "reask"}) \cup (IF m.blob THEN {} ELSE {"refetch"})
             r3 == [r1 EXCEPT !.flags = f3]
             q4 == Ask(r1, "match")
             r4 == [q4 EXCEPT !.tries = 1]
             w2 == With(d, b, r2)
             p  == w2.opened \/ r1.slot # "none"
             Heard(x) == x \in Records /\ x.state = "active" /\ (x.slot # "none" => h.slot # "none")
  <1>1. \/ TakeFlags(d, m) = [w2 EXCEPT !.opened = p]
        \/ TakeFlags(d, m) = With(d, b, r1)
        \/ TakeFlags(d, m) = With(d, b, r3)
        \/ TakeFlags(d, m) = With(d, b, r4)
    BY DEF TakeFlags
  <1>2. h \in Records /\ h.state # "none" /\ b \in Node
    BY Parts
  <1> HIDE DEF h, p
  <1>3. ASSUME NEW x, NEW y, Heard(x), Kept(x, y)
        PROVE  Heard(y)
    BY <1>3 DEF Kept
  <1>4. Heard(r0)
    <2>1. h \in AnyRecord
      BY <1>2, Fields
    <2>2. r0 \in AnyRecord /\ r0.state = "active" /\ r0.slot = h.slot /\ r0.owed = h.owed
      BY <2>1, Values, Zenon DEF AnyRecord
    <2> HIDE DEF r0
    <2> QED BY <2>2 DEF Records
  <1> HIDE DEF r0
  <1>5. Kept(r0, q1)
    BY <1>4, SettleKeeps
  <1>6. Heard(q1)
    BY <1>3, <1>4, <1>5
  <1> HIDE DEF q1
  <1>7. q1.flags \ {"missed"} \in SUBSET Flags
    BY <1>6, Fields
  <1>8. Kept(q1, s1)
    BY <1>6, <1>7, PlainKeeps, Values, Zenon
  <1>9. Heard(s1)
    BY <1>3, <1>6, <1>8, Zenon
  <1> HIDE DEF s1
  <1>10. Heard(r1)
    BY <1>4, <1>9
  <1> HIDE DEF r1
  <1>11. Kept(r1, q2) /\ Kept(r1, q4)
    BY <1>10, SettleKeeps, AskKeeps DEF Owed
  <1>12. Heard(q2) /\ Heard(q4)
    BY <1>3, <1>10, <1>11
  <1> HIDE DEF q2, q4
  <1>13. Heard(g2)
    BY <1>12, GiveBackFrees
  <1> HIDE DEF g2
  <1>14. f2 \in SUBSET Flags /\ f3 \in SUBSET Flags
    BY <1>10, <1>13, Fields DEF Flags
  <1> HIDE DEF f2, f3
  <1>15. Kept(g2, r2)
    BY <1>13, <1>14, PlainKeeps, Values, Zenon
  <1>16. Kept(r1, r3)
    BY <1>10, <1>14, PlainKeeps, Values, Zenon
  <1>17. Kept(q4, r4)
    BY <1>12, PlainKeeps, Values, Zenon
  <1>18. Heard(r2) /\ Heard(r3) /\ Heard(r4)
    BY <1>3, <1>10, <1>12, <1>13, <1>15, <1>16, <1>17, Zenon
  <1> HIDE DEF r2, r3, r4
  <1>19. ASSUME NEW x, Heard(x)
         PROVE  Near(d, With(d, b, x), b) /\ With(d, b, x).rec[b] = x
    BY <1>2, <1>19, WithNear DEF h
  <1>20. CASE TakeFlags(d, m) = [w2 EXCEPT !.opened = p]
    <2>1. Near(d, w2, b) /\ w2.rec[b].state = "active" /\ p \in BOOLEAN
      BY <1>18, <1>19 DEF p
    <2> HIDE DEF w2
    <2>2. w2 \in Directories
      BY <2>1 DEF Near, Alike
    <2>3. Near(d, [w2 EXCEPT !.opened = p], b)
      BY <1>2, <2>1, NearMark, Zenon
    <2>4. [w2 EXCEPT !.opened = p].rec = w2.rec
      BY <2>1, <2>2, Zenon DEF Directories
    <2> QED BY <1>20, <2>1, <2>3, <2>4, Zenon
  <1>21. CASE TakeFlags(d, m) # [w2 EXCEPT !.opened = p]
    BY <1>1, <1>10, <1>18, <1>19, <1>21
  <1> QED BY <1>20, <1>21

LEMMA TakeVersionNear ==
    ASSUME NEW a, NEW d \in Directories, NEW m, NEW first, m.src \in Node, m.ver \in Int,
           d.rec[m.src].state = "active", NEW e \in TakeVersion(a, d, m, first)
    PROVE  Near(d, e, m.src) /\ e.rec[m.src].state = "active"
  <1> DEFINE b   == m.src
             adv == IF m.ver > d.rec[b].adv THEN m.ver ELSE d.rec[b].adv
             s1  == [d.rec[b] EXCEPT !.adv = adv]
             d1  == With(d, b, s1)
             r   == d1.rec[b]
             s2  == [r EXCEPT !.ver = m.ver]
  <1>1. \/ e \in Judge(a, d1, b, m.ver, m.flags)
        \/ e = With(d1, b, s2)
        \/ e = With(d1, b, Offer(r))
        \/ e = Refuse(d1, b, "yes")
        \/ e = d1
    BY DEF TakeVersion
  <1>2. b \in Node /\ d.rec[b] \in Records /\ adv \in Int
    BY Parts, Fields
  <1> HIDE DEF adv
  <1>3. Kept(d.rec[b], s1)
    BY <1>2, PlainKeeps, Values, Zenon
  <1> HIDE DEF s1
  <1>4. Steady(d, d1)
    BY <1>2, <1>3, WithSteady
  <1>5. Near(d, d1, b) /\ d1 \in Directories /\ r.state = "active"
    BY <1>2, <1>4, SteadyIs DEF Steady, Alike
  <1> HIDE DEF d1
  <1>6. r \in Records
    BY <1>2, <1>5, Parts
  <1>7. Kept(r, s2)
    BY <1>6, PlainKeeps, Values, Zenon
  <1>8. Kept(r, Offer(r))
    BY <1>6, OfferKeeps
  <1> HIDE DEF s2
  <1>9. CASE e \in Judge(a, d1, b, m.ver, m.flags)
    <2>1. Near(d1, e, b) /\ e.rec[b].state = "active"
      BY <1>2, <1>5, <1>9, JudgeNear
    <2> QED BY <1>2, <1>5, <2>1, NearTrans
  <1>10. CASE e = With(d1, b, s2) \/ e = With(d1, b, Offer(r)) \/ e = Refuse(d1, b, "yes") \/ e = d1
    <2>1. Steady(d1, d1)
      BY <1>5 DEF Steady, Alike
    <2>2. Steady(d1, With(d1, b, s2)) /\ Steady(d1, With(d1, b, Offer(r)))
      BY <1>2, <1>5, <1>7, <1>8, WithSteady
    <2>3. Steady(d1, Refuse(d1, b, "yes"))
      BY <1>2, <1>5, RefuseSteady
    <2>4. Steady(d1, e)
      BY <1>10, <2>1, <2>2, <2>3
    <2>5. Near(d1, e, b) /\ e.rec[b].state = "active"
      BY <1>2, <1>5, <2>4, SteadyIs DEF Steady
    <2> QED BY <1>2, <1>5, <2>5, NearTrans
  <1> QED BY <1>1, <1>9, <1>10

LEMMA OweReplySteady ==
    ASSUME NEW d \in Directories, NEW m, m.src \in Node, d.rec[m.src].state = "active"
    PROVE  Steady(d, OweReply(d, m))
  <1> DEFINE b == m.src
             r == FetchCheck(d.rec[b])
             s == [r EXCEPT !.owed = r.owed \cup {"reply"}]
  <1>1. OweReply(d, m) = With(d, b, s) \/ OweReply(d, m) = With(d, b, r)
    BY DEF OweReply
  <1>2. d.rec[b] \in Records
    BY Parts
  <1>3. Kept(d.rec[b], r)
    BY <1>2, FetchCheckKeeps
  <1> HIDE DEF r
  <1>4. r \in Records /\ r.state = "active"
    BY <1>3 DEF Kept
  <1>5. r \in AnyRecord /\ r.owed \cup {"reply"} \in SUBSET Owed
    BY <1>4, Fields DEF Owed
  <1>6. s \in AnyRecord /\ s.state = r.state /\ s.slot = r.slot
    BY <1>5, Zenon DEF AnyRecord
  <1> HIDE DEF s
  <1>7. s \in Records
    BY <1>4, <1>6 DEF Records
  <1>8. Kept(d.rec[b], s)
    BY <1>3, <1>6, <1>7 DEF Kept
  <1> QED BY <1>1, <1>3, <1>8, WithSteady

\* a record for a new uuid, where there is room for one
LEMMA AddNear ==
    ASSUME NEW d \in Directories, NEW w, NEW b \in Node, Alike(d, w), w.rec[b].state = "none",
           \A x \in Node \ {b} : Stays(d.rec[x], w.rec[x]),
           RecordsFit(d) => Cardinality(Known(w)) < setup.recs
    PROVE  Near(d, With(w, b, NewRecord), b) /\ With(w, b, NewRecord).rec[b].state = "active"
  <1> DEFINE e == With(w, b, NewRecord)
  <1>1. /\ Alike(w, e) /\ e.rec[b] = NewRecord
        /\ \A x \in Node \ {b} : e.rec[x] = w.rec[x]
    BY NewRecordIs, WithIs DEF Alike
  <1> HIDE DEF e
  <1>2. Alike(d, e) /\ \A x \in Node \ {b} : Stays(d.rec[x], e.rec[x])
    BY <1>1 DEF Alike
  <1>3. Slotted(e) \subseteq Slotted(d) /\ Slotted(d) \subseteq Node
    BY <1>1, <1>2, NewRecordIs DEF Slotted, Stays, Loses
  <1>4. Cardinality(Slotted(e)) <= Cardinality(Slotted(d))
        /\ Cardinality(Slotted(e)) \in Nat /\ Cardinality(Slotted(d)) \in Nat
    BY <1>3, NodesFinite, FS_Subset
  <1>5. d.cap \in Nat /\ e.cap = d.cap
    BY <1>2, Parts DEF Alike
  <1>6. SlotsFit(d) => SlotsFit(e)
    BY <1>4, <1>5 DEF SlotsFit
  <1>7. Known(w) \subseteq Node /\ Known(e) = Known(w) \cup {b} /\ b \notin Known(w)
    BY <1>1, NewRecordIs DEF Known
  <1>8. IsFiniteSet(Known(w)) /\ Cardinality(Known(w)) \in Nat
    BY <1>7, NodesFinite
  <1>9. Cardinality(Known(e)) = Cardinality(Known(w)) + 1
    BY <1>7, <1>8, FS_AddElement
  <1>10. RecordsFit(d) => RecordsFit(e)
    BY <1>8, <1>9 DEF RecordsFit
  <1>11. Near(d, e, b)
    BY <1>2, <1>6, <1>10 DEF Near
  <1> QED BY <1>1, <1>11, NewRecordIs DEF e

\* A new record takes a free place, a dropped peer's, or that of a live record
\* without a slot.
LEMMA RecordTakeNear ==
    ASSUME NEW a, NEW d \in Directories, NEW m, m.src \in Node, d.rec[m.src].state = "none",
           NEW e \in RecordTake(a, d, m)
    PROVE  Near(d, e, m.src) /\ e.rec[m.src].state = "active"
  <1> DEFINE b == m.src
  <1>1. \/ Cardinality(Known(d)) < setup.recs /\ e = With(d, b, NewRecord)
        \/ \E x \in Known(d) : /\ ~(d.rec[x].state = "active" /\ d.rec[x].slot = "match")
                               /\ e = With([Gone(d, x) EXCEPT !.distrust = TRUE], b, NewRecord)
    BY DEF RecordTake, Dropped, Known
  <1>2. CASE Cardinality(Known(d)) < setup.recs /\ e = With(d, b, NewRecord)
    <2>1. Alike(d, d) /\ \A x \in Node \ {b} : Stays(d.rec[x], d.rec[x])
      BY DEF Alike, Stays, Loses
    <2> QED BY <1>2, <2>1, AddNear
  <1>3. ASSUME NEW x \in Known(d), ~(d.rec[x].state = "active" /\ d.rec[x].slot = "match"),
               e = With([Gone(d, x) EXCEPT !.distrust = TRUE], b, NewRecord)
        PROVE  Near(d, e, b) /\ e.rec[b].state = "active"
    <2> DEFINE g == Gone(d, x)
               w == [g EXCEPT !.distrust = TRUE]
    <2>1. x \in Node /\ x # b
      BY <1>3 DEF Known
    <2>2. Alike(d, g) /\ g.rec[x] = Blank /\ \A y \in Node \ {x} : g.rec[y] = d.rec[y]
      BY <2>1, GoneIs
    <2>3. e = With(w, b, NewRecord)
      BY <1>3
    <2> HIDE DEF g
    <2>4. Alike(d, w) /\ w.rec = g.rec
      BY <2>2, MarkIs
    <2> HIDE DEF w
    <2>5. \A y \in Node \ {b} : Stays(d.rec[y], w.rec[y])
      <3> TAKE y \in Node \ {b}
      <3>1. CASE y = x
        BY <3>1, <1>3, <2>2, <2>4, BlankIs DEF Stays, Loses
      <3>2. CASE y # x
        BY <3>2, <2>2, <2>4 DEF Stays, Loses
      <3> QED BY <3>1, <3>2
    <2>6. w.rec[b].state = "none"
      BY <2>1, <2>2, <2>4
    <2>7. Known(w) = Known(d) \ {x} /\ Known(d) \subseteq Node
      BY <2>1, <2>2, <2>4, BlankIs DEF Known
    <2>8. IsFiniteSet(Known(d)) /\ Cardinality(Known(d)) \in Nat
      BY <2>7, NodesFinite
    <2>9. Cardinality(Known(w)) = Cardinality(Known(d)) - 1
      BY <2>7, <2>8, FS_RemoveElement
    <2>10. RecordsFit(d) => Cardinality(Known(w)) < setup.recs
      BY <2>8, <2>9 DEF RecordsFit
    <2> QED BY <2>3, <2>4, <2>5, <2>6, <2>10, AddNear
  <1> QED BY <1>1, <1>2, <1>3

LEMMA StrangerSteady ==
    ASSUME NEW a, NEW d \in Directories, NEW m, m.src \in Node
    PROVE  Steady(d, Stranger(a, d, m))
  <1> DEFINE match == m.blob /\ Verdict(a, self[a].ver, m.src, m.ver, 0) = "yes"
             owed  == "req" \in m.flags \/ (match /\ "one" \in m.flags)
             kept  == {l \in d.loose : l.to # m.src}
             q     == IF owed THEN kept \cup {[to |-> m.src, full |-> match]} ELSE d.loose
  <1>1. Stranger(a, d, m) = [d EXCEPT !.distrust = TRUE, !.loose = q]
    BY DEF Stranger
  <1>2. match \in BOOLEAN /\ d.loose \in SUBSET Loose
    BY Parts
  <1> HIDE DEF match
  <1>3. [to |-> m.src, full |-> match] \in Loose
    BY <1>2 DEF Loose
  <1>4. q \in SUBSET Loose /\ TRUE \in BOOLEAN
    BY <1>2, <1>3
  <1> HIDE DEF q
  <1>5. Alike(d, [d EXCEPT !.distrust = TRUE, !.loose = q])
        /\ [d EXCEPT !.distrust = TRUE, !.loose = q].rec = d.rec
    BY <1>4, MarksKeep, Zenon
  <1>6. Alike(d, Stranger(a, d, m)) /\ Stranger(a, d, m).rec = d.rec
    BY <1>1, <1>5, Zenon
  <1> QED BY <1>6 DEF Steady

\* A judgement of a held blob may free its slot, or make a match of a loan.
LEMMA RejudgeFewer ==
    ASSUME NEW a, NEW va, NEW d \in Directories, NEW b \in Node
    PROVE  /\ Fewer(d, RejudgeAt(a, va, d, b))
           /\ RejudgeAt(a, va, d, b).rec[b].state = d.rec[b].state
           /\ RejudgeAt(a, va, d, b).opened \in BOOLEAN
  <1> DEFINE r == d.rec[b]
             verdict == Verdict(a, va, b, r.ver, r.got)
             fl == IF verdict = "no" THEN r.flags \cup {"filter"} ELSE r.flags \ {"filter"}
             g  == GiveBack(r)
             s1 == [g EXCEPT !.flags = fl]
             w1 == With(d, b, s1)
             s2 == [r EXCEPT !.slot = "match", !.flags = fl]
             s3 == [r EXCEPT !.flags = fl]
             e  == RejudgeAt(a, va, d, b)
  <1>1. \/ e = d
        \/ e = [w1 EXCEPT !.opened = TRUE]
        \/ r.state # "none" /\ r.slot # "none" /\ e = With(d, b, Ask(s2, "match"))
        \/ e = With(d, b, s3)
    <2>1. r.slot # "none" => r.state # "none"
      BY Parts, Fields
    <2> QED BY <2>1 DEF RejudgeAt
  <1>2. r \in Records /\ r \in AnyRecord /\ fl \in SUBSET Flags
    BY Parts, Fields DEF Flags
  <1> HIDE DEF verdict, fl, e
  <1>3. g \in Records /\ g.state = r.state /\ g.slot = "none"
    BY <1>2, GiveBackFrees
  <1> HIDE DEF g
  <1>4. Kept(g, s1)
    BY <1>2, <1>3, PlainKeeps, Values, Zenon
  <1>5. Kept(r, s3)
    BY <1>2, PlainKeeps, Values, Zenon
  <1>6. s2 \in AnyRecord /\ s2.state = r.state /\ s2.slot = "match" /\ s2.owed = r.owed
    BY <1>2, Values, Zenon DEF AnyRecord
  <1> HIDE DEF s1, s2, s3
  <1>7. ASSUME NEW s \in Records, s.state = r.state, s.slot # "none" => r.slot # "none"
        PROVE  /\ Fewer(d, With(d, b, s)) /\ With(d, b, s).rec[b].state = r.state
               /\ Alike(d, With(d, b, s)) /\ With(d, b, s).opened \in BOOLEAN
    <2> DEFINE w == With(d, b, s)
    <2>1. /\ Alike(d, w) /\ w.rec[b] = s /\ w.opened = d.opened
          /\ \A x \in Node \ {b} : w.rec[x] = d.rec[x]
      BY WithIs
    <2> HIDE DEF w
    <2>2. \A x \in Node : Loses(d.rec[x], w.rec[x])
      BY <1>7, <2>1 DEF Loses
    <2>3. Fewer(d, w) /\ d.opened \in BOOLEAN
      BY <2>1, <2>2, AlikeFewer, Parts
    <2> QED BY <1>7, <2>1, <2>3 DEF w
  <1>8. CASE e = d
    <2>1. Alike(d, d) /\ \A x \in Node : Loses(d.rec[x], d.rec[x])
      BY DEF Alike, Loses
    <2> QED BY <1>8, <2>1, AlikeFewer, Parts DEF e
  <1>9. CASE e = [w1 EXCEPT !.opened = TRUE]
    <2>1. Fewer(d, w1) /\ Alike(d, w1) /\ w1.rec[b].state = r.state
      BY <1>3, <1>4, <1>7 DEF Kept
    <2> HIDE DEF w1
    <2>2. w1 \in Directories /\ TRUE \in BOOLEAN
      BY <2>1 DEF Alike
    <2>3. [w1 EXCEPT !.opened = TRUE].rec = w1.rec /\ [w1 EXCEPT !.opened = TRUE].opened = TRUE
      BY <2>2, Zenon DEF Directories
    <2>4. Alike(d, [w1 EXCEPT !.opened = TRUE])
      BY <2>1, <2>2, MarkIs
    <2>5. Alike(d, e) /\ e.rec = w1.rec /\ e.opened = TRUE
      BY <1>9, <2>3, <2>4, Zenon
    <2>6. \A x \in Node : Loses(d.rec[x], e.rec[x])
      BY <2>1, <2>5 DEF Fewer
    <2> QED BY <2>1, <2>5, <2>6, AlikeFewer DEF e
  <1>10. CASE r.state # "none" /\ r.slot # "none" /\ e = With(d, b, Ask(s2, "match"))
    <2>1. s2 \in Records
      BY <1>2, <1>6, <1>10, Fields DEF Records
    <2>2. Kept(s2, Ask(s2, "match"))
      BY <2>1, AskKeeps DEF Owed
    <2>3. Ask(s2, "match") \in Records /\ Ask(s2, "match").state = r.state
      BY <1>6, <2>2 DEF Kept
    <2> QED BY <1>7, <1>10, <2>3 DEF e
  <1>11. CASE e = With(d, b, s3)
    BY <1>5, <1>7, <1>11 DEF Kept, e
  <1> QED BY <1>1, <1>8, <1>9, <1>10, <1>11
-----------------------------------------------------------------------------
(* What a step does to a directory. *)

\* Whoever gains a slot takes it from no live match, except at its own endpoint.
MatchesKept(d, e) ==
    \A b, c \in Node :
        /\ d.rec[b].slot = "match" /\ d.rec[b].state = "active"
        /\ d.rec[c].slot = "none" /\ e.rec[c].slot # "none"
        /\ setup.endpoint[b] # setup.endpoint[c]
        => e.rec[b].slot = "match"

Moves(d, e) == e \in Directories /\ Sound(e) /\ MatchesKept(d, e)

LEMMA FewerMoves ==
    ASSUME NEW d \in Directories, Sound(d), NEW e, Fewer(d, e)
    PROVE  Moves(d, e)
  <1>1. SlotsFit(e) /\ RecordsFit(e)
    BY FewerFits DEF Sound
  <1>2. e \in Directories /\ e.left = d.left /\ e.left \in SUBSET Node
    BY Parts DEF Fewer
  <1>3. \A b \in e.left : e.rec[b].state = "none"
    BY <1>2 DEF Sound, Fewer, Loses
  <1>4. MatchesKept(d, e)
    BY DEF MatchesKept, Fewer, Loses
  <1> QED BY <1>1, <1>2, <1>3, <1>4 DEF Moves, Sound

LEMMA SteadyMoves ==
    ASSUME NEW d \in Directories, Sound(d), NEW e, Steady(d, e), NEW b \in Node
    PROVE  Moves(d, e)
  BY SteadyIs, FewerMoves

LEMMA OffersFewer ==
    ASSUME NEW d \in Directories, NEW e, Fewer(d, e), NEW f \in OfferSlots(e)
    PROVE  Fewer(d, f)
  <1>1. e \in Directories
    BY DEF Fewer
  <1>2. Steady(e, f)
    BY <1>1, OfferSlotsSteady
  <1>3. Alike(e, f) /\ \A x \in Node : Loses(e.rec[x], f.rec[x])
    BY <1>2 DEF Steady, Loses
  <1>4. Fewer(e, f)
    BY <1>1, <1>3, AlikeFewer
  <1> QED BY <1>4, FewerTrans

LEMMA GoneFewer ==
    ASSUME NEW d \in Directories, NEW b \in Node
    PROVE  Fewer(d, Gone(d, b))
  <1>1. /\ Alike(d, Gone(d, b)) /\ Gone(d, b).rec[b] = Blank
        /\ \A x \in Node \ {b} : Gone(d, b).rec[x] = d.rec[x]
    BY GoneIs
  <1>2. \A x \in Node : Loses(d.rec[x], Gone(d, b).rec[x])
    BY <1>1, BlankIs DEF Loses
  <1> QED BY <1>1, <1>2, AlikeFewer

\* A BYE frees the slot of the peer and notes that it left.
LEMMA ByeMoves ==
    ASSUME NEW d \in Directories, Sound(d), NEW b \in Node,
           NEW e \in OfferSlots([Gone(d, b) EXCEPT !.left = @ \cup {b}])
    PROVE  Moves(d, e)
  <1> DEFINE g == Gone(d, b)
             k == g.left \cup {b}
             w == [g EXCEPT !.left = k]
  <1>1. Fewer(d, g) /\ g.rec[b] = Blank /\ g \in Directories
    BY GoneFewer, GoneIs DEF Alike
  <1>2. k = d.left \cup {b} /\ k \in SUBSET Node
    BY <1>1, Parts DEF Fewer
  <1>3. e \in OfferSlots(w)
    OBVIOUS
  <1> HIDE DEF g, k
  <1>4. w \in Directories /\ w.rec = g.rec /\ w.cap = g.cap /\ w.left = k
    BY <1>1, <1>2, Zenon DEF Directories
  <1> HIDE DEF w
  <1>5. Steady(w, e)
    BY <1>3, <1>4, OfferSlotsSteady
  <1>6. e \in Directories /\ e.left = k /\ e.cap = g.cap
        /\ \A x \in Node : e.rec[x].state = g.rec[x].state /\ e.rec[x].slot = g.rec[x].slot
    BY <1>4, <1>5 DEF Steady, Alike
  <1>7. Slotted(e) = Slotted(g) /\ Known(e) = Known(g)
    BY <1>6 DEF Slotted, Known
  <1>8. SlotsFit(e) /\ RecordsFit(e)
    BY <1>1, <1>6, <1>7, FewerFits DEF Sound, SlotsFit, RecordsFit
  <1>9. \A x \in e.left : e.rec[x].state = "none"
    <2> TAKE x \in e.left
    <2>1. CASE x = b
      BY <2>1, <1>1, <1>6, BlankIs
    <2>2. CASE x # b
      BY <2>2, <1>1, <1>2, <1>6 DEF Sound, Fewer, Loses
    <2> QED BY <2>1, <2>2
  <1>10. MatchesKept(d, e)
    BY <1>1, <1>6 DEF MatchesKept, Fewer, Loses
  <1> QED BY <1>6, <1>8, <1>9, <1>10 DEF Moves, Sound

\* The directory after the records of peers whose endpoint the source now has
\* are gone.
Cleared(d, b) ==
    LET stale == {x \in Known(d) \ {b} : setup.endpoint[x] = setup.endpoint[b]}
    IN  [d EXCEPT !.rec = [x \in Node |-> IF x \in stale THEN Blank ELSE @[x]],
                  !.opened = @ \/ \E x \in stale : d.rec[x].slot # "none"]

LEMMA ClearedIs ==
    ASSUME NEW d \in Directories, NEW b \in Node
    PROVE  /\ Fewer(d, Cleared(d, b)) /\ Cleared(d, b).rec[b] = d.rec[b]
           /\ \A x \in Node : setup.endpoint[x] # setup.endpoint[b] => Cleared(d, b).rec[x] = d.rec[x]
  <1> DEFINE stale == {x \in Known(d) \ {b} : setup.endpoint[x] = setup.endpoint[b]}
             f == [x \in Node |-> IF x \in stale THEN Blank ELSE d.rec[x]]
             w == [d EXCEPT !.rec = f]
             p == w.opened \/ \E x \in stale : d.rec[x].slot # "none"
             e == Cleared(d, b)
  <1>1. e = [w EXCEPT !.opened = p] /\ p \in BOOLEAN
    BY DEF Cleared
  <1>2. f \in [Node -> Records] /\ \A x \in Node : f[x] = IF x \in stale THEN Blank ELSE d.rec[x]
    BY Parts, BlankIs
  <1> HIDE DEF f, p, e
  <1>3. Alike(d, w) /\ w.rec = f
    BY <1>2, RecKeeps
  <1> HIDE DEF w
  <1>4. Alike(d, [w EXCEPT !.opened = p]) /\ [w EXCEPT !.opened = p].rec = w.rec
    BY <1>1, <1>3, MarkIs
  <1>5. Alike(d, e) /\ e.rec = f
    BY <1>1, <1>3, <1>4, Zenon
  <1>6. \A x \in Node : Loses(d.rec[x], e.rec[x])
    BY <1>2, <1>5, BlankIs DEF Loses
  <1>7. Fewer(d, e)
    BY <1>5, <1>6, AlikeFewer
  <1> QED BY <1>2, <1>5, <1>7 DEF e

LEMMA OnDatagramMoves ==
    ASSUME NEW a \in Node, dir[a] \in Directories, Sound(dir[a]), NEW m, Readable(m),
           NEW e \in OnDatagram(a, m)
    PROVE  Moves(dir[a], e)
  <1> DEFINE b     == m.src
             d     == dir[a]
             clear == Cleared(d, b)
             first == d.rec[b].state = "none"
             takes == IF first THEN RecordTake(a, clear, m) ELSE {d}
             heard == UNION {TakeVersion(a, TakeFlags(g, m), m, first) : g \in takes}
  <1>0. OnDatagram(a, m) =
            IF "bye" \in m.flags
            THEN OfferSlots([Gone(d, b) EXCEPT !.left = @ \cup {b}])
            ELSE IF LeftLately(d, b) THEN {d}
            ELSE IF takes = {} THEN OfferSlots(Stranger(a, clear, m))
            ELSE UNION {OfferSlots(OweReply(g, m)) : g \in heard}
    BY DEF OnDatagram, Cleared
  <1>1. IF "bye" \in m.flags
        THEN e \in OfferSlots([Gone(d, b) EXCEPT !.left = @ \cup {b}])
        ELSE IF LeftLately(d, b) THEN e = d
        ELSE IF takes = {} THEN e \in OfferSlots(Stranger(a, clear, m))
        ELSE \E g \in heard : e \in OfferSlots(OweReply(g, m))
    BY <1>0
  <1>2. b \in Node /\ m.ver \in Int /\ d \in Directories /\ Sound(d)
    BY DEF Readable
  <1>3. /\ Fewer(d, clear) /\ clear.rec[b] = d.rec[b] /\ clear \in Directories
        /\ \A x \in Node : setup.endpoint[x] # setup.endpoint[b] => clear.rec[x] = d.rec[x]
    BY <1>2, ClearedIs DEF Fewer
  <1> HIDE DEF clear, d
  <1>4. CASE "bye" \in m.flags
    BY <1>1, <1>2, <1>4, ByeMoves DEF d
  <1>5. CASE "bye" \notin m.flags /\ LeftLately(d, b)
    <2>1. Steady(d, d)
      BY <1>2 DEF Steady, Alike
    <2> QED BY <1>1, <1>2, <1>5, <2>1, SteadyMoves DEF d
  <1>6. CASE "bye" \notin m.flags /\ ~LeftLately(d, b) /\ takes = {}
    <2>1. Steady(clear, Stranger(a, clear, m))
      BY <1>2, <1>3, StrangerSteady
    <2>2. Fewer(clear, Stranger(a, clear, m))
      BY <1>2, <1>3, <2>1, SteadyIs
    <2>3. Fewer(d, Stranger(a, clear, m))
      BY <1>2, <1>3, <2>2, FewerTrans
    <2>4. e \in OfferSlots(Stranger(a, clear, m))
      BY <1>1, <1>6
    <2>5. Fewer(d, e)
      BY <1>2, <2>3, <2>4, OffersFewer
    <2> QED BY <1>2, <2>5, FewerMoves DEF d
  <1>7. CASE "bye" \notin m.flags /\ ~LeftLately(d, b) /\ takes # {}
    <2>1. PICK g \in takes : \E h \in TakeVersion(a, TakeFlags(g, m), m, first) :
                                 e \in OfferSlots(OweReply(h, m))
      BY <1>1, <1>7
    <2>2. PICK h \in TakeVersion(a, TakeFlags(g, m), m, first) : e \in OfferSlots(OweReply(h, m))
      BY <2>1
    <2> DEFINE base == IF first THEN clear ELSE d
               t == TakeFlags(g, m)
               o == OweReply(h, m)
    <2>3. Near(base, g, b) /\ g.rec[b].state # "none" /\ base \in Directories
      <3>1. CASE first
        BY <1>2, <1>3, <3>1, RecordTakeNear
      <3>2. CASE ~first
        BY <1>2, <3>2, NearItself
      <3> QED BY <3>1, <3>2
    <2> HIDE DEF base, takes, heard
    <2>4. g \in Directories
      BY <2>3 DEF Near, Alike
    <2>5. Near(g, t, b) /\ t.rec[b].state = "active"
      BY <1>2, <2>3, <2>4, TakeFlagsNear
    <2> HIDE DEF t
    <2>6. t \in Directories
      BY <2>5 DEF Near, Alike
    <2>7. Near(t, h, b) /\ h.rec[b].state = "active"
      BY <1>2, <2>2, <2>5, <2>6, TakeVersionNear DEF t
    <2>8. h \in Directories
      BY <2>7 DEF Near, Alike
    <2>9. Steady(h, o)
      BY <1>2, <2>7, <2>8, OweReplySteady
    <2>10. o \in Directories /\ e \in OfferSlots(o)
      BY <2>2, <2>9 DEF Steady, Alike
    <2> HIDE DEF o
    <2>11. Steady(o, e)
      BY <2>10, OfferSlotsSteady
    <2>12. Near(h, o, b) /\ Near(o, e, b)
      BY <1>2, <2>8, <2>9, <2>10, <2>11, SteadyIs
    <2>13. Near(base, t, b)
      BY <1>2, <2>3, <2>5, NearTrans
    <2>14. Near(base, h, b)
      BY <1>2, <2>3, <2>7, <2>13, NearTrans
    <2>15. Near(base, o, b)
      BY <1>2, <2>3, <2>12, <2>14, NearTrans
    <2>16. Near(base, e, b)
      BY <1>2, <2>3, <2>12, <2>15, NearTrans
    <2>17. Fewer(d, base)
      <3>1. Alike(d, d) /\ \A x \in Node : Loses(d.rec[x], d.rec[x])
        BY <1>2 DEF Alike, Loses
      <3>2. Fewer(d, d)
        BY <1>2, <3>1, AlikeFewer
      <3> QED BY <1>3, <3>2 DEF base
    <2>18. SlotsFit(e) /\ RecordsFit(e)
      BY <1>2, <2>16, <2>17, FewerFits DEF Near, Sound
    <2>19. e \in Directories /\ e.left = d.left /\ d.left \in SUBSET Node
      BY <1>2, <2>16, <2>17, Parts DEF Near, Alike, Fewer
    <2>20. \A x \in e.left : e.rec[x].state = "none"
      <3> TAKE x \in e.left
      <3>1. x # b /\ x \in Node /\ d.rec[x].state = "none"
        BY <1>2, <1>7, <2>19 DEF LeftLately, Sound
      <3>2. base.rec[x].state = "none"
        BY <2>17, <3>1 DEF Fewer, Loses
      <3> QED BY <2>16, <3>1, <3>2 DEF Near, Stays, Loses
    <2>21. MatchesKept(d, e)
      <3> SUFFICES ASSUME NEW x \in Node, NEW c \in Node,
                          d.rec[x].slot = "match", d.rec[x].state = "active",
                          d.rec[c].slot = "none", e.rec[c].slot # "none",
                          setup.endpoint[x] # setup.endpoint[c]
                   PROVE  e.rec[x].slot = "match"
        BY DEF MatchesKept
      <3>1. base.rec[c].slot = "none"
        BY <2>17 DEF Fewer, Loses
      <3>2. c = b
        BY <2>16, <3>1 DEF Near, Stays, Loses
      <3>3. base.rec[x] = d.rec[x] /\ x # b
        BY <1>3, <3>2 DEF base
      <3> QED BY <2>16, <3>3 DEF Near, Stays
    <2> QED BY <2>18, <2>19, <2>20, <2>21 DEF Moves, Sound, d
  <1> QED BY <1>4, <1>5, <1>6, <1>7
-----------------------------------------------------------------------------
(* What the rest of a node does. *)

LEMMA SelvesSet ==
    ASSUME NEW s \in [Node -> Selves], NEW a \in Node, NEW p \in BOOLEAN, NEW v \in Int
    PROVE  /\ [s EXCEPT ![a].started = p] \in [Node -> Selves]
           /\ [s EXCEPT ![a].resend = p] \in [Node -> Selves]
           /\ [s EXCEPT ![a].fresh = p] \in [Node -> Selves]
           /\ [s EXCEPT ![a].solicit = p] \in [Node -> Selves]
           /\ [s EXCEPT ![a].ver = v] \in [Node -> Selves]
           /\ [s EXCEPT ![a].changed = v] \in [Node -> Selves]
           /\ [s EXCEPT ![a].repeats = v] \in [Node -> Selves]
  <1>1. s[a] \in Selves
    OBVIOUS
  <1>2. [s EXCEPT ![a].started = p] \in [Node -> Selves]
    BY <1>1 DEF Selves
  <1>3. [s EXCEPT ![a].resend = p] \in [Node -> Selves]
    BY <1>1 DEF Selves
  <1>4. [s EXCEPT ![a].fresh = p] \in [Node -> Selves]
    BY <1>1 DEF Selves
  <1>5. [s EXCEPT ![a].solicit = p] \in [Node -> Selves]
    BY <1>1 DEF Selves
  <1>6. [s EXCEPT ![a].ver = v] \in [Node -> Selves]
    BY <1>1 DEF Selves
  <1>7. [s EXCEPT ![a].changed = v] \in [Node -> Selves]
    BY <1>1 DEF Selves
  <1>8. [s EXCEPT ![a].repeats = v] \in [Node -> Selves]
    BY <1>1 DEF Selves
  <1> QED BY <1>2, <1>3, <1>4, <1>5, <1>6, <1>7, <1>8

LEMMA SelvesKeep ==
    ASSUME self \in [Node -> Selves], clock \in Int, setup \in Setups, NEW a \in Node
    PROVE  /\ Open(a) \/ Leave(a) \/ Crash(a) => self' \in [Node -> Selves]
           /\ Opening(a) => self' \in [Node -> Selves]
           /\ SendSolicit(a) \/ RepeatOpening(a) \/ Announce(a) => self' \in [Node -> Selves]
           /\ Solicit(a) => self' \in [Node -> Selves]
           /\ Readvertise(a, ~Gathering) => self' \in [Node -> Selves]
  <1> DEFINE N == [Node -> Selves]
  <1>1. setup.repeats \in Int /\ TRUE \in BOOLEAN /\ FALSE \in BOOLEAN
    BY DiscoveryAssumption
  <1>2. self[a].started \in BOOLEAN /\ self[a].ver + 1 \in Int /\ self[a].repeats - 1 \in Int
    BY DEF Selves
  <1>3. Open(a) \/ Leave(a) \/ Crash(a) => self' \in [Node -> Selves]
    <2>1. self[a] \in Selves
      OBVIOUS
    <2>2. Open(a) => self' \in [Node -> Selves]
      BY <2>1 DEF Open, Selves
    <2>3. Leave(a) => self' \in [Node -> Selves]
      BY <2>1 DEF Leave, Selves
    <2>4. Crash(a) => self' \in [Node -> Selves]
      BY <2>1 DEF Crash, Selves
    <2> QED BY <2>2, <2>3, <2>4
  <1>4. Opening(a) => self' \in [Node -> Selves]
    <2> SUFFICES ASSUME Opening(a) PROVE self' \in N
      OBVIOUS
    <2> DEFINE s1 == [self EXCEPT ![a].started = TRUE]
               s2 == [s1 EXCEPT ![a].changed = clock]
               s3 == [s2 EXCEPT ![a].resend = FALSE]
               s4 == [s3 EXCEPT ![a].fresh = FALSE]
               s5 == [s4 EXCEPT ![a].solicit = FALSE]
               s6 == [s5 EXCEPT ![a].repeats = setup.repeats]
    <2>1. self' = s6
      BY DEF Opening
    <2>2. s1 \in N
      BY <1>1, SelvesSet
    <2> HIDE DEF s1
    <2>3. s2 \in N
      BY <2>2, SelvesSet
    <2> HIDE DEF s2
    <2>4. s3 \in N
      BY <1>1, <2>3, SelvesSet
    <2> HIDE DEF s3
    <2>5. s4 \in N
      BY <1>1, <2>4, SelvesSet
    <2> HIDE DEF s4
    <2>6. s5 \in N
      BY <1>1, <2>5, SelvesSet
    <2> HIDE DEF s5
    <2>7. s6 \in N
      BY <1>1, <2>6, SelvesSet
    <2> QED BY <2>1, <2>7, Zenon
  <1>5. SendSolicit(a) \/ RepeatOpening(a) \/ Announce(a) => self' \in [Node -> Selves]
    <2> DEFINE s1 == [self EXCEPT ![a].solicit = FALSE]
               s2 == [self EXCEPT ![a].repeats = self[a].repeats - 1]
               s3 == [self EXCEPT ![a].resend = FALSE]
               Quiet(s) == [s EXCEPT ![a].fresh = FALSE]
    <2>1. SendSolicit(a) \/ RepeatOpening(a) \/ Announce(a) =>
              self' = Quiet(s1) \/ self' = Quiet(s2) \/ self' = Quiet(s3)
      BY DEF SendSolicit, RepeatOpening, Announce
    <2>2. s1 \in N /\ s2 \in N /\ s3 \in N
      BY <1>1, <1>2, SelvesSet
    <2> HIDE DEF s1, s2, s3
    <2>3. Quiet(s1) \in N /\ Quiet(s2) \in N /\ Quiet(s3) \in N
      BY <1>1, <2>2, SelvesSet
    <2> HIDE DEF Quiet
    <2> QED BY <2>1, <2>3
  <1>6. Solicit(a) => self' \in [Node -> Selves]
    <2>1. [self EXCEPT ![a].solicit = TRUE] \in N
      BY <1>1, SelvesSet
    <2> QED BY <2>1, Zenon DEF Solicit
  <1>7. Readvertise(a, ~Gathering) => self' \in [Node -> Selves]
    <2> SUFFICES ASSUME Readvertise(a, ~Gathering) PROVE self' \in N
      OBVIOUS
    <2> DEFINE s1 == [self EXCEPT ![a].ver = self[a].ver + 1]
               s2 == [s1 EXCEPT ![a].changed = clock]
               s3 == [s2 EXCEPT ![a].resend = TRUE]
               s4 == [s3 EXCEPT ![a].fresh = self[a].started]
    <2>1. self' = s4
      BY DEF Readvertise
    <2>2. s1 \in N
      BY <1>2, SelvesSet
    <2> HIDE DEF s1
    <2>3. s2 \in N
      BY <2>2, SelvesSet
    <2> HIDE DEF s2
    <2>4. s3 \in N
      BY <1>1, <2>3, SelvesSet
    <2> HIDE DEF s3
    <2>5. s4 \in N
      BY <1>2, <2>4, SelvesSet
    <2> QED BY <2>1, <2>5, Zenon
  <1> QED BY <1>3, <1>4, <1>5, <1>6, <1>7

LEMMA DatagramReadable ==
    ASSUME self \in [Node -> Selves], NEW a \in Node, NEW b \in Node, NEW flags, NEW blob
    PROVE  Readable(Datagram(a, b, flags, blob))
  BY DEF Datagram, Readable, Selves

LEMMA GroupSendReadable ==
    ASSUME self \in [Node -> Selves], NEW a \in Node, NEW flags, NEW blob, NEW m \in GroupSend(a, flags, blob)
    PROVE  Readable(m)
  <1>1. Reach[a] \subseteq Node /\ Slotted(dir[a]) \subseteq Node
    BY DiscoveryAssumption DEF Slotted
  <1>2. \/ \E b \in Node : m = Datagram(a, b, flags, blob)
        \/ \E b \in Node : m = Datagram(a, b, flags \cup {"one"}, blob)
    BY <1>1 DEF GroupSend
  <1> QED BY <1>2, DatagramReadable
-----------------------------------------------------------------------------
(* The actions. *)

LEMMA NewDirectoryIs ==
    ASSUME setup \in Setups
    PROVE  /\ NewDirectory \in Directories /\ Sound(NewDirectory)
           /\ \A d : MatchesKept(d, NewDirectory)
  <1>1. /\ NewDirectory.cap = Cap /\ NewDirectory.left = {}
        /\ NewDirectory.rec = [b \in Node |-> Blank]
    BY DEF NewDirectory
  <1>2. NewDirectory.rec \in [Node -> Records]
    BY <1>1, BlankIs
  <1>3. NewDirectory \in Directories
    BY <1>2, DiscoveryAssumption DEF NewDirectory, Directories
  <1>4. Slotted(NewDirectory) = {} /\ Known(NewDirectory) = {}
    BY <1>1, BlankIs DEF Slotted, Known
  <1>5. Cardinality({}) = 0 /\ setup.recs \in Nat /\ Cap \in Nat
    BY DiscoveryAssumption, FS_EmptySet
  <1>6. Sound(NewDirectory)
    BY <1>1, <1>4, <1>5 DEF Sound, SlotsFit, RecordsFit
  <1>7. \A d : MatchesKept(d, NewDirectory)
    BY <1>1, BlankIs DEF MatchesKept
  <1> QED BY <1>3, <1>6, <1>7

LEMMA ReplayFewer ==
    ASSUME NEW a, NEW va, NEW d \in Directories, NEW e \in ReplayPeers(a, va, d)
    PROVE  Fewer(d, e)
  <1> DEFINE held == {b \in Slotted(d) : d.rec[b].state = "active"}
             f == [b \in Node |-> IF b \in held THEN RejudgeAt(a, va, d, b).rec[b] ELSE d.rec[b]]
             w == [d EXCEPT !.rec = f]
             p == w.opened \/ \E b \in held : RejudgeAt(a, va, d, b).opened
             u == [w EXCEPT !.opened = p]
  <1>1. e \in OfferSlots(u) /\ p \in BOOLEAN
    BY DEF ReplayPeers
  <1>2. \A b \in Node : RejudgeAt(a, va, d, b).rec[b] \in Records /\ Loses(d.rec[b], RejudgeAt(a, va, d, b).rec[b])
    BY RejudgeFewer, Parts DEF Fewer
  <1>3. f \in [Node -> Records] /\ \A b \in Node : Loses(d.rec[b], f[b])
    BY <1>2, Parts DEF Loses
  <1> HIDE DEF f, p
  <1>4. Alike(d, w) /\ w.rec = f
    BY <1>3, RecKeeps
  <1> HIDE DEF w
  <1>5. Alike(d, u) /\ u.rec = w.rec
    BY <1>1, <1>4, MarkIs
  <1> HIDE DEF u
  <1>6. Fewer(d, u)
    BY <1>3, <1>4, <1>5, AlikeFewer
  <1> QED BY <1>1, <1>6, OffersFewer

LEMMA RefetchUnmatchedSteady ==
    ASSUME NEW a, NEW va, NEW d \in Directories
    PROVE  Steady(d, RefetchUnmatched(a, va, d))
  <1>1. PICK S : RefetchUnmatched(a, va, d) =
                   [d EXCEPT !.rec = [b \in Node |-> IF b \in S THEN Offer(d.rec[b]) ELSE d.rec[b]]]
    <2> DEFINE idle(r) == /\ r.state = "active" /\ r.slot = "none" /\ r.want = "no"
                          /\ "full" \notin r.flags
               cannot(b, r) == "filter" \in r.flags /\ r.adv <= r.ver /\ ~Meets(a, va, b, r.ver)
               S == {b \in Node : idle(d.rec[b]) /\ ~cannot(b, d.rec[b])}
    <2>1. [b \in Node |-> IF idle(d.rec[b]) /\ ~cannot(b, d.rec[b]) THEN Offer(d.rec[b]) ELSE d.rec[b]]
            = [b \in Node |-> IF b \in S THEN Offer(d.rec[b]) ELSE d.rec[b]]
      OBVIOUS
    <2>2. RefetchUnmatched(a, va, d) =
            [d EXCEPT !.rec = [b \in Node |-> IF idle(d.rec[b]) /\ ~cannot(b, d.rec[b]) THEN Offer(d.rec[b]) ELSE d.rec[b]]]
      BY DEF RefetchUnmatched
    <2> HIDE DEF idle, cannot, S
    <2> QED BY <2>1, <2>2, Zenon
  <1> DEFINE f == [b \in Node |-> IF b \in S THEN Offer(d.rec[b]) ELSE d.rec[b]]
  <1>2. \A x \in Node : d.rec[x] \in Records /\ Kept(d.rec[x], Offer(d.rec[x])) /\ Kept(d.rec[x], d.rec[x])
    BY Parts, OfferKeeps DEF Kept
  <1>3. f \in [Node -> Records] /\ \A x \in Node : f[x].state = d.rec[x].state /\ f[x].slot = d.rec[x].slot
    BY <1>2 DEF Kept
  <1>4. RefetchUnmatched(a, va, d) = [d EXCEPT !.rec = f]
    BY <1>1
  <1> HIDE DEF f
  <1>5. Alike(d, [d EXCEPT !.rec = f]) /\ [d EXCEPT !.rec = f].rec = f
    BY <1>3, RecKeeps
  <1>6. Alike(d, RefetchUnmatched(a, va, d)) /\ RefetchUnmatched(a, va, d).rec = f
    BY <1>4, <1>5, Zenon
  <1> QED BY <1>3, <1>6 DEF Steady

\* one directory moves
OneMoves == \E a \in Node : \E e : Moves(dir[a], e) /\ dir' = [dir EXCEPT ![a] = e]

LEMMA ReadvertiseMoves ==
    ASSUME DiscoveryInv, NEW a \in Node, Readvertise(a, ~Gathering)
    PROVE  OneMoves
  <1> DEFINE va == self[a].ver + 1
  <1>1. dir[a] \in Directories /\ Sound(dir[a])
    BY DEF DiscoveryInv, Typed
  <1>2. PICK d \in ReplayPeers(a, va, dir[a]) :
            dir' = [dir EXCEPT ![a] = IF ~Gathering THEN RefetchUnmatched(a, va, d) ELSE d]
    BY DEF Readvertise
  <1>3. Fewer(dir[a], d)
    BY <1>1, <1>2, ReplayFewer
  <1>4. d \in Directories
    BY <1>3 DEF Fewer
  <1>5. Fewer(d, RefetchUnmatched(a, va, d))
    BY <1>4, RefetchUnmatchedSteady, SteadyIs
  <1>6. Fewer(dir[a], RefetchUnmatched(a, va, d))
    BY <1>1, <1>3, <1>5, FewerTrans
  <1>7. Moves(dir[a], d) /\ Moves(dir[a], RefetchUnmatched(a, va, d))
    BY <1>1, <1>3, <1>6, FewerMoves
  <1> QED BY <1>2, <1>7 DEF OneMoves

LEMMA PollTargetedMoves ==
    ASSUME DiscoveryInv, NEW a \in Node, NEW b \in Node, PollTargeted(a, b)
    PROVE  OneMoves
  <1> DEFINE r    == dir[a].rec[b]
             ask  == r.owed \cap AskBits # {}
             last == ask /\ r.tries <= 1
             q1   == Settle(r, AskBits \cup {"reply"})
             q2   == Settle(r, {"reply"})
             s1   == [q1 EXCEPT !.flags = q1.flags \cup {"missed"}]
             t2   == IF ask THEN q2.tries - 1 ELSE q2.tries
             s2   == [q2 EXCEPT !.tries = t2]
             r1   == IF last THEN s1 ELSE s2
             d1   == With(dir[a], b, r1)
  <1>1. dir[a] \in Directories /\ Sound(dir[a]) /\ r \in Records
    BY Parts DEF DiscoveryInv, Typed
  <1>2. dir' = [dir EXCEPT ![a] = RefetchDone(d1, b)] \/ dir' = [dir EXCEPT ![a] = d1]
    BY DEF PollTargeted
  <1>3. Kept(r, q1) /\ Kept(r, q2)
    BY <1>1, SettleKeeps
  <1> HIDE DEF r, q1, q2, last
  <1>4. q1 \in Records /\ q2 \in Records
    BY <1>3 DEF Kept
  <1>5. q1.flags \cup {"missed"} \in SUBSET Flags /\ t2 \in Int
    BY <1>4, Fields DEF Flags
  <1> HIDE DEF t2
  <1>6. Kept(q1, s1)
    BY <1>4, <1>5, PlainKeeps, Values, Zenon
  <1>7. Kept(q2, s2)
    BY <1>4, <1>5, PlainKeeps, Values, Zenon
  <1> HIDE DEF s1, s2
  <1>8. Kept(r, r1)
    BY <1>3, <1>6, <1>7 DEF Kept
  <1> HIDE DEF r1
  <1>9. Steady(dir[a], d1)
    BY <1>1, <1>8, WithSteady DEF r
  <1>10. d1 \in Directories
    BY <1>9 DEF Steady, Alike
  <1> HIDE DEF d1
  <1>11. Steady(d1, RefetchDone(d1, b))
    BY <1>10, RefetchDoneSteady
  <1>12. Steady(dir[a], RefetchDone(d1, b))
    BY <1>9, <1>11 DEF Steady, Alike
  <1>13. Moves(dir[a], d1) /\ Moves(dir[a], RefetchDone(d1, b))
    BY <1>1, <1>9, <1>12, SteadyMoves
  <1> QED BY <1>2, <1>13 DEF OneMoves

LEMMA SweepDropMoves ==
    ASSUME DiscoveryInv, NEW a \in Node, NEW b \in Node, SweepDrop(a, b)
    PROVE  OneMoves
  <1> DEFINE r  == dir[a].rec[b]
             s  == [r EXCEPT !.state = "dropped", !.owed = {}]
             w  == With(dir[a], b, s)
             d1 == RefetchDone(w, b)
             p  == d1.opened \/ d1.rec[b].slot # "none"
             u  == [d1 EXCEPT !.opened = p]
  <1>1. dir[a] \in Directories /\ Sound(dir[a]) /\ r \in Records /\ r.state = "active"
    BY Parts DEF DiscoveryInv, Typed, SweepDrop
  <1>2. PICK d \in OfferSlots(u) : dir' = [dir EXCEPT ![a] = d]
    BY DEF SweepDrop
  <1>3. r \in AnyRecord
    BY <1>1, Fields
  <1>4. s \in AnyRecord /\ s.state = "dropped" /\ s.slot = r.slot /\ s.owed = {}
    BY <1>3, Values, Zenon DEF AnyRecord
  <1> HIDE DEF s
  <1>5. s \in Records
    BY <1>4 DEF Records
  <1>6. /\ Alike(dir[a], w) /\ w.rec[b] = s
        /\ \A x \in Node \ {b} : w.rec[x] = dir[a].rec[x]
    BY <1>1, <1>5, WithIs
  <1> HIDE DEF w
  <1>7. \A x \in Node : Loses(dir[a].rec[x], w.rec[x])
    BY <1>1, <1>4, <1>6 DEF Loses
  <1>8. Fewer(dir[a], w) /\ w \in Directories
    BY <1>1, <1>6, <1>7, AlikeFewer DEF Alike
  <1>9. Steady(w, d1)
    BY <1>8, RefetchDoneSteady
  <1> HIDE DEF d1
  <1>10. Alike(w, d1) /\ p \in BOOLEAN
    BY <1>9 DEF Steady
  <1> HIDE DEF p
  <1>11. Alike(w, u) /\ u.rec = d1.rec
    BY <1>8, <1>10, MarkIs
  <1> HIDE DEF u
  <1>12. Steady(w, u)
    BY <1>9, <1>11 DEF Steady
  <1>13. Fewer(w, u)
    BY <1>8, <1>12, SteadyIs
  <1>14. Fewer(dir[a], u)
    BY <1>1, <1>8, <1>13, FewerTrans
  <1>15. Fewer(dir[a], d)
    BY <1>1, <1>2, <1>14, OffersFewer
  <1> QED BY <1>1, <1>2, <1>15, FewerMoves DEF OneMoves

LEMMA PulledMoves ==
    ASSUME DiscoveryInv, NEW a \in Node, NEW b \in Node, Pulled(a, b)
    PROVE  OneMoves
  <1> DEFINE r == dir[a].rec[b]
             s == [r EXCEPT !.got = r.ver]
             w == With(dir[a], b, s)
             u == RejudgeAt(a, self[a].ver, w, b)
  <1>1. dir[a] \in Directories /\ Sound(dir[a]) /\ r \in Records
    BY Parts DEF DiscoveryInv, Typed
  <1>2. PICK d \in OfferSlots(u) : dir' = [dir EXCEPT ![a] = d]
    BY DEF Pulled
  <1>3. r.ver \in Int
    BY <1>1, Fields
  <1>4. Kept(r, s)
    BY <1>1, <1>3, PlainKeeps, Values, Zenon
  <1> HIDE DEF s
  <1>5. Fewer(dir[a], w)
    BY <1>1, <1>4, WithSteady, SteadyIs
  <1>6. w \in Directories
    BY <1>5 DEF Fewer
  <1> HIDE DEF w
  <1>7. Fewer(w, u)
    BY <1>6, RejudgeFewer
  <1> HIDE DEF u
  <1>8. Fewer(dir[a], u)
    BY <1>1, <1>5, <1>7, FewerTrans
  <1>9. Fewer(dir[a], d)
    BY <1>1, <1>2, <1>8, OffersFewer
  <1> QED BY <1>1, <1>2, <1>9, FewerMoves DEF OneMoves

LEMMA GrowMoves ==
    ASSUME DiscoveryInv, NEW a \in Node, Grow(a)
    PROVE  OneMoves
  <1> DEFINE d == dir[a]
             wanted == {b \in Node : Waiting(d.rec[b])} \cup Slotted(d)
             w1 == [d EXCEPT !.opened = TRUE]
             w2 == [w1 EXCEPT !.misses = FALSE]
             k  == IF Cardinality(wanted) > w2.cap THEN Cardinality(wanted) ELSE w2.cap
             u  == [w2 EXCEPT !.cap = k]
  <1>1. d \in Directories /\ Sound(d)
    BY DEF DiscoveryInv, Typed
  <1>2. PICK e \in OfferSlots(u) : dir' = [dir EXCEPT ![a] = e]
    BY DEF Grow
  <1>3. wanted \subseteq Node
    BY DEF Slotted
  <1>4. Cardinality(wanted) \in Nat
    BY <1>3, NodesFinite
  <1> HIDE DEF d, wanted
  <1>5. Alike(d, w1) /\ w1.rec = d.rec
    BY <1>1, MarkIs DEF Alike
  <1> HIDE DEF w1
  <1>6. Alike(d, w2) /\ w2.rec = d.rec
    BY <1>1, <1>5, MarkIs
  <1> HIDE DEF w2
  <1>7. w2 \in Directories /\ w2.cap = d.cap /\ w2.left = d.left /\ d.cap \in Nat
    BY <1>1, <1>6, Parts DEF Alike
  <1>8. k \in Nat /\ k >= d.cap
    BY <1>4, <1>7
  <1> HIDE DEF k
  <1>9. u \in Directories /\ u.rec = w2.rec /\ u.cap = k /\ u.left = w2.left
    BY <1>7, <1>8, Zenon DEF Directories
  <1> HIDE DEF u
  <1>10. Fewer(d, u)
    BY <1>6, <1>7, <1>8, <1>9 DEF Fewer, Loses
  <1>11. Fewer(d, e)
    BY <1>1, <1>2, <1>10, OffersFewer
  <1> QED BY <1>1, <1>2, <1>11, FewerMoves DEF OneMoves, d

LEMMA PollLooseMoves ==
    ASSUME DiscoveryInv, NEW a \in Node, PollLoose(a)
    PROVE  OneMoves
  <1>1. dir[a] \in Directories /\ Sound(dir[a])
    BY DEF DiscoveryInv, Typed
  <1>2. PICK l \in dir[a].loose : dir' = [dir EXCEPT ![a] = [dir[a] EXCEPT !.loose = dir[a].loose \ {l}]]
    BY DEF PollLoose
  <1> DEFINE d == dir[a]
             q == d.loose \ {l}
             e == [d EXCEPT !.loose = q]
  <1>3. q \in SUBSET Loose /\ TRUE \in BOOLEAN
    BY <1>1, Parts
  <1>4. dir' = [dir EXCEPT ![a] = e]
    BY <1>2
  <1> HIDE DEF d, q
  <1>5. Alike(d, e) /\ e.rec = d.rec
    BY <1>1, <1>3, MarksKeep, Zenon DEF d
  <1> HIDE DEF e
  <1>6. Steady(d, e)
    BY <1>5 DEF Steady
  <1> QED BY <1>1, <1>4, <1>6, SteadyMoves DEF OneMoves, d

LEMMA LeftExpiresMoves ==
    ASSUME DiscoveryInv, NEW a \in Node, NEW b \in Node, LeftExpires(a, b)
    PROVE  OneMoves
  <1> DEFINE d == dir[a]
             k == d.left \ {b}
             e == [d EXCEPT !.left = k]
  <1>1. d \in Directories /\ Sound(d)
    BY DEF DiscoveryInv, Typed
  <1>2. k \in SUBSET Node /\ k \subseteq d.left
    BY <1>1, Parts
  <1>3. dir' = [dir EXCEPT ![a] = e]
    BY DEF LeftExpires
  <1> HIDE DEF d, k
  <1>4. e \in Directories /\ e.rec = d.rec /\ e.cap = d.cap /\ e.left = k
    BY <1>1, <1>2, Zenon DEF Directories
  <1> HIDE DEF e
  <1>5. Slotted(e) = Slotted(d) /\ Known(e) = Known(d)
    BY <1>4 DEF Slotted, Known
  <1>6. Sound(e)
    BY <1>1, <1>2, <1>4, <1>5 DEF Sound, SlotsFit, RecordsFit
  <1>7. MatchesKept(d, e)
    BY <1>4 DEF MatchesKept
  <1> QED BY <1>3, <1>4, <1>6, <1>7 DEF OneMoves, Moves, d

LEMMA OffersMove ==
    ASSUME DiscoveryInv, NEW a \in Node, UpdateOffers(a) \/ \E b \in Node : SweepGone(a, b)
    PROVE  OneMoves
  <1>1. dir[a] \in Directories /\ Sound(dir[a])
    BY DEF DiscoveryInv, Typed
  <1>2. CASE UpdateOffers(a)
    <2>1. PICK e \in OfferSlots(dir[a]) : dir' = [dir EXCEPT ![a] = e]
      BY <1>2 DEF UpdateOffers
    <2>2. Steady(dir[a], e)
      BY <1>1, <2>1, OfferSlotsSteady
    <2> QED BY <1>1, <2>1, <2>2, SteadyMoves DEF OneMoves
  <1>3. CASE \E b \in Node : SweepGone(a, b)
    <2>1. PICK b \in Node : SweepGone(a, b)
      BY <1>3
    <2>2. PICK e \in OfferSlots(Gone(dir[a], b)) : dir' = [dir EXCEPT ![a] = e]
      BY <2>1 DEF SweepGone
    <2>3. Fewer(dir[a], Gone(dir[a], b))
      BY <1>1, <2>1, GoneFewer
    <2>4. Fewer(dir[a], e)
      BY <1>1, <2>2, <2>3, OffersFewer
    <2> QED BY <1>1, <2>2, <2>4, FewerMoves DEF OneMoves
  <1> QED BY <1>2, <1>3

LEMMA DeliverMoves ==
    ASSUME DiscoveryInv, NEW m \in net, Deliver(m)
    PROVE  OneMoves \/ dir' = dir
  <1>1. Readable(m) /\ m.dst \in Node
    BY DEF DiscoveryInv, Typed, Readable
  <1>2. CASE Live(m.dst)
    <2>1. PICK e \in OnDatagram(m.dst, m) : dir' = [dir EXCEPT ![m.dst] = e]
      BY <1>2 DEF Deliver
    <2>2. dir[m.dst] \in Directories /\ Sound(dir[m.dst])
      BY <1>1 DEF DiscoveryInv, Typed
    <2>3. Moves(dir[m.dst], e)
      BY <1>1, <2>1, <2>2, OnDatagramMoves
    <2> QED BY <1>1, <2>1, <2>3 DEF OneMoves
  <1>3. CASE ~Live(m.dst)
    BY <1>3 DEF Deliver
  <1> QED BY <1>2, <1>3

LEMMA GoneNodeMoves ==
    ASSUME DiscoveryInv, NEW a \in Node, Leave(a) \/ Crash(a)
    PROVE  OneMoves
  <1>1. dir' = [dir EXCEPT ![a] = NewDirectory]
    BY DEF Leave, Crash
  <1>2. Moves(dir[a], NewDirectory)
    BY NewDirectoryIs DEF Moves, DiscoveryInv, Typed
  <1> QED BY <1>1, <1>2 DEF OneMoves

\* Every step moves one directory or none.
LEMMA NextMoves ==
    ASSUME DiscoveryInv, [Next]_vars
    PROVE  OneMoves \/ dir' = dir
  <1>1. CASE Tick
    BY <1>1 DEF Tick
  <1>2. ASSUME NEW a \in Node,
               Open(a) \/ Opening(a) \/ SendSolicit(a) \/ RepeatOpening(a) \/ Announce(a) \/ Solicit(a)
        PROVE  dir' = dir
    BY <1>2 DEF Open, Opening, SendSolicit, RepeatOpening, Announce, Solicit
  <1>3. ASSUME NEW a \in Node,
               PollLoose(a) \/ UpdateOffers(a) \/ Grow(a) \/ Leave(a) \/ Crash(a) \/ Readvertise(a, ~Gathering)
        PROVE  OneMoves
    BY <1>3, PollLooseMoves, OffersMove, GrowMoves, GoneNodeMoves, ReadvertiseMoves
  <1>4. ASSUME NEW a \in Node, NEW b \in Others(a),
               PollTargeted(a, b) \/ SweepDrop(a, b) \/ SweepGone(a, b) \/ LeftExpires(a, b) \/ Pulled(a, b)
        PROVE  OneMoves
    <2>1. b \in Node
      BY DEF Others
    <2> QED BY <1>4, <2>1, PollTargetedMoves, SweepDropMoves, OffersMove, LeftExpiresMoves, PulledMoves
  <1>5. ASSUME NEW m \in net, Deliver(m) \/ Lose(m)
        PROVE  OneMoves \/ dir' = dir
    BY <1>5, DeliverMoves DEF Lose
  <1>6. CASE UNCHANGED vars
    BY <1>6 DEF vars
  <1> QED BY <1>1, <1>2, <1>3, <1>4, <1>5, <1>6 DEF Next

LEMMA NextTypes ==
    ASSUME DiscoveryInv, [Next]_vars
    PROVE  /\ self' \in [Node -> Selves] /\ clock' \in Int /\ setup' = setup
           /\ \A m \in net' : Readable(m)
  <1>1. self \in [Node -> Selves] /\ clock \in Int /\ setup \in Setups /\ \A m \in net : Readable(m)
    BY DEF DiscoveryInv, Typed
  <1> USE <1>1
  <1>2. CASE Tick
    BY <1>2 DEF Tick
  <1>3. ASSUME NEW a \in Node, Open(a) \/ Leave(a) \/ Crash(a) \/ Opening(a) \/ SendSolicit(a) \/ RepeatOpening(a)
                                 \/ Announce(a) \/ Solicit(a) \/ Readvertise(a, ~Gathering)
        PROVE  /\ self' \in [Node -> Selves] /\ clock' \in Int /\ setup' = setup
               /\ \A m \in net' : Readable(m)
    <2>1. self' \in [Node -> Selves]
      BY <1>3, SelvesKeep
    <2>2. clock' = clock /\ setup' = setup
      BY <1>3 DEF Open, Leave, Crash, Opening, SendSolicit, RepeatOpening, Announce, Solicit, Readvertise
    <2>3. net' = net \/ \E flags, blob : net' = net \cup GroupSend(a, flags, blob)
      BY <1>3 DEF Open, Leave, Crash, Opening, SendSolicit, RepeatOpening, Announce, Solicit, Readvertise
    <2>4. \A m \in net' : Readable(m)
      BY <2>3, GroupSendReadable
    <2> QED BY <2>1, <2>2, <2>4
  <1>4. ASSUME NEW a \in Node, PollLoose(a)
        PROVE  /\ self' = self /\ clock' = clock /\ setup' = setup
               /\ \A m \in net' : Readable(m)
    <2>1. PICK l \in dir[a].loose : net' = net \cup {Datagram(a, l.to, IF l.full THEN {"full"} ELSE {"one"}, TRUE)}
      BY <1>4 DEF PollLoose
    <2>2. dir[a].loose \in SUBSET Loose
      BY Parts DEF DiscoveryInv, Typed
    <2>3. l.to \in Node
      BY <2>2 DEF Loose
    <2>4. Readable(Datagram(a, l.to, IF l.full THEN {"full"} ELSE {"one"}, TRUE))
      BY <2>3, DatagramReadable
    <2> QED BY <1>4, <2>1, <2>4 DEF PollLoose
  <1>5. ASSUME NEW a \in Node, NEW b \in Node, PollTargeted(a, b)
        PROVE  /\ self' = self /\ clock' = clock /\ setup' = setup
               /\ \A m \in net' : Readable(m)
    <2>1. \E flags : net' = net \cup {Datagram(a, b, flags, TRUE)}
      BY <1>5 DEF PollTargeted
    <2>2. \A flags : Readable(Datagram(a, b, flags, TRUE))
      BY DatagramReadable
    <2> QED BY <1>5, <2>1, <2>2 DEF PollTargeted
  <1>6. ASSUME NEW a \in Node, NEW b \in Node,
               \/ UpdateOffers(a) \/ Grow(a) \/ SweepDrop(a, b)
               \/ SweepGone(a, b) \/ LeftExpires(a, b) \/ Pulled(a, b)
        PROVE  self' = self /\ clock' = clock /\ setup' = setup /\ net' = net
    BY <1>6 DEF UpdateOffers, Grow, SweepDrop, SweepGone, LeftExpires, Pulled
  <1>7. ASSUME NEW m \in net, Deliver(m) \/ Lose(m)
        PROVE  self' = self /\ clock' = clock /\ setup' = setup /\ net' \subseteq net
    BY <1>7 DEF Deliver, Lose
  <1>8. CASE UNCHANGED vars
    BY <1>8 DEF vars
  <1>9. \A a \in Node : Others(a) \subseteq Node
    BY DEF Others
  <1> QED BY <1>2, <1>3, <1>4, <1>5, <1>6, <1>7, <1>8, <1>9 DEF Next

\* The invariant is inductive.
LEMMA NextKeeps ==
    ASSUME DiscoveryInv, [Next]_vars
    PROVE  DiscoveryInv'
  <1>1. /\ self' \in [Node -> Selves] /\ clock' \in Int /\ setup' = setup
        /\ \A m \in net' : Readable(m)
    BY NextTypes
  <1>2. \A d : Sound(d) => Sound(d)'
    BY <1>1 DEF Sound, SlotsFit, RecordsFit, Slotted, Known
  <1>3. OneMoves \/ dir' = dir
    BY NextMoves
  <1>4. dir' \in [Node -> Directories] /\ \A a \in Node : Sound(dir'[a])
    BY <1>3 DEF OneMoves, Moves, DiscoveryInv, Typed
  <1> QED BY <1>1, <1>2, <1>4 DEF DiscoveryInv, Typed

LEMMA InitInv ==
    ASSUME Init
    PROVE  DiscoveryInv
  <1>1. setup \in Setups /\ clock \in Int /\ \A m \in net : Readable(m)
    BY DEF Init
  <1>2. NewDirectory \in Directories /\ Sound(NewDirectory)
    BY <1>1, NewDirectoryIs
  <1>3. dir \in [Node -> Directories] /\ \A a \in Node : Sound(dir[a])
    BY <1>2 DEF Init
  <1>4. self \in [Node -> Selves]
    BY DEF Init, Selves
  <1> QED BY <1>1, <1>3, <1>4 DEF DiscoveryInv, Typed

-----------------------------------------------------------------------------
(* The theorems. *)

\* The inductive invariant of the directories.
THEOREM DirectoryInvariance == Spec => []DiscoveryInv
  <1>1. Init => DiscoveryInv
    BY InitInv
  <1>2. DiscoveryInv /\ [Next]_vars => DiscoveryInv'
    BY NextKeeps
  <1> QED BY <1>1, <1>2, PTL DEF Spec

\* A uuid that said BYE has no record in the directory that heard it until its
\* entry among those that left runs out (left_add and left_lately in
\* discovery/records.c).
THEOREM LeftIsGone == Spec => []LeftStaysGone
  <1>1. DiscoveryInv => LeftStaysGone
    BY DEF DiscoveryInv, Sound, LeftStaysGone
  <1> QED BY <1>1, DirectoryInvariance, PTL

\* No directory ever holds more slots than it has or more records than it may,
\* only a peer with a record holds a slot, and nothing is owed to a peer that is
\* not live (slot_take and record_take).
THEOREM SlotsAreBounded == Spec => []SlotsBounded
  <1>1. DiscoveryInv => SlotsBounded
    <2> SUFFICES ASSUME DiscoveryInv, NEW a \in Node
                 PROVE  /\ Cardinality(Slotted(dir[a])) <= dir[a].cap
                        /\ Cardinality(Known(dir[a])) <= setup.recs
                        /\ Slotted(dir[a]) \subseteq Known(dir[a])
                        /\ \A b \in Node : dir[a].rec[b].owed # {} => dir[a].rec[b].state = "active"
      BY DEF SlotsBounded
    <2>1. dir[a] \in Directories /\ Sound(dir[a])
      BY DEF DiscoveryInv, Typed
    <2>2. \A b \in Node : dir[a].rec[b].owed # {} => dir[a].rec[b].state = "active"
      BY <2>1, Parts, Fields
    <2>3. Slotted(dir[a]) \subseteq Known(dir[a])
      BY <2>1, Parts, Fields DEF Slotted, Known
    <2> QED BY <2>1, <2>2, <2>3 DEF Sound, SlotsFit, RecordsFit
  <1> QED BY <1>1, DirectoryInvariance, PTL

\* Seating one peer never takes the slot of a live match at another endpoint,
\* whatever arrives in whatever order (slot_take).
THEOREM MatchKeepsSlot == Spec => NoMatchEvicted
  <1> DEFINE A == \A a \in Node : \A b, c \in Node :
                      /\ Live(a) /\ Live(a)'
                      /\ dir[a].rec[b].slot = "match" /\ dir[a].rec[b].state = "active"
                      /\ dir[a].rec[c].slot = "none" /\ dir'[a].rec[c].slot # "none"
                      /\ setup.endpoint[b] # setup.endpoint[c]
                      => dir'[a].rec[b].slot = "match"
  <1>1. DiscoveryInv /\ [Next]_vars => A \/ UNCHANGED vars
    <2> SUFFICES ASSUME DiscoveryInv, [Next]_vars, NEW a \in Node
                 PROVE  MatchesKept(dir[a], dir'[a])
      BY DEF MatchesKept
    <2>1. OneMoves \/ dir' = dir
      BY NextMoves
    <2>2. dir \in [Node -> Directories]
      BY DEF DiscoveryInv, Typed
    <2>3. MatchesKept(dir[a], dir[a])
      BY DEF MatchesKept
    <2>4. dir'[a] = dir[a] \/ Moves(dir[a], dir'[a])
      BY <2>1, <2>2 DEF OneMoves
    <2> QED BY <2>3, <2>4 DEF Moves
  <1>2. DiscoveryInv /\ [Next]_vars => [A]_vars
    BY <1>1
  <1> QED BY <1>2, DirectoryInvariance, PTL DEF Spec, NoMatchEvicted

-----------------------------------------------------------------------------
(* Taken as judged. While nobody runs short of slots or records, a record  *)
(* without a slot whose blob was never read comes from one place only: the *)
(* first header of a peer that changed before we did. Two nodes cannot     *)
(* both have changed first.                                                *)

\* Each node has a slot and a record for each other one, and hears the others only.
Roomy ==
    /\ \A a \in Node : a \notin Reach[a]
    /\ Cardinality(Node) <= Cap + 1
    /\ \A s \in Setups : Cardinality(Node) <= s.recs + 1

\* b changed before a did
Elder(a, b) ==
    /\ self[b].started
    /\ self[b].changed < (IF self[a].started THEN self[a].changed ELSE clock)

\* What the record r that a has of b may be: no slot is wanted or refused, and
\* without one it tells of a blob that was judged, is out of date, or was
\* assumed, and then b changed first.
Judged(a, b, r) ==
    /\ r.want = "no" /\ "full" \notin r.flags /\ r.ver <= self[b].ver
    /\ r.state # "none" => b # a /\ self[b].started
    /\ r.state # "none" /\ r.slot = "none" /\ "filter" \notin r.flags /\ r.ver = self[b].ver
         => Elder(a, b)

AllJudged(a, d) == d.loose = {} /\ d.cap >= Cap /\ \A b \in Node : Judged(a, b, d.rec[b])

\* A datagram tells no more than its sender knows, and of the version the
\* sender still has it does not overstate the age.
Dated(m) ==
    /\ m.src # m.dst /\ self[m.src].started /\ "full" \notin m.flags
    /\ m.ver <= self[m.src].ver /\ m.ago \in Int
    /\ m.ver = self[m.src].ver => m.ago <= clock - self[m.src].changed

Aged == \A a \in Node : self[a].ver >= 1 /\ self[a].changed <= clock

AssumeInv ==
    /\ DiscoveryInv /\ Aged
    /\ \A a \in Node : AllJudged(a, dir[a])
    /\ \A m \in net : Dated(m)

\* the record s tells what r does, or less
Minds(r, s) ==
    /\ s \in Records /\ s.want = r.want /\ s.ver = r.ver
    /\ "full" \in s.flags => "full" \in r.flags
    /\ s.state # "none" => r.state # "none"
    /\ s.slot = "none" /\ "filter" \notin s.flags => r.slot = "none" /\ "filter" \notin r.flags

\* a judged record stays judged when it tells less
LEMMA JudgedMinds ==
    ASSUME NEW a, NEW b, NEW r, Judged(a, b, r), NEW s, Minds(r, s)
    PROVE  Judged(a, b, s) /\ s \in Records
  BY DEF Judged, Minds

LEMMA MindsTrans ==
    ASSUME NEW r, NEW s, NEW t, Minds(r, s), Minds(s, t)
    PROVE  Minds(r, t)
  BY DEF Minds

\* s is r but for what is owed, tried, pulled and advertised
Seems(r, s) ==
    /\ s \in Records /\ s.want = r.want /\ s.ver = r.ver /\ s.flags = r.flags
    /\ s.state = r.state /\ s.slot = r.slot

LEMMA SeemsMinds ==
    ASSUME NEW r, NEW s, Seems(r, s)
    PROVE  Minds(r, s)
  BY DEF Seems, Minds

\* what is owed, tried, pulled or advertised may change
LEMMA EditsSeem ==
    ASSUME NEW r \in Records, NEW v \in Int
    PROVE  Seems(r, r) /\ Seems(r, [r EXCEPT !.adv = v]) /\ Seems(r, [r EXCEPT !.got = v])
           /\ Seems(r, [r EXCEPT !.tries = v])
  <1> DEFINE Same(x) == /\ x.want = r.want /\ x.ver = r.ver /\ x.flags = r.flags
                        /\ x.state = r.state /\ x.slot = r.slot
  <1>1. r \in AnyRecord
    BY Fields
  <1>2. Same([r EXCEPT !.adv = v]) /\ Same([r EXCEPT !.got = v]) /\ Same([r EXCEPT !.tries = v])
    BY <1>1, Zenon DEF AnyRecord
  <1>3. [r EXCEPT !.adv = v] \in Records /\ [r EXCEPT !.got = v] \in Records /\ [r EXCEPT !.tries = v] \in Records
    BY PlainKeeps, Values, Zenon DEF Kept
  <1>4. ASSUME NEW x \in Records, Same(x)
        PROVE  Seems(r, x)
    BY <1>4 DEF Seems
  <1>5. Same(r)
    OBVIOUS
  <1> HIDE DEF Same
  <1> QED BY <1>2, <1>3, <1>4, <1>5, Zenon

\* flags changed: only a refusal is not to be added, and the filter not lost
LEMMA FlagsMind ==
    ASSUME NEW r \in Records, NEW f \in SUBSET Flags
    PROVE  LET s == [r EXCEPT !.flags = f] IN
           /\ s \in Records /\ s.want = r.want /\ s.ver = r.ver /\ s.flags = f
           /\ s.state = r.state /\ s.slot = r.slot
  <1>1. r \in AnyRecord
    BY Fields
  <1>2. [r EXCEPT !.flags = f] \in Records
    BY PlainKeeps, Values, Zenon DEF Kept
  <1> QED BY <1>1, <1>2, Zenon DEF AnyRecord

LEMMA SettleSeems ==
    ASSUME NEW r \in Records, NEW bits
    PROVE  Seems(r, Settle(r, bits))
  <1> DEFINE o == r.owed \ bits
             t == IF (r.owed \ bits) \cap AskBits = {} THEN 0 ELSE r.tries
             s == [r EXCEPT !.owed = o, !.tries = t]
  <1>1. Settle(r, bits) = s
    BY DEF Settle
  <1>2. r \in AnyRecord
    BY Fields
  <1>3. s.want = r.want /\ s.ver = r.ver
    BY <1>2, Zenon DEF AnyRecord
  <1> HIDE DEF s
  <1> QED BY <1>1, <1>3, SettleKeeps DEF Seems, Kept

LEMMA AskSeems ==
    ASSUME NEW r \in Records, NEW bit \in Owed
    PROVE  Seems(r, Ask(r, bit))
  <1> DEFINE t == IF r.owed \cap AskBits # {} THEN r.tries ELSE Tries(r)
             s == [r EXCEPT !.owed = r.owed \cup {bit}, !.tries = t]
  <1>1. Ask(r, bit) = r \/ Ask(r, bit) = s
    BY DEF Ask
  <1>2. r \in AnyRecord
    BY Fields
  <1>3. s.want = r.want /\ s.ver = r.ver
    BY <1>2, Zenon DEF AnyRecord
  <1> HIDE DEF s
  <1> QED BY <1>1, <1>3, AskKeeps DEF Seems, Kept

LEMMA FetchCheckSeems ==
    ASSUME NEW r \in Records
    PROVE  Seems(r, FetchCheck(r))
  <1>1. Seems(r, Settle(r, {"fetch"})) /\ Seems(r, r)
    BY SettleSeems, EditsSeem, Values
  <1>2. Seems(r, Ask(r, "fetch"))
    BY AskSeems DEF Owed
  <1> QED BY <1>1, <1>2 DEF FetchCheck

\* an offer only adds to what is owed, or asks again
LEMMA OfferMinds ==
    ASSUME NEW r \in Records
    PROVE  Minds(r, Offer(r))
  <1> DEFINE s == [r EXCEPT !.flags = r.flags \cup {"refetch"}]
  <1>1. r.flags \cup {"refetch"} \in SUBSET Flags
    BY Fields DEF Flags
  <1>2. Offer(r) = FetchCheck(s)
    BY DEF Offer
  <1>3. s \in Records /\ Minds(r, s)
    <2>1. /\ s \in Records /\ s.want = r.want /\ s.ver = r.ver /\ s.flags = r.flags \cup {"refetch"}
          /\ s.state = r.state /\ s.slot = r.slot
      BY <1>1, FlagsMind
    <2> HIDE DEF s
    <2> QED BY <2>1 DEF Minds
  <1> HIDE DEF s
  <1>4. Minds(s, FetchCheck(s))
    BY <1>3, FetchCheckSeems, SeemsMinds
  <1> QED BY <1>2, <1>3, <1>4, MindsTrans

\* what giving the slot back makes of a record, for want of a match
LEMMA GiveBackIs ==
    ASSUME NEW r \in Records
    PROVE  /\ GiveBack(r) \in Records /\ GiveBack(r).want = r.want /\ GiveBack(r).ver = r.ver
           /\ GiveBack(r).flags = r.flags /\ GiveBack(r).state = r.state
  <1> DEFINE x == Settle(r, {"match"})
             y == [x EXCEPT !.slot = "none", !.got = 0]
  <1>1. GiveBack(r) = r \/ GiveBack(r) = y
    BY DEF GiveBack
  <1>2. Seems(r, x)
    BY SettleSeems
  <1> HIDE DEF x
  <1>3. x \in AnyRecord
    BY <1>2 DEF Seems, Records
  <1>4. y.want = x.want /\ y.ver = x.ver
    BY <1>3, Zenon DEF AnyRecord
  <1> HIDE DEF y
  <1> QED BY <1>1, <1>2, <1>4, GiveBackFrees DEF Seems
-----------------------------------------------------------------------------
(* A directory whose records are all judged stays one. *)

\* the directory e is the outcome of a step of a's
Holding(a, e) == e \in Directories /\ AllJudged(a, e)

LEMMA MarkHolds ==
    ASSUME NEW a, NEW d, Holding(a, d), NEW p \in BOOLEAN
    PROVE  /\ Holding(a, [d EXCEPT !.opened = p]) /\ [d EXCEPT !.opened = p].rec = d.rec
           /\ Holding(a, [d EXCEPT !.distrust = p]) /\ [d EXCEPT !.distrust = p].rec = d.rec
           /\ Holding(a, [d EXCEPT !.misses = p]) /\ [d EXCEPT !.misses = p].rec = d.rec
  <1> DEFINE Same(x) == x \in Directories /\ x.cap = d.cap /\ x.loose = d.loose /\ x.rec = d.rec
  <1>1. d \in Directories /\ AllJudged(a, d)
    BY DEF Holding
  <1>2. Same([d EXCEPT !.opened = p]) /\ Same([d EXCEPT !.distrust = p]) /\ Same([d EXCEPT !.misses = p])
    BY <1>1, Zenon DEF Directories
  <1>3. ASSUME NEW x, Same(x)
        PROVE  Holding(a, x) /\ x.rec = d.rec
    BY <1>1, <1>3 DEF Holding, AllJudged
  <1> HIDE DEF Same
  <1> QED BY <1>2, <1>3, Zenon

LEMMA RecHolds ==
    ASSUME NEW a, NEW d, Holding(a, d), NEW f \in [Node -> Records], NEW p \in BOOLEAN,
           \A x \in Node : Judged(a, x, f[x])
    PROVE  /\ Holding(a, [d EXCEPT !.rec = f]) /\ [d EXCEPT !.rec = f].rec = f
           /\ Holding(a, [d EXCEPT !.opened = p, !.rec = f])
  <1> DEFINE Same(x) == x \in Directories /\ x.cap = d.cap /\ x.loose = d.loose /\ x.rec = f
  <1>1. d \in Directories /\ AllJudged(a, d)
    BY DEF Holding
  <1>2. Same([d EXCEPT !.rec = f]) /\ Same([d EXCEPT !.opened = p, !.rec = f])
    BY <1>1, Zenon DEF Directories
  <1>3. ASSUME NEW x, Same(x)
        PROVE  Holding(a, x) /\ x.rec = f
    BY <1>1, <1>3 DEF Holding, AllJudged
  <1> HIDE DEF Same
  <1> QED BY <1>2, <1>3, Zenon

LEMMA WithHolds ==
    ASSUME NEW a, NEW d, Holding(a, d), NEW b \in Node, NEW s \in Records, Judged(a, b, s)
    PROVE  Holding(a, With(d, b, s)) /\ With(d, b, s).rec[b] = s
           /\ \A x \in Node \ {b} : With(d, b, s).rec[x] = d.rec[x]
  <1> DEFINE f == [d.rec EXCEPT ![b] = s]
  <1>1. d \in Directories /\ d.rec \in [Node -> Records] /\ \A x \in Node : Judged(a, x, d.rec[x])
    BY Parts DEF Holding, AllJudged
  <1>2. f \in [Node -> Records] /\ \A x \in Node : f[x] = IF x = b THEN s ELSE d.rec[x]
    BY <1>1
  <1>3. With(d, b, s) = [d EXCEPT !.rec = f]
    BY DEF With
  <1> HIDE DEF f
  <1>4. \A x \in Node : Judged(a, x, f[x])
    BY <1>1, <1>2
  <1>5. Holding(a, [d EXCEPT !.rec = f]) /\ TRUE \in BOOLEAN
    BY <1>2, <1>4, RecHolds
  <1> QED BY <1>1, <1>3, <1>5, WithIs

\* the empty record is judged, whoever it is of
LEMMA BlankJudged ==
    ASSUME self \in [Node -> Selves], Aged, NEW a, NEW b \in Node
    PROVE  Judged(a, b, Blank)
  <1>1. self[b].ver \in Int /\ self[b].ver >= 1
    BY DEF Selves, Aged
  <1> QED BY <1>1 DEF Judged, Blank

LEMMA OffersHold ==
    ASSUME NEW a, NEW d, Holding(a, d), NEW e \in OfferSlots(d)
    PROVE  Holding(a, e)
  <1>1. CASE ~d.opened
    BY <1>1 DEF OfferSlots
  <1>2. CASE d.opened
    <2>1. PICK S : e = [d EXCEPT !.opened = FALSE,
                                 !.rec = [x \in Node |-> IF x \in S THEN Offer(d.rec[x]) ELSE d.rec[x]]]
      BY <1>2 DEF OfferSlots
    <2> DEFINE f == [x \in Node |-> IF x \in S THEN Offer(d.rec[x]) ELSE d.rec[x]]
    <2>2. \A x \in Node : d.rec[x] \in Records /\ Judged(a, x, d.rec[x])
      BY Parts DEF Holding, AllJudged
    <2>3. \A x \in Node : Offer(d.rec[x]) \in Records /\ Judged(a, x, Offer(d.rec[x]))
      BY <2>2, OfferMinds, JudgedMinds
    <2>4. f \in [Node -> Records] /\ \A x \in Node : Judged(a, x, f[x])
      BY <2>2, <2>3
    <2>5. e = [d EXCEPT !.opened = FALSE, !.rec = f]
      BY <2>1
    <2> HIDE DEF f
    <2> QED BY <2>4, <2>5, RecHolds, Zenon
  <1> QED BY <1>1, <1>2

\* a peer that goes leaves an empty record
LEMMA GoneHolds ==
    ASSUME self \in [Node -> Selves], Aged, NEW a, NEW d, Holding(a, d), NEW b \in Node
    PROVE  Holding(a, Gone(d, b))
  <1> DEFINE w == With(d, b, Blank)
             p == w.opened \/ d.rec[b].slot # "none"
  <1>1. Gone(d, b) = [w EXCEPT !.opened = p] /\ p \in BOOLEAN
    BY DEF Gone
  <1>2. Holding(a, w)
    BY BlankJudged, BlankIs, WithHolds
  <1> HIDE DEF w, p
  <1>3. Holding(a, [w EXCEPT !.opened = p])
    BY <1>1, <1>2, MarkHolds
  <1> QED BY <1>1, <1>3, Zenon

LEMMA RefetchDoneHolds ==
    ASSUME NEW a, NEW d, Holding(a, d), NEW b \in Node
    PROVE  /\ Holding(a, RefetchDone(d, b)) /\ RefetchDone(d, b).rec[b].ver = d.rec[b].ver
           /\ RefetchDone(d, b).rec[b].state = d.rec[b].state
           /\ RefetchDone(d, b).rec[b].slot = d.rec[b].slot
           /\ \A x \in Node \ {b} : RefetchDone(d, b).rec[x] = d.rec[x]
  <1> DEFINE r == d.rec[b]
             f == r.flags \ {"refetch"}
             s == [r EXCEPT !.flags = f]
             w == With(d, b, s)
             p == w.opened \/ (r.want # "no" /\ r.slot = "none")
  <1>1. CASE "refetch" \notin r.flags
    BY <1>1 DEF RefetchDone
  <1>2. CASE "refetch" \in r.flags
    <2>1. r \in Records /\ Judged(a, b, r)
      BY Parts DEF Holding, AllJudged
    <2>2. f \in SUBSET Flags
      BY <2>1, Fields
    <2>3. /\ s \in Records /\ s.want = r.want /\ s.ver = r.ver /\ s.flags = f
          /\ s.state = r.state /\ s.slot = r.slot
      BY <2>1, <2>2, FlagsMind
    <2>4. RefetchDone(d, b) = [w EXCEPT !.opened = p] /\ p \in BOOLEAN
      BY <1>2 DEF RefetchDone
    <2> HIDE DEF s
    <2>5. Minds(r, s)
      BY <2>3 DEF Minds
    <2>6. Judged(a, b, s)
      BY <2>1, <2>5, JudgedMinds
    <2>7. Holding(a, w) /\ w.rec[b] = s /\ \A x \in Node \ {b} : w.rec[x] = d.rec[x]
      BY <2>3, <2>6, WithHolds
    <2> HIDE DEF w, p
    <2>8. Holding(a, [w EXCEPT !.opened = p]) /\ [w EXCEPT !.opened = p].rec = w.rec
      BY <2>4, <2>7, MarkHolds
    <2>9. Holding(a, RefetchDone(d, b)) /\ RefetchDone(d, b).rec = w.rec
      BY <2>4, <2>8, Zenon
    <2> QED BY <2>3, <2>7, <2>9
  <1> QED BY <1>1, <1>2

\* where everybody fits a slot is free for b
LEMMA RoomFor ==
    ASSUME Roomy, setup \in Setups, NEW a \in Node, NEW d, Holding(a, d), NEW b \in Node, b # a
    PROVE  /\ d.rec[b].slot = "none" => FreeSlot(d)
           /\ d.rec[b].state = "none" => Cardinality(Known(d)) < setup.recs
  <1> DEFINE rest == (Node \ {a}) \ {b}
  <1>1. IsFiniteSet(Node) /\ Cardinality(Node) \in Nat /\ Cap \in Nat
    BY NodesFinite, DiscoveryAssumption
  <1>2. IsFiniteSet(Node \ {a}) /\ Cardinality(Node \ {a}) = Cardinality(Node) - 1
    BY <1>1, FS_RemoveElement
  <1>3. IsFiniteSet(rest) /\ Cardinality(rest) = Cardinality(Node) - 2
    <2>1. b \in Node \ {a}
      OBVIOUS
    <2>2. IsFiniteSet(rest) /\ Cardinality(rest) = Cardinality(Node \ {a}) - 1
      BY <1>2, <2>1, FS_RemoveElement, Zenon
    <2> QED BY <1>1, <1>2, <2>2
  <1>4. d.rec[a].state = "none" /\ d.cap \in Nat /\ d.cap >= Cap /\ d.rec[a] \in Records
    BY Parts DEF Holding, AllJudged, Judged
  <1>5. d.rec[a].slot = "none"
    BY <1>4, Fields
  <1>6. ASSUME NEW S, S \subseteq rest
        PROVE  Cardinality(S) \in Nat /\ Cardinality(S) <= Cardinality(Node) - 2
    BY <1>3, <1>6, FS_Subset, FS_CardinalityType
  <1>7. d.rec[b].slot = "none" => FreeSlot(d)
    <2> SUFFICES ASSUME d.rec[b].slot = "none" PROVE FreeSlot(d)
      OBVIOUS
    <2>1. Slotted(d) \subseteq rest
      BY <1>5 DEF Slotted
    <2> HIDE DEF rest
    <2>2. Cardinality(Slotted(d)) \in Nat /\ Cardinality(Slotted(d)) <= Cardinality(Node) - 2
      BY <2>1, <1>6
    <2> QED BY <1>1, <1>4, <2>2 DEF FreeSlot, Roomy
  <1>8. d.rec[b].state = "none" => Cardinality(Known(d)) < setup.recs
    <2> SUFFICES ASSUME d.rec[b].state = "none" PROVE Cardinality(Known(d)) < setup.recs
      OBVIOUS
    <2>1. Known(d) \subseteq rest
      BY <1>4 DEF Known
    <2> HIDE DEF rest
    <2>2. Cardinality(Known(d)) \in Nat /\ Cardinality(Known(d)) <= Cardinality(Node) - 2
      BY <2>1, <1>6
    <2>3. setup.recs \in Nat /\ Cardinality(Node) <= setup.recs + 1
      BY DiscoveryAssumption DEF Roomy
    <2> QED BY <1>1, <2>2, <2>3
  <1> QED BY <1>7, <1>8
-----------------------------------------------------------------------------
(* What a datagram makes of the directory. *)

\* what the lemmas need of the other nodes, and of the datagram of the peer b at version v
Met(a, b, v) == /\ self \in [Node -> Selves] /\ Aged /\ setup \in Setups /\ Roomy
                   /\ a \in Node /\ b \in Node /\ b # a /\ self[b].started
                   /\ v \in Int /\ v <= self[b].ver

LEMMA BindHolds ==
    ASSUME NEW a, NEW b, Met(a, b, 0), NEW d, Holding(a, d), NEW verdict, d.rec[b].state = "active"
    PROVE  /\ Holding(a, Bind(d, b, verdict)) /\ Bind(d, b, verdict).rec[b].state = "active"
           /\ Bind(d, b, verdict).rec[b].slot # "none"
  <1> DEFINE r == d.rec[b]
             k == IF verdict = "loan" THEN "loan" ELSE "match"
             f == r.flags \ {"refetch"}
             s == [r EXCEPT !.slot = k, !.ver = 0, !.want = "no", !.flags = f]
  <1>1. b \in Node /\ b # a /\ self[b].started /\ 0 <= self[b].ver
    BY DEF Met
  <1>2. r \in Records /\ Judged(a, b, r) /\ r \in AnyRecord
    BY <1>1, Parts, Fields DEF Holding, AllJudged
  <1>3. f \in SUBSET Flags /\ k \in {"none", "loan", "match"} /\ k # "none"
    BY <1>2, Fields
  <1>4. Bind(d, b, verdict) = With(d, b, s)
    BY DEF Bind
  <1>5. "full" \notin f
    BY <1>2 DEF Judged
  <1> HIDE DEF k, f
  <1>6. s \in AnyRecord /\ s.state = r.state /\ s.slot = k /\ s.owed = r.owed
        /\ s.ver = 0 /\ s.want = "no" /\ s.flags = f
    BY <1>2, <1>3, Values, Zenon DEF AnyRecord
  <1> HIDE DEF s
  <1>7. s \in Records /\ s.state = "active" /\ s.slot # "none"
    BY <1>3, <1>6 DEF Records
  <1>8. Judged(a, b, s)
    BY <1>1, <1>5, <1>6, <1>7 DEF Judged
  <1> QED BY <1>1, <1>4, <1>7, <1>8, WithHolds

\* A match always finds a free slot.
LEMMA SeatHolds ==
    ASSUME NEW a, NEW b, Met(a, b, 0), NEW d, Holding(a, d), NEW verdict,
           d.rec[b].state = "active", d.rec[b].slot = "none"
    PROVE  /\ Seat(d, b, verdict) # {}
           /\ \A e \in Seat(d, b, verdict) :
                 Holding(a, e) /\ e.rec[b].state = "active" /\ e.rec[b].slot # "none"
  <1>1. FreeSlot(d)
    BY RoomFor DEF Met
  <1>2. Seat(d, b, verdict) = {Bind(d, b, verdict)}
    BY <1>1 DEF Seat
  <1> QED BY <1>2, BindHolds

LEMMA HeldHolds ==
    ASSUME NEW a, NEW b, NEW v, Met(a, b, v), NEW d, Holding(a, d), NEW verdict, NEW asks,
           d.rec[b].state = "active", d.rec[b].slot # "none"
    PROVE  Holding(a, HeldAs(d, b, v, verdict, asks)) /\ HeldAs(d, b, v, verdict, asks).rec[b].state = "active"
  <1> DEFINE r == d.rec[b]
             f == r.flags \ {"filter"}
             k == IF verdict = "yes" THEN "match" ELSE r.slot
             s == [r EXCEPT !.ver = v, !.flags = f, !.slot = k]
             t == IF asks THEN Ask(s, "match") ELSE s
  <1>1. b \in Node /\ b # a /\ self[b].started /\ v \in Int /\ v <= self[b].ver
    BY DEF Met
  <1>2. r \in Records /\ Judged(a, b, r) /\ r \in AnyRecord
    BY <1>1, Parts, Fields DEF Holding, AllJudged
  <1>3. f \in SUBSET Flags /\ k \in {"none", "loan", "match"} /\ k # "none"
    BY <1>2, Fields
  <1>4. HeldAs(d, b, v, verdict, asks) = With(d, b, t)
    BY DEF HeldAs
  <1>5. "full" \notin f /\ r.want = "no"
    BY <1>2 DEF Judged
  <1> HIDE DEF k, f
  <1>6. s \in AnyRecord /\ s.state = r.state /\ s.slot = k /\ s.owed = r.owed
        /\ s.ver = v /\ s.want = r.want /\ s.flags = f
    BY <1>1, <1>2, <1>3, Zenon DEF AnyRecord
  <1> HIDE DEF s
  <1>7. s \in Records /\ s.state = "active" /\ s.slot # "none"
    BY <1>3, <1>6 DEF Records
  <1>8. Judged(a, b, s)
    BY <1>1, <1>5, <1>6, <1>7 DEF Judged
  <1>9. Seems(s, Ask(s, "match"))
    BY <1>7, AskSeems DEF Owed
  <1>10. t \in Records /\ Judged(a, b, t) /\ t.state = "active"
    BY <1>7, <1>8, <1>9, SeemsMinds, JudgedMinds DEF Seems
  <1> HIDE DEF t
  <1> QED BY <1>1, <1>4, <1>10, WithHolds

\* A blob that is judged seats its source, or leaves the filter's mark.
LEMMA JudgeHolds ==
    ASSUME NEW a, NEW b, NEW v, Met(a, b, v), NEW d, Holding(a, d), NEW flags,
           d.rec[b].state = "active", NEW e \in Judge(a, d, b, v, flags)
    PROVE  Holding(a, e) /\ e.rec[b].state = "active"
  <1> DEFINE r       == d.rec[b]
             known   == r.slot = "match" /\ r.ver > 0
             skipped == v > r.ver + 1
             verdict == Verdict(a, self[a].ver, b, v, r.got)
             d1      == RefetchDone(d, b)
             fl      == d1.rec[b].flags \ {"filter"}
             judged  == [d1.rec[b] EXCEPT !.ver = v, !.flags = fl]
             asks    == verdict = "yes" /\ Tells(a, known, skipped, flags)
             passed  == [GiveBack(judged) EXCEPT !.want = "no", !.flags = fl \cup {"filter"}]
             p       == With(d1, b, passed).opened \/ r.slot # "none"
  <1>0. b \in Node /\ b # a /\ self[b].started /\ v \in Int /\ v <= self[b].ver /\ Met(a, b, 0)
    BY DEF Met, Aged, Selves
  <1>1. r \in Records /\ Judged(a, b, r)
    BY <1>0, Parts DEF Holding, AllJudged
  <1>2. \/ e = d
        \/ e = [With(d1, b, passed) EXCEPT !.opened = p]
        \/ r.slot # "none" /\ e = HeldAs(d1, b, v, verdict, asks)
        \/ r.slot = "none" /\ Seat(d1, b, verdict) = {}
        \/ r.slot = "none" /\ \E g \in Seat(d1, b, verdict) : e = HeldAs(g, b, v, verdict, asks)
    <2>1. "full" \notin r.flags
      BY <1>1 DEF Judged
    <2> QED BY <2>1 DEF Judge, HeldAs
  <1> HIDE DEF known, skipped, verdict, asks
  <1>3. Holding(a, d1) /\ d1.rec[b].state = "active" /\ d1.rec[b].slot = r.slot
    BY <1>0, RefetchDoneHolds
  <1> HIDE DEF d1
  <1>4. d1.rec[b] \in Records /\ Judged(a, b, d1.rec[b])
    BY <1>0, <1>3, Parts DEF Holding, AllJudged
  <1>5. d1.rec[b].flags \in SUBSET Flags /\ "full" \notin d1.rec[b].flags
    BY <1>4, Fields DEF Judged
  <1>6. CASE e = d
    BY <1>6
  <1>7. CASE e = [With(d1, b, passed) EXCEPT !.opened = p]
    <2> DEFINE q == GiveBack(judged)
               w == With(d1, b, passed)
    <2>1. fl \in SUBSET Flags /\ fl \cup {"filter"} \in SUBSET Flags /\ "full" \notin fl \cup {"filter"}
      BY <1>5 DEF Flags
    <2>2. passed = [q EXCEPT !.want = "no", !.flags = fl \cup {"filter"}]
      OBVIOUS
    <2> HIDE DEF fl
    <2>3. judged \in Records /\ judged.state = "active" /\ judged.ver = v
      <3>1. Kept(d1.rec[b], judged)
        BY <1>0, <1>4, <2>1, PlainKeeps, Values, Zenon
      <3>2. d1.rec[b] \in AnyRecord
        BY <1>4, Fields
      <3>3. judged.ver = v
        BY <3>2, Zenon DEF AnyRecord
      <3> QED BY <1>3, <3>1, <3>3 DEF Kept
    <2> HIDE DEF judged
    <2>4. q \in Records /\ q.state = "active" /\ q.ver = v
      BY <2>3, GiveBackIs
    <2> HIDE DEF q, passed
    <2>5. Kept(q, [q EXCEPT !.want = "no", !.flags = fl \cup {"filter"}])
      BY <2>1, <2>4, PlainKeeps, Values, Zenon
    <2>6. passed \in Records /\ passed.state = "active"
      BY <2>2, <2>4, <2>5, Zenon DEF Kept
    <2>7. passed.want = "no" /\ passed.flags = fl \cup {"filter"} /\ passed.ver = v
      <3>1. q \in AnyRecord
        BY <2>4, Fields
      <3> QED BY <2>2, <2>4, <3>1, Zenon DEF AnyRecord
    <2>8. Judged(a, b, passed)
      BY <1>0, <2>1, <2>7 DEF Judged
    <2>9. Holding(a, w) /\ w.rec[b] = passed
      BY <1>0, <1>3, <2>6, <2>8, WithHolds
    <2> HIDE DEF w
    <2>10. p \in BOOLEAN
      BY DEF p
    <2> HIDE DEF p
    <2>11. Holding(a, [w EXCEPT !.opened = p]) /\ [w EXCEPT !.opened = p].rec = w.rec
      BY <2>9, <2>10, MarkHolds
    <2>12. e = [w EXCEPT !.opened = p]
      BY <1>7, Zenon DEF w
    <2>13. Holding(a, e) /\ e.rec = w.rec
      BY <2>11, <2>12, Zenon
    <2> QED BY <2>6, <2>9, <2>13
  <1>8. CASE r.slot # "none" /\ e = HeldAs(d1, b, v, verdict, asks)
    BY <1>3, <1>8, HeldHolds
  <1>9. CASE r.slot = "none" /\ Seat(d1, b, verdict) = {}
    BY <1>0, <1>3, <1>9, SeatHolds
  <1>10. CASE r.slot = "none" /\ \E g \in Seat(d1, b, verdict) : e = HeldAs(g, b, v, verdict, asks)
    <2>1. PICK g \in Seat(d1, b, verdict) : e = HeldAs(g, b, v, verdict, asks)
      BY <1>10
    <2>2. Holding(a, g) /\ g.rec[b].state = "active" /\ g.rec[b].slot # "none"
      BY <1>0, <1>3, <1>10, SeatHolds
    <2> QED BY <2>1, <2>2, HeldHolds
  <1> QED BY <1>2, <1>6, <1>7, <1>8, <1>9, <1>10

LEMMA TakeFlagsHolds ==
    ASSUME NEW a, NEW d, Holding(a, d), NEW m, m.src \in Node, "full" \notin m.flags,
           d.rec[m.src].state # "none"
    PROVE  Holding(a, TakeFlags(d, m)) /\ TakeFlags(d, m).rec[m.src].state = "active"
  <1> DEFINE b  == m.src
             h  == d.rec[b]
             r0 == [h EXCEPT !.state = "active"]
             q1 == Settle(r0, {"match"})
             s1 == [q1 EXCEPT !.flags = q1.flags \ {"missed"}]
             r1 == IF "one" \in m.flags THEN s1 ELSE r0
  <1>1. b \in Node /\ h \in Records /\ Judged(a, b, h) /\ h.state # "none"
    BY Parts DEF Holding, AllJudged
  <1>2. "full" \notin r1.flags => TakeFlags(d, m) = With(d, b, r1)
    BY DEF TakeFlags
  <1> HIDE DEF h
  <1>3. r0 \in Records /\ r0.state = "active" /\ Minds(h, r0)
    <2>1. h \in AnyRecord
      BY <1>1, Fields
    <2>2. r0 \in AnyRecord /\ r0.state = "active" /\ r0.slot = h.slot /\ r0.owed = h.owed
          /\ r0.want = h.want /\ r0.ver = h.ver /\ r0.flags = h.flags
      BY <2>1, Values, Zenon DEF AnyRecord
    <2> HIDE DEF r0
    <2>3. r0 \in Records
      BY <2>2 DEF Records
    <2> QED BY <1>1, <2>2, <2>3 DEF Minds
  <1> HIDE DEF r0
  <1>4. Seems(r0, q1)
    BY <1>3, SettleSeems
  <1> HIDE DEF q1
  <1>5. q1 \in Records /\ q1.state = "active" /\ Minds(r0, q1) /\ q1.flags \ {"missed"} \in SUBSET Flags
    BY <1>3, <1>4, SeemsMinds, Fields DEF Seems
  <1>6. /\ s1 \in Records /\ s1.want = q1.want /\ s1.ver = q1.ver /\ s1.flags = q1.flags \ {"missed"}
        /\ s1.state = q1.state /\ s1.slot = q1.slot
    BY <1>5, FlagsMind
  <1> HIDE DEF s1
  <1>7. Minds(q1, s1)
    BY <1>6 DEF Minds
  <1>8. Judged(a, b, r0) /\ Judged(a, b, s1)
    BY <1>1, <1>3, <1>5, <1>7, JudgedMinds
  <1>9. r1 \in Records /\ r1.state = "active" /\ Judged(a, b, r1)
    BY <1>3, <1>5, <1>6, <1>8
  <1> HIDE DEF r1
  <1>10. TakeFlags(d, m) = With(d, b, r1)
    BY <1>2, <1>9 DEF Judged
  <1> QED BY <1>1, <1>9, <1>10, WithHolds

\* A header alone is taken as judged only of a peer that changed first.
LEMMA TakeVersionHolds ==
    ASSUME NEW a, NEW d, Holding(a, d), NEW m, Met(a, m.src, m.ver), Dated(m), clock \in Int,
           NEW first, d.rec[m.src].state = "active", NEW e \in TakeVersion(a, d, m, first)
    PROVE  Holding(a, e) /\ e.rec[m.src].state = "active"
  <1> DEFINE b   == m.src
             adv == IF m.ver > d.rec[b].adv THEN m.ver ELSE d.rec[b].adv
             s1  == [d.rec[b] EXCEPT !.adv = adv]
             d1  == With(d, b, s1)
             r   == d1.rec[b]
             s2  == [r EXCEPT !.ver = m.ver]
  <1>1. \/ e \in Judge(a, d1, b, m.ver, m.flags)
        \/ AssumeJudged(a, d, m) /\ e = With(d1, b, s2)
        \/ Waiting(r)
        \/ e = d1
    BY DEF TakeVersion
  <1>2. /\ b \in Node /\ b # a /\ self[b].started /\ m.ver \in Int /\ m.ver <= self[b].ver
        /\ a \in Node /\ self \in [Node -> Selves]
    BY DEF Met
  <1>3. d.rec[b] \in Records /\ Judged(a, b, d.rec[b]) /\ adv \in Int
    BY <1>2, Parts, Fields DEF Holding, AllJudged
  <1> HIDE DEF adv
  <1>4. Seems(d.rec[b], s1)
    BY <1>3, EditsSeem
  <1> HIDE DEF s1
  <1>5. s1 \in Records /\ s1.state = "active" /\ Judged(a, b, s1)
    BY <1>3, <1>4, SeemsMinds, JudgedMinds DEF Seems
  <1>6. Holding(a, d1) /\ r = s1
    BY <1>2, <1>5, WithHolds
  <1> HIDE DEF d1
  <1>7. CASE e \in Judge(a, d1, b, m.ver, m.flags)
    BY <1>5, <1>6, <1>7, JudgeHolds
  <1>8. CASE AssumeJudged(a, d, m) /\ e = With(d1, b, s2)
    <2>1. r \in Records /\ r \in AnyRecord /\ Judged(a, b, r)
      BY <1>5, <1>6, Fields
    <2>2. Kept(r, s2)
      BY <1>2, <2>1, PlainKeeps, Values, Zenon
    <2>3. s2.ver = m.ver /\ s2.want = r.want /\ s2.flags = r.flags
      BY <2>1, Zenon DEF AnyRecord
    <2> HIDE DEF s2
    <2>4. m.ver = self[b].ver => Elder(a, b)
      <3> SUFFICES ASSUME m.ver = self[b].ver PROVE Elder(a, b)
        OBVIOUS
      <3>1. /\ m.ago \in Int /\ m.ago <= clock - self[b].changed
            /\ self[b].changed \in Int /\ self[a].changed \in Int
        BY <1>2 DEF Dated, Selves
      <3>2. Margin \in Nat
        BY DiscoveryAssumption
      <3>3. m.ago > (IF self[a].started THEN clock - self[a].changed ELSE 0) + Margin
        BY <1>8 DEF AssumeJudged
      <3> QED BY <1>2, <3>1, <3>2, <3>3 DEF Elder
    <2>5. Judged(a, b, s2)
      BY <1>2, <2>1, <2>3, <2>4 DEF Judged
    <2>6. s2 \in Records /\ s2.state = "active"
      BY <1>5, <1>6, <2>2 DEF Kept
    <2> QED BY <1>2, <1>6, <1>8, <2>5, <2>6, WithHolds
  <1>9. CASE Waiting(r)
    BY <1>5, <1>6, <1>9 DEF Waiting, Judged
  <1>10. CASE e = d1
    BY <1>5, <1>6, <1>10
  <1> QED BY <1>1, <1>7, <1>8, <1>9, <1>10

LEMMA OweReplyHolds ==
    ASSUME NEW a, NEW d, Holding(a, d), NEW m, m.src \in Node, d.rec[m.src].state = "active"
    PROVE  Holding(a, OweReply(d, m))
  <1> DEFINE b == m.src
             r == FetchCheck(d.rec[b])
             s == [r EXCEPT !.owed = r.owed \cup {"reply"}]
  <1>1. OweReply(d, m) = With(d, b, s) \/ OweReply(d, m) = With(d, b, r)
    BY DEF OweReply
  <1>2. d.rec[b] \in Records /\ Judged(a, b, d.rec[b])
    BY Parts DEF Holding, AllJudged
  <1>3. Seems(d.rec[b], r)
    BY <1>2, FetchCheckSeems
  <1> HIDE DEF r
  <1>4. r \in Records /\ r.state = "active" /\ Judged(a, b, r)
    BY <1>2, <1>3, SeemsMinds, JudgedMinds DEF Seems
  <1>5. r \in AnyRecord /\ r.owed \cup {"reply"} \in SUBSET Owed
    BY <1>4, Fields DEF Owed
  <1>6. s \in AnyRecord /\ s.state = r.state /\ s.slot = r.slot /\ s.want = r.want
        /\ s.ver = r.ver /\ s.flags = r.flags
    BY <1>5, Zenon DEF AnyRecord
  <1> HIDE DEF s
  <1>7. s \in Records /\ Seems(r, s)
    BY <1>4, <1>6 DEF Records, Seems
  <1>8. Judged(a, b, s)
    BY <1>4, <1>7, SeemsMinds, JudgedMinds
  <1> QED BY <1>1, <1>4, <1>7, <1>8, WithHolds

\* The records of the endpoint's earlier process are forgotten.
LEMMA ClearedHolds ==
    ASSUME self \in [Node -> Selves], Aged, NEW a, NEW d, Holding(a, d), NEW b \in Node
    PROVE  Holding(a, Cleared(d, b)) /\ Cleared(d, b).rec[b] = d.rec[b]
  <1> DEFINE stale == {x \in Known(d) \ {b} : setup.endpoint[x] = setup.endpoint[b]}
             f == [x \in Node |-> IF x \in stale THEN Blank ELSE d.rec[x]]
             w == [d EXCEPT !.rec = f]
             p == w.opened \/ \E x \in stale : d.rec[x].slot # "none"
  <1>1. Cleared(d, b) = [w EXCEPT !.opened = p] /\ p \in BOOLEAN
    BY DEF Cleared
  <1>2. \A x \in Node : d.rec[x] \in Records /\ Judged(a, x, d.rec[x])
    BY Parts DEF Holding, AllJudged
  <1>3. \A x \in Node : Judged(a, x, Blank)
    BY BlankJudged
  <1>4. f \in [Node -> Records] /\ \A x \in Node : Judged(a, x, f[x])
    BY <1>2, <1>3, BlankIs
  <1> HIDE DEF f, p
  <1>5. Holding(a, w)
    BY <1>4, RecHolds, Values
  <1> HIDE DEF w
  <1>6. Holding(a, [w EXCEPT !.opened = p])
    BY <1>1, <1>5, MarkHolds
  <1>7. d \in Directories
    BY DEF Holding
  <1> QED BY <1>1, <1>6, <1>7, ClearedIs, Zenon

\* A new uuid finds a place, and is nothing yet.
LEMMA RecordTakeHolds ==
    ASSUME NEW a, NEW d, Holding(a, d), NEW m, Met(a, m.src, m.ver), d.rec[m.src].state = "none"
    PROVE  /\ RecordTake(a, d, m) # {}
           /\ \A e \in RecordTake(a, d, m) : Holding(a, e) /\ e.rec[m.src].state = "active"
  <1> DEFINE b == m.src
  <1>1. /\ b \in Node /\ b # a /\ self[b].started /\ self[b].ver \in Int /\ self[b].ver >= 1
        /\ a \in Node /\ Roomy /\ setup \in Setups
    BY DEF Met, Selves, Aged
  <1>2. Cardinality(Known(d)) < setup.recs
    BY <1>1, RoomFor
  <1>3. RecordTake(a, d, m) = {With(d, b, NewRecord)}
    BY <1>2 DEF RecordTake
  <1>4. Judged(a, b, NewRecord)
    BY <1>1 DEF Judged, NewRecord, Blank
  <1> QED BY <1>1, <1>3, <1>4, NewRecordIs, WithHolds

\* a datagram, as a whole, leaves the records judged
LEMMA OnDatagramHolds ==
    ASSUME AssumeInv, Roomy, NEW m \in net, NEW e \in OnDatagram(m.dst, m)
    PROVE  Holding(m.dst, e)
  <1> DEFINE a     == m.dst
             b     == m.src
             d     == dir[a]
             clear == Cleared(d, b)
             first == d.rec[b].state = "none"
             takes == IF first THEN RecordTake(a, clear, m) ELSE {d}
             heard == UNION {TakeVersion(a, TakeFlags(g, m), m, first) : g \in takes}
             bye   == [Gone(d, b) EXCEPT !.left = @ \cup {b}]
  <1>0. OnDatagram(a, m) =
            IF "bye" \in m.flags THEN OfferSlots(bye)
            ELSE IF LeftLately(d, b) THEN {d}
            ELSE IF takes = {} THEN OfferSlots(Stranger(a, clear, m))
            ELSE UNION {OfferSlots(OweReply(g, m)) : g \in heard}
    BY DEF OnDatagram, Cleared
  <1>1. IF "bye" \in m.flags THEN e \in OfferSlots(bye)
        ELSE IF LeftLately(d, b) THEN e = d
        ELSE takes = {} \/ \E g \in heard : e \in OfferSlots(OweReply(g, m))
    <2>1. e \in OnDatagram(a, m)
      OBVIOUS
    <2> HIDE DEF a, b, d, clear, first, takes, heard, bye
    <2>2. CASE "bye" \in m.flags
      BY <1>0, <2>1, <2>2
    <2>3. CASE "bye" \notin m.flags /\ LeftLately(d, b)
      BY <1>0, <2>1, <2>3
    <2>4. CASE "bye" \notin m.flags /\ ~LeftLately(d, b) /\ takes # {}
      <3>1. OnDatagram(a, m) = UNION {OfferSlots(OweReply(g, m)) : g \in heard}
        BY <1>0, <2>4
      <3>2. \E g \in heard : e \in OfferSlots(OweReply(g, m))
        BY <2>1, <3>1
      <3> QED BY <2>4, <3>2
    <2> QED BY <2>2, <2>3, <2>4
  <1>2. /\ a \in Node /\ b \in Node /\ b # a /\ self \in [Node -> Selves] /\ Aged /\ clock \in Int
        /\ Dated(m) /\ "full" \notin m.flags /\ Met(a, b, m.ver) /\ dir \in [Node -> Directories]
    BY DEF AssumeInv, DiscoveryInv, Typed, Readable, Dated, Met
  <1>3. Holding(a, d)
    BY <1>2 DEF Holding, AssumeInv
  <1>4. Holding(a, clear) /\ clear.rec[b] = d.rec[b]
    BY <1>2, <1>3, ClearedHolds
  <1> HIDE DEF clear, d
  <1>5. CASE "bye" \in m.flags
    <2> DEFINE g == Gone(d, b)
               k == g.left \cup {b}
    <2>1. Holding(a, g)
      BY <1>2, <1>3, GoneHolds
    <2>2. bye = [g EXCEPT !.left = k]
      OBVIOUS
    <2> HIDE DEF g
    <2>3. g \in Directories /\ AllJudged(a, g) /\ k \in SUBSET Node
      BY <1>2, <2>1, Parts DEF Holding
    <2> HIDE DEF k
    <2>4. bye \in Directories /\ bye.rec = g.rec /\ bye.cap = g.cap /\ bye.loose = g.loose
      BY <2>2, <2>3, Zenon DEF Directories
    <2> HIDE DEF bye
    <2>5. Holding(a, bye)
      BY <2>3, <2>4 DEF Holding, AllJudged
    <2> QED BY <1>1, <1>5, <2>5, OffersHold
  <1>6. CASE "bye" \notin m.flags /\ LeftLately(d, b)
    BY <1>1, <1>3, <1>6
  <1>7. CASE "bye" \notin m.flags /\ ~LeftLately(d, b)
    <2>1. takes # {} /\ \A g \in takes : Holding(a, g) /\ g.rec[b].state # "none"
      <3>1. CASE first
        BY <1>2, <1>4, <3>1, RecordTakeHolds
      <3>2. CASE ~first
        BY <1>3, <3>2
      <3> QED BY <3>1, <3>2
    <2> HIDE DEF takes
    <2>2. PICK h \in heard : e \in OfferSlots(OweReply(h, m))
      BY <1>1, <1>7, <2>1
    <2>3. PICK g \in takes : h \in TakeVersion(a, TakeFlags(g, m), m, first)
      BY <2>2
    <2> HIDE DEF first, heard
    <2>4. Holding(a, TakeFlags(g, m)) /\ TakeFlags(g, m).rec[b].state = "active"
      BY <1>2, <2>1, TakeFlagsHolds
    <2>5. Holding(a, h) /\ h.rec[b].state = "active"
      BY <1>2, <2>3, <2>4, TakeVersionHolds
    <2>6. Holding(a, OweReply(h, m))
      BY <1>2, <2>5, OweReplyHolds
    <2> QED BY <2>2, <2>6, OffersHold
  <1> QED BY <1>5, <1>6, <1>7
-----------------------------------------------------------------------------
(* What the rest of a node does to its directory. *)

\* A held blob judged again keeps its slot, or leaves the filter's mark.
LEMMA RejudgeHolds ==
    ASSUME NEW a, NEW va, NEW d, Holding(a, d), NEW b \in Node
    PROVE  /\ Holding(a, RejudgeAt(a, va, d, b))
           /\ RejudgeAt(a, va, d, b).rec[b] \in Records /\ Judged(a, b, RejudgeAt(a, va, d, b).rec[b])
  <1> DEFINE r == d.rec[b]
             verdict == Verdict(a, va, b, r.ver, r.got)
             fl == IF verdict = "no" THEN r.flags \cup {"filter"} ELSE r.flags \ {"filter"}
             g  == GiveBack(r)
             s1 == [g EXCEPT !.flags = fl]
             w1 == With(d, b, s1)
             s2 == [r EXCEPT !.slot = "match", !.flags = fl]
             s3 == [r EXCEPT !.flags = fl]
             e  == RejudgeAt(a, va, d, b)
  <1>0. r \in Records /\ r \in AnyRecord /\ Judged(a, b, r) /\ fl \in SUBSET Flags
    BY Parts, Fields DEF Holding, AllJudged, Flags
  <1>1. \/ e = d
        \/ verdict = "no" /\ e = [w1 EXCEPT !.opened = TRUE]
        \/ r.state # "none" /\ r.slot # "none" /\ e = With(d, b, Ask(s2, "match"))
        \/ r.slot # "none" /\ e = With(d, b, s3)
    <2>1. r.slot # "none" => r.state # "none"
      BY <1>0, Fields
    <2> QED BY <2>1 DEF RejudgeAt
  <1>2. (verdict = "no" => "filter" \in fl) /\ ("full" \in fl => "full" \in r.flags)
    OBVIOUS
  <1> HIDE DEF verdict, fl, e
  <1>3. /\ g \in Records /\ g.want = r.want /\ g.ver = r.ver /\ g.state = r.state
    BY <1>0, GiveBackIs
  <1> HIDE DEF g
  <1>4. /\ s1 \in Records /\ s1.want = g.want /\ s1.ver = g.ver /\ s1.flags = fl
        /\ s1.state = g.state
    BY <1>0, <1>3, FlagsMind
  <1>5. /\ s3 \in Records /\ s3.want = r.want /\ s3.ver = r.ver /\ s3.flags = fl
        /\ s3.state = r.state /\ s3.slot = r.slot
    BY <1>0, FlagsMind
  <1>6. s2 \in AnyRecord /\ s2.state = r.state /\ s2.slot = "match" /\ s2.owed = r.owed
        /\ s2.want = r.want /\ s2.ver = r.ver /\ s2.flags = fl
    BY <1>0, Values, Zenon DEF AnyRecord
  <1> HIDE DEF s1, s2, s3
  <1>7. CASE e = d
    BY <1>0, <1>7 DEF e
  <1>8. CASE verdict = "no" /\ e = [w1 EXCEPT !.opened = TRUE]
    <2>1. Minds(r, s1)
      BY <1>2, <1>3, <1>4, <1>8 DEF Minds
    <2>2. Judged(a, b, s1)
      BY <1>0, <2>1, JudgedMinds
    <2>3. Holding(a, w1) /\ w1.rec[b] = s1
      BY <1>4, <2>2, WithHolds
    <2> HIDE DEF w1
    <2>4. Holding(a, [w1 EXCEPT !.opened = TRUE]) /\ [w1 EXCEPT !.opened = TRUE].rec = w1.rec
      BY <2>3, MarkHolds
    <2>5. Holding(a, e) /\ e.rec = w1.rec
      BY <1>8, <2>4, Zenon
    <2> QED BY <1>4, <2>2, <2>3, <2>5 DEF e
  <1>9. CASE r.state # "none" /\ r.slot # "none" /\ e = With(d, b, Ask(s2, "match"))
    <2>1. s2 \in Records
      BY <1>0, <1>6, <1>9, Fields DEF Records
    <2>2. Minds(r, s2)
      BY <1>2, <1>6, <2>1 DEF Minds
    <2>3. Seems(s2, Ask(s2, "match"))
      BY <2>1, AskSeems DEF Owed
    <2>4. Ask(s2, "match") \in Records /\ Judged(a, b, Ask(s2, "match"))
      BY <1>0, <2>2, <2>3, SeemsMinds, JudgedMinds
    <2> QED BY <1>9, <2>4, WithHolds DEF e
  <1>10. CASE r.slot # "none" /\ e = With(d, b, s3)
    <2>1. Minds(r, s3)
      BY <1>2, <1>5, <1>10 DEF Minds
    <2>2. Judged(a, b, s3)
      BY <1>0, <2>1, JudgedMinds
    <2> QED BY <1>5, <1>10, <2>2, WithHolds DEF e
  <1> QED BY <1>1, <1>7, <1>8, <1>9, <1>10

LEMMA ReplayHolds ==
    ASSUME NEW a, NEW va, NEW d, Holding(a, d), NEW e \in ReplayPeers(a, va, d)
    PROVE  Holding(a, e)
  <1> DEFINE held == {b \in Slotted(d) : d.rec[b].state = "active"}
             f == [b \in Node |-> IF b \in held THEN RejudgeAt(a, va, d, b).rec[b] ELSE d.rec[b]]
             w == [d EXCEPT !.rec = f]
             p == w.opened \/ \E b \in held : RejudgeAt(a, va, d, b).opened
             u == [w EXCEPT !.opened = p]
  <1>1. e \in OfferSlots(u) /\ p \in BOOLEAN
    BY DEF ReplayPeers
  <1>2. \A b \in Node : /\ RejudgeAt(a, va, d, b).rec[b] \in Records
                        /\ Judged(a, b, RejudgeAt(a, va, d, b).rec[b])
    BY RejudgeHolds
  <1>3. \A b \in Node : d.rec[b] \in Records /\ Judged(a, b, d.rec[b])
    BY Parts DEF Holding, AllJudged
  <1>4. f \in [Node -> Records] /\ \A b \in Node : Judged(a, b, f[b])
    BY <1>2, <1>3
  <1> HIDE DEF f, p
  <1>5. Holding(a, w)
    BY <1>4, RecHolds, Values
  <1> HIDE DEF w
  <1>6. Holding(a, u)
    BY <1>1, <1>5, MarkHolds
  <1> QED BY <1>1, <1>6, OffersHold

LEMMA RefetchUnmatchedHolds ==
    ASSUME NEW a, NEW va, NEW d, Holding(a, d)
    PROVE  Holding(a, RefetchUnmatched(a, va, d))
  <1> DEFINE idle(r) == /\ r.state = "active" /\ r.slot = "none" /\ r.want = "no"
                        /\ "full" \notin r.flags
             cannot(b, r) == "filter" \in r.flags /\ r.adv <= r.ver /\ ~Meets(a, va, b, r.ver)
             f == [b \in Node |-> IF idle(d.rec[b]) /\ ~cannot(b, d.rec[b]) THEN Offer(d.rec[b]) ELSE d.rec[b]]
  <1>1. RefetchUnmatched(a, va, d) = [d EXCEPT !.rec = f]
    BY DEF RefetchUnmatched
  <1>2. \A b \in Node : d.rec[b] \in Records /\ Judged(a, b, d.rec[b])
    BY Parts DEF Holding, AllJudged
  <1>3. \A b \in Node : Offer(d.rec[b]) \in Records /\ Judged(a, b, Offer(d.rec[b]))
    BY <1>2, OfferMinds, JudgedMinds
  <1> HIDE DEF idle, cannot
  <1>4. f \in [Node -> Records] /\ \A b \in Node : Judged(a, b, f[b])
    BY <1>2, <1>3
  <1> HIDE DEF f
  <1>5. Holding(a, [d EXCEPT !.rec = f])
    BY <1>4, RecHolds, Values
  <1> QED BY <1>1, <1>5, Zenon
-----------------------------------------------------------------------------
(* Time and versions. *)

\* A step moves the clock, versions and changes forward only; a node that
\* started keeps its change as long as its version.
Grows ==
    /\ self \in [Node -> Selves] /\ self' \in [Node -> Selves]
    /\ clock \in Int /\ clock' \in Int /\ clock' >= clock
    /\ \A c \in Node :
        /\ self[c].started => self'[c].started
        /\ self'[c].ver >= self[c].ver
        /\ self[c].changed <= self'[c].changed /\ self'[c].changed <= clock'
        /\ self'[c].ver = self[c].ver /\ self[c].started => self'[c].changed = self[c].changed
        /\ self'[c].started /\ ~self[c].started => self'[c].changed = clock

\* a judged record stays judged as time and versions move on
LEMMA JudgedGrows ==
    ASSUME Grows, NEW a \in Node, NEW b \in Node, NEW r \in Records, Judged(a, b, r)
    PROVE  Judged(a, b, r)'
  <1>1. /\ r.ver \in Int /\ self[b].ver \in Int /\ self'[b].ver \in Int
        /\ self[a].changed \in Int /\ self'[a].changed \in Int
        /\ self[b].changed \in Int /\ self'[b].changed \in Int
    BY Fields DEF Grows, Selves
  <1>2. r.want = "no" /\ "full" \notin r.flags /\ r.ver <= self'[b].ver
    BY <1>1 DEF Grows, Judged
  <1>3. r.state # "none" => b # a /\ self[b].started /\ self'[b].started
    BY DEF Grows, Judged
  <1>4. ASSUME r.state # "none", r.slot = "none", "filter" \notin r.flags, r.ver = self'[b].ver
        PROVE  Elder(a, b)'
    <2>1. self'[b].ver = self[b].ver
      BY <1>1, <1>4 DEF Grows, Judged
    <2>2. Elder(a, b) /\ self'[b].changed = self[b].changed
      BY <1>3, <1>4, <2>1 DEF Grows, Judged
    <2> QED BY <1>1, <1>3, <1>4, <2>2 DEF Grows, Elder
  <1> QED BY <1>2, <1>3, <1>4 DEF Judged

LEMMA HoldingGrows ==
    ASSUME Grows, NEW a \in Node, NEW d, Holding(a, d)
    PROVE  AllJudged(a, d)'
  <1>1. \A b \in Node : d.rec[b] \in Records /\ Judged(a, b, d.rec[b])
    BY Parts DEF Holding, AllJudged
  <1>2. \A b \in Node : Judged(a, b, d.rec[b])'
    BY <1>1, JudgedGrows
  <1> QED BY <1>2 DEF Holding, AllJudged

LEMMA DatedGrows ==
    ASSUME Grows, NEW m, Readable(m), Dated(m)
    PROVE  Dated(m)'
  <1> DEFINE b == m.src
  <1>1. /\ b \in Node /\ m.ver \in Int /\ self[b].ver \in Int /\ self'[b].ver \in Int
        /\ self[b].changed \in Int /\ self'[b].changed \in Int
    BY DEF Grows, Selves, Readable
  <1>2. m.ver = self'[b].ver => self'[b].ver = self[b].ver
    BY <1>1 DEF Grows, Dated
  <1> QED BY <1>1, <1>2 DEF Grows, Dated

\* What is sent is dated: the header's age is the sender's, any other datagram's 0.
LEMMA DatagramDated ==
    ASSUME Grows, NEW a \in Node, NEW b \in Node, NEW flags, NEW blob, NEW m, m = Datagram(a, b, flags, blob),
           b # a, self'[a].started, self'[a].ver = self[a].ver, "full" \notin flags,
           blob \/ flags # {} \/ self'[a].changed = self[a].changed
    PROVE  Dated(m)'
  <1>1. /\ self[a].ver \in Int /\ self[a].changed \in Int /\ self'[a].changed \in Int
        /\ self'[a].changed <= clock'
    BY DEF Grows, Selves
  <1>2. m.src = a /\ m.dst = b /\ m.ver = self[a].ver /\ m.flags = flags
        /\ m.ago = (IF blob \/ flags # {} THEN 0 ELSE clock - self[a].changed)
    BY DEF Datagram
  <1>3. clock \in Int /\ clock' \in Int /\ clock' >= clock
    BY DEF Grows
  <1>4. m.ago \in Int /\ m.ago <= clock' - self'[a].changed
    BY <1>1, <1>2, <1>3
  <1> QED BY <1>1, <1>2, <1>4 DEF Dated

LEMMA GroupDated ==
    ASSUME AssumeInv, Roomy, Grows, NEW a \in Node, NEW flags, NEW blob, NEW m \in GroupSend(a, flags, blob),
           self'[a].started, self'[a].ver = self[a].ver, "full" \notin flags,
           blob \/ flags # {} \/ self'[a].changed = self[a].changed
    PROVE  Dated(m)'
  <1>1. Reach[a] \subseteq Node /\ a \notin Reach[a] /\ Slotted(dir[a]) \subseteq Node
    BY DiscoveryAssumption DEF Roomy, Slotted
  <1>2. a \notin Slotted(dir[a])
    <2>1. dir[a] \in Directories /\ dir[a].rec[a] \in Records /\ Judged(a, a, dir[a].rec[a])
      BY Parts DEF AssumeInv, AllJudged, DiscoveryInv, Typed
    <2>2. dir[a].rec[a].slot = "none"
      BY <2>1, Fields DEF Judged
    <2> QED BY <2>2 DEF Slotted
  <1>3. \/ \E b \in Node \ {a} : m = Datagram(a, b, flags, blob)
        \/ \E b \in Node \ {a} : m = Datagram(a, b, flags \cup {"one"}, blob)
    BY <1>1, <1>2 DEF GroupSend
  <1>4. CASE \E b \in Node \ {a} : m = Datagram(a, b, flags, blob)
    BY <1>4, DatagramDated
  <1>5. CASE \E b \in Node \ {a} : m = Datagram(a, b, flags \cup {"one"}, blob)
    <2>1. "full" \notin flags \cup {"one"} /\ flags \cup {"one"} # {}
      OBVIOUS
    <2> QED BY <1>5, <2>1, DatagramDated
  <1> QED BY <1>3, <1>4, <1>5

\* what an action makes of the node's own state
LEMMA SelfIs ==
    ASSUME self \in [Node -> Selves], NEW a \in Node
    PROVE  /\ \A c \in Node \ {a} : Open(a) \/ Opening(a) \/ SendSolicit(a) \/ RepeatOpening(a) \/ Announce(a)
                                    \/ Solicit(a) \/ Readvertise(a, ~Gathering) \/ Leave(a) \/ Crash(a)
                                      => self'[c] = self[c]
           /\ Open(a) \/ SendSolicit(a) \/ RepeatOpening(a) \/ Announce(a) \/ Solicit(a) \/ Leave(a) \/ Crash(a)
                => /\ self'[a].started = self[a].started /\ self'[a].ver = self[a].ver
                   /\ self'[a].changed = self[a].changed
           /\ Opening(a) => self'[a].started /\ self'[a].ver = self[a].ver /\ self'[a].changed = clock
           /\ Readvertise(a, ~Gathering) => /\ self'[a].started = self[a].started
                                            /\ self'[a].ver = self[a].ver + 1 /\ self'[a].changed = clock
  <1>1. self[a] \in Selves
    OBVIOUS
  <1>2. \A c \in Node \ {a} : Open(a) \/ Opening(a) \/ SendSolicit(a) \/ RepeatOpening(a) \/ Announce(a)
                                    \/ Solicit(a) \/ Readvertise(a, ~Gathering) \/ Leave(a) \/ Crash(a)
                                      => self'[c] = self[c]
    BY DEF Open, Opening, SendSolicit, RepeatOpening, Announce, Solicit, Readvertise, Leave, Crash
  <1>3. Open(a) \/ SendSolicit(a) \/ RepeatOpening(a) \/ Announce(a) \/ Solicit(a) \/ Leave(a) \/ Crash(a)
          => /\ self'[a].started = self[a].started /\ self'[a].ver = self[a].ver
             /\ self'[a].changed = self[a].changed
    <2> DEFINE Same == /\ self'[a].started = self[a].started /\ self'[a].ver = self[a].ver
                       /\ self'[a].changed = self[a].changed
    <2>1. Open(a) => Same
      BY <1>1 DEF Open, Selves
    <2>2. SendSolicit(a) => Same
      <3> SUFFICES ASSUME SendSolicit(a)
                   PROVE  Same
        OBVIOUS
      <3>1. self' = [self EXCEPT ![a].solicit = FALSE, ![a].fresh = FALSE]
        BY Zenon DEF SendSolicit
      <3>2. self'[a] = [self[a] EXCEPT !.solicit = FALSE, !.fresh = FALSE]
        BY <3>1
      <3> QED BY <1>1, <3>2 DEF Selves
    <2>3. RepeatOpening(a) => Same
      <3> SUFFICES ASSUME RepeatOpening(a)
                   PROVE  Same
        OBVIOUS
      <3>1. self' = [self EXCEPT ![a].repeats = @ - 1, ![a].fresh = FALSE]
        BY Zenon DEF RepeatOpening
      <3>2. self'[a] = [self[a] EXCEPT !.repeats = @ - 1, !.fresh = FALSE]
        BY <3>1
      <3> QED BY <1>1, <3>2 DEF Selves
    <2>4. Announce(a) => Same
      <3> SUFFICES ASSUME Announce(a)
                   PROVE  Same
        OBVIOUS
      <3>1. self' = [self EXCEPT ![a].resend = FALSE, ![a].fresh = FALSE]
        BY Zenon DEF Announce
      <3>2. self'[a] = [self[a] EXCEPT !.resend = FALSE, !.fresh = FALSE]
        BY <3>1
      <3> QED BY <1>1, <3>2 DEF Selves
    <2>5. Solicit(a) => Same
      BY <1>1 DEF Solicit, Selves
    <2>6. Leave(a) => Same
      BY <1>1 DEF Leave, Selves
    <2>7. Crash(a) => Same
      BY <1>1 DEF Crash, Selves
    <2> QED BY <2>1, <2>2, <2>3, <2>4, <2>5, <2>6, <2>7
  <1>4. Opening(a) => self'[a].started /\ self'[a].ver = self[a].ver /\ self'[a].changed = clock
    <2> SUFFICES ASSUME Opening(a)
                 PROVE  self'[a].started /\ self'[a].ver = self[a].ver /\ self'[a].changed = clock
      OBVIOUS
    <2>1. self' = [self EXCEPT ![a].started = TRUE, ![a].changed = clock, ![a].resend = FALSE,
                               ![a].fresh = FALSE, ![a].solicit = FALSE, ![a].repeats = setup.repeats]
      BY Zenon DEF Opening
    <2>2. self'[a] = [self[a] EXCEPT !.started = TRUE, !.changed = clock, !.resend = FALSE,
                                     !.fresh = FALSE, !.solicit = FALSE, !.repeats = setup.repeats]
      BY <2>1
    <2> QED BY <1>1, <2>2 DEF Selves
  <1>5. Readvertise(a, ~Gathering) => /\ self'[a].started = self[a].started
                                      /\ self'[a].ver = self[a].ver + 1 /\ self'[a].changed = clock
    <2> SUFFICES ASSUME Readvertise(a, ~Gathering)
                 PROVE  /\ self'[a].started = self[a].started
                        /\ self'[a].ver = self[a].ver + 1 /\ self'[a].changed = clock
      OBVIOUS
    <2>1. self' = [self EXCEPT ![a].ver = @ + 1, ![a].changed = clock, ![a].resend = TRUE,
                               ![a].fresh = self[a].started]
      BY Zenon DEF Readvertise
    <2>2. self'[a] = [self[a] EXCEPT !.ver = @ + 1, !.changed = clock, !.resend = TRUE,
                                     !.fresh = self[a].started]
      BY <2>1
    <2> QED BY <1>1, <2>2 DEF Selves
  <1> QED BY <1>2, <1>3, <1>4, <1>5

LEMMA NextGrows ==
    ASSUME AssumeInv, [Next]_vars
    PROVE  Grows
  <1>1. /\ self \in [Node -> Selves] /\ self' \in [Node -> Selves] /\ clock \in Int /\ clock' \in Int
    BY NextTypes DEF AssumeInv, DiscoveryInv, Typed
  <1>2. \A c \in Node : /\ self[c].changed \in Int /\ self'[c].changed \in Int /\ self[c].ver \in Int
                        /\ self'[c].ver \in Int /\ self[c].changed <= clock
    BY <1>1 DEF Selves, AssumeInv, Aged
  <1>3. ASSUME self' = self, clock' >= clock
        PROVE  Grows
    BY <1>1, <1>2, <1>3 DEF Grows
  <1>4. ASSUME NEW a \in Node, clock' = clock,
               Open(a) \/ Opening(a) \/ SendSolicit(a) \/ RepeatOpening(a) \/ Announce(a)
               \/ Solicit(a) \/ Readvertise(a, ~Gathering) \/ Leave(a) \/ Crash(a)
        PROVE  Grows
    <2>1. \A c \in Node \ {a} : self'[c] = self[c]
      BY <1>1, <1>4, SelfIs
    <2>2. \/ self'[a].started = self[a].started /\ self'[a].ver = self[a].ver /\ self'[a].changed = self[a].changed
          \/ ~self[a].started /\ self'[a].started /\ self'[a].ver = self[a].ver /\ self'[a].changed = clock
          \/ self'[a].started = self[a].started /\ self'[a].ver = self[a].ver + 1 /\ self'[a].changed = clock
      BY <1>1, <1>4, SelfIs DEF Opening
    <2>3. ASSUME NEW c \in Node
          PROVE  /\ self[c].started => self'[c].started
                 /\ self'[c].ver >= self[c].ver
                 /\ self[c].changed <= self'[c].changed /\ self'[c].changed <= clock'
                 /\ self'[c].ver = self[c].ver /\ self[c].started => self'[c].changed = self[c].changed
                 /\ self'[c].started /\ ~self[c].started => self'[c].changed = clock
      <3>1. CASE c = a
        BY <1>1, <1>2, <1>4, <2>2, <3>1
      <3>2. CASE c # a
        BY <1>1, <1>2, <1>4, <2>1, <3>2
      <3> QED BY <3>1, <3>2
    <2> QED BY <1>1, <1>4, <2>3 DEF Grows
  <1>5. CASE Tick
    <2>1. self' = self /\ clock' = clock + 1
      BY <1>5 DEF Tick
    <2> QED BY <1>1, <1>3, <2>1
  <1>6. ASSUME NEW a \in Node,
               Open(a) \/ Opening(a) \/ SendSolicit(a) \/ RepeatOpening(a) \/ Announce(a)
               \/ Solicit(a) \/ Readvertise(a, ~Gathering) \/ Leave(a) \/ Crash(a)
        PROVE  Grows
    <2>1. clock' = clock
      BY <1>6 DEF Open, Opening, SendSolicit, RepeatOpening, Announce, Solicit, Readvertise, Leave, Crash
    <2> QED BY <1>4, <1>6, <2>1
  <1>7. ASSUME NEW a \in Node, PollLoose(a) \/ UpdateOffers(a) \/ Grow(a)
        PROVE  Grows
    <2>1. self' = self /\ clock' = clock
      BY <1>7 DEF PollLoose, UpdateOffers, Grow
    <2> QED BY <1>1, <1>3, <2>1
  <1>8. ASSUME NEW a \in Node, NEW b \in Others(a),
               PollTargeted(a, b) \/ SweepDrop(a, b) \/ SweepGone(a, b) \/ LeftExpires(a, b) \/ Pulled(a, b)
        PROVE  Grows
    <2>1. self' = self /\ clock' = clock
      BY <1>8 DEF PollTargeted, SweepDrop, SweepGone, LeftExpires, Pulled
    <2> QED BY <1>1, <1>3, <2>1
  <1>9. ASSUME NEW m \in net, Deliver(m) \/ Lose(m)
        PROVE  Grows
    BY <1>1, <1>3, <1>9 DEF Deliver, Lose
  <1>10. CASE UNCHANGED vars
    BY <1>1, <1>3, <1>10 DEF vars
  <1> QED BY <1>5, <1>6, <1>7, <1>8, <1>9, <1>10 DEF Next

\* a record that a keeps wants no slot, so that a refuses nobody
LEMMA Unrefused ==
    ASSUME AssumeInv, NEW a \in Node, NEW b \in Node
    PROVE  /\ Holding(a, dir[a]) /\ dir[a].loose = {}
           /\ dir[a].rec[b] \in Records /\ Judged(a, b, dir[a].rec[b]) /\ ~FullFor(dir[a].rec[b])
  <1>1. Holding(a, dir[a])
    BY DEF AssumeInv, DiscoveryInv, Typed, Holding
  <1>2. dir[a].loose = {} /\ dir[a].rec[b] \in Records /\ Judged(a, b, dir[a].rec[b])
    BY <1>1, Parts DEF Holding, AllJudged
  <1> QED BY <1>1, <1>2 DEF Judged, FullFor

\* What is under way stays dated, and so is what is sent.
LEMMA NextDated ==
    ASSUME AssumeInv, Roomy, [Next]_vars, NEW m \in net'
    PROVE  Dated(m)'
  <1>1. Grows
    BY NextGrows
  <1>2. ASSUME m \in net
        PROVE  Dated(m)'
    BY <1>1, <1>2, DatedGrows DEF AssumeInv, DiscoveryInv, Typed
  <1>3. self \in [Node -> Selves] /\ \A a \in Node : Others(a) \subseteq Node
    BY DEF AssumeInv, DiscoveryInv, Typed, Others
  <1>4. CASE Tick
    BY <1>2, <1>4 DEF Tick
  <1>5. ASSUME NEW a \in Node, Opening(a)
        PROVE  Dated(m)'
    <2>1. self'[a].started /\ self'[a].ver = self[a].ver
      BY <1>3, <1>5, SelfIs
    <2>2. m \in net \/ \E flags \in {{}, ReqFlags(a)} : m \in GroupSend(a, flags, TRUE)
      BY <1>5 DEF Opening
    <2>3. \A flags \in {{}, ReqFlags(a)} : "full" \notin flags
      BY DEF ReqFlags
    <2> QED BY <1>1, <1>2, <2>1, <2>2, <2>3, GroupDated
  <1>6. ASSUME NEW a \in Node, SendSolicit(a) \/ RepeatOpening(a) \/ Announce(a) \/ Leave(a)
        PROVE  Dated(m)'
    <2>1. self'[a].started /\ self'[a].ver = self[a].ver /\ self'[a].changed = self[a].changed
      <3>1. self[a].started
        BY <1>6 DEF SendSolicit, RepeatOpening, Announce, Leave
      <3> QED BY <1>3, <1>6, <3>1, SelfIs
    <2>2. m \in net \/ \E flags \in {{}, ReqFlags(a), {"bye"}} : \E blob : m \in GroupSend(a, flags, blob)
      BY <1>6 DEF SendSolicit, RepeatOpening, Announce, Leave
    <2>3. \A flags \in {{}, ReqFlags(a), {"bye"}} : "full" \notin flags
      BY DEF ReqFlags
    <2> QED BY <1>1, <1>2, <2>1, <2>2, <2>3, GroupDated
  <1>7. ASSUME NEW a \in Node, NEW b \in Others(a), PollTargeted(a, b)
        PROVE  Dated(m)'
    <2>1. self' = self /\ self[a].started /\ b \in Node /\ b # a
      BY <1>7 DEF PollTargeted, Others
    <2>2. ~FullFor(dir[a].rec[b])
      BY <2>1, Unrefused
    <2>3. m \in net \/ \E flags \in {{"req", "one"}, {"one"}} : m = Datagram(a, b, flags, TRUE)
      BY <1>7, <2>2 DEF PollTargeted
    <2>4. \A flags \in {{"req", "one"}, {"one"}} : "full" \notin flags
      OBVIOUS
    <2> QED BY <1>1, <1>2, <2>1, <2>3, <2>4, DatagramDated
  <1>8. ASSUME NEW a \in Node, PollLoose(a)
        PROVE  Dated(m)'
    <2>1. dir[a].loose = {}
      BY Unrefused
    <2> QED BY <1>8, <2>1 DEF PollLoose
  <1>9. ASSUME NEW a \in Node, Open(a) \/ Solicit(a) \/ UpdateOffers(a) \/ Grow(a) \/ Crash(a) \/ Readvertise(a, ~Gathering)
        PROVE  Dated(m)'
    BY <1>2, <1>9 DEF Open, Solicit, UpdateOffers, Grow, Crash, Readvertise
  <1>10. ASSUME NEW a \in Node, NEW b \in Node, SweepDrop(a, b) \/ SweepGone(a, b) \/ LeftExpires(a, b) \/ Pulled(a, b)
         PROVE  Dated(m)'
    BY <1>2, <1>10 DEF SweepDrop, SweepGone, LeftExpires, Pulled
  <1>11. ASSUME NEW x \in net, Deliver(x) \/ Lose(x)
         PROVE  Dated(m)'
    BY <1>2, <1>11 DEF Deliver, Lose
  <1>12. CASE UNCHANGED vars
    BY <1>2, <1>12 DEF vars
  <1> QED BY <1>3, <1>4, <1>5, <1>6, <1>7, <1>8, <1>9, <1>10, <1>11, <1>12 DEF Next

\* a step of one node leaves its records judged, one step of the others leaves them alone
OneHolds == \E a \in Node : \E e : Holding(a, e) /\ dir' = [dir EXCEPT ![a] = e]

LEMMA ReadvertiseHolds ==
    ASSUME AssumeInv, NEW a \in Node, Readvertise(a, ~Gathering)
    PROVE  OneHolds
  <1> DEFINE va == self[a].ver + 1
  <1>1. PICK d \in ReplayPeers(a, va, dir[a]) :
            dir' = [dir EXCEPT ![a] = IF ~Gathering THEN RefetchUnmatched(a, va, d) ELSE d]
    BY DEF Readvertise
  <1>2. Holding(a, d)
    BY <1>1, Unrefused, ReplayHolds
  <1>3. Holding(a, RefetchUnmatched(a, va, d))
    BY <1>2, RefetchUnmatchedHolds
  <1> QED BY <1>1, <1>2, <1>3 DEF OneHolds

LEMMA PollTargetedHolds ==
    ASSUME AssumeInv, NEW a \in Node, NEW b \in Node, PollTargeted(a, b)
    PROVE  OneHolds
  <1> DEFINE r    == dir[a].rec[b]
             ask  == r.owed \cap AskBits # {}
             last == ask /\ r.tries <= 1
             q1   == Settle(r, AskBits \cup {"reply"})
             q2   == Settle(r, {"reply"})
             s1   == [q1 EXCEPT !.flags = q1.flags \cup {"missed"}]
             t2   == IF ask THEN q2.tries - 1 ELSE q2.tries
             s2   == [q2 EXCEPT !.tries = t2]
             r1   == IF last THEN s1 ELSE s2
             d1   == With(dir[a], b, r1)
  <1>1. Holding(a, dir[a]) /\ r \in Records /\ Judged(a, b, r)
    BY Unrefused
  <1>2. dir' = [dir EXCEPT ![a] = RefetchDone(d1, b)] \/ dir' = [dir EXCEPT ![a] = d1]
    BY DEF PollTargeted
  <1>3. Seems(r, q1) /\ Seems(r, q2)
    BY <1>1, SettleSeems
  <1> HIDE DEF r, q1, q2, last
  <1>4. q1 \in Records /\ q2 \in Records /\ Judged(a, b, q1) /\ Judged(a, b, q2)
    BY <1>1, <1>3, SeemsMinds, JudgedMinds
  <1>5. q1.flags \cup {"missed"} \in SUBSET Flags /\ t2 \in Int
    BY <1>4, Fields DEF Flags
  <1> HIDE DEF t2
  <1>6. /\ s1 \in Records /\ s1.want = q1.want /\ s1.ver = q1.ver /\ s1.flags = q1.flags \cup {"missed"}
        /\ s1.state = q1.state /\ s1.slot = q1.slot
    BY <1>4, <1>5, FlagsMind
  <1>7. Seems(q2, s2)
    BY <1>4, <1>5, EditsSeem
  <1> HIDE DEF s1, s2
  <1>8. Minds(q1, s1)
    BY <1>6 DEF Minds
  <1>9. s2 \in Records /\ Judged(a, b, s1) /\ Judged(a, b, s2)
    BY <1>4, <1>7, <1>8, SeemsMinds, JudgedMinds
  <1>10. r1 \in Records /\ Judged(a, b, r1)
    BY <1>6, <1>9
  <1> HIDE DEF r1
  <1>11. Holding(a, d1)
    BY <1>1, <1>10, WithHolds
  <1> HIDE DEF d1
  <1>12. Holding(a, RefetchDone(d1, b))
    BY <1>11, RefetchDoneHolds
  <1> QED BY <1>2, <1>11, <1>12 DEF OneHolds

LEMMA SweepDropHolds ==
    ASSUME AssumeInv, NEW a \in Node, NEW b \in Node, SweepDrop(a, b)
    PROVE  OneHolds
  <1> DEFINE r  == dir[a].rec[b]
             s  == [r EXCEPT !.state = "dropped", !.owed = {}]
             w  == With(dir[a], b, s)
             d1 == RefetchDone(w, b)
             p  == d1.opened \/ d1.rec[b].slot # "none"
             u  == [d1 EXCEPT !.opened = p]
  <1>1. Holding(a, dir[a]) /\ r \in Records /\ Judged(a, b, r) /\ r.state = "active"
    BY Unrefused DEF SweepDrop
  <1>2. PICK d \in OfferSlots(u) : dir' = [dir EXCEPT ![a] = d]
    BY DEF SweepDrop
  <1>3. r \in AnyRecord
    BY <1>1, Fields
  <1>4. s \in AnyRecord /\ s.state = "dropped" /\ s.slot = r.slot /\ s.owed = {}
        /\ s.want = r.want /\ s.ver = r.ver /\ s.flags = r.flags
    BY <1>3, Values, Zenon DEF AnyRecord
  <1> HIDE DEF s
  <1>5. s \in Records
    BY <1>4 DEF Records
  <1>6. Minds(r, s)
    BY <1>1, <1>4, <1>5 DEF Minds
  <1>7. Judged(a, b, s)
    BY <1>1, <1>6, JudgedMinds
  <1>8. Holding(a, w)
    BY <1>1, <1>5, <1>7, WithHolds
  <1> HIDE DEF w
  <1>9. Holding(a, d1) /\ p \in BOOLEAN
    BY <1>8, RefetchDoneHolds
  <1> HIDE DEF d1, p
  <1>10. Holding(a, u)
    BY <1>9, MarkHolds
  <1> HIDE DEF u
  <1>11. Holding(a, d)
    BY <1>2, <1>10, OffersHold
  <1> QED BY <1>2, <1>11 DEF OneHolds

LEMMA PulledHolds ==
    ASSUME AssumeInv, NEW a \in Node, NEW b \in Node, Pulled(a, b)
    PROVE  OneHolds
  <1> DEFINE r == dir[a].rec[b]
             s == [r EXCEPT !.got = r.ver]
             w == With(dir[a], b, s)
             u == RejudgeAt(a, self[a].ver, w, b)
  <1>1. Holding(a, dir[a]) /\ r \in Records /\ Judged(a, b, r) /\ r.ver \in Int
    BY Unrefused, Fields
  <1>2. PICK d \in OfferSlots(u) : dir' = [dir EXCEPT ![a] = d]
    BY DEF Pulled
  <1>3. Seems(r, s)
    BY <1>1, EditsSeem
  <1> HIDE DEF s
  <1>4. s \in Records /\ Judged(a, b, s)
    BY <1>1, <1>3, SeemsMinds, JudgedMinds
  <1>5. Holding(a, w)
    BY <1>1, <1>4, WithHolds
  <1> HIDE DEF w
  <1>6. Holding(a, u)
    BY <1>5, RejudgeHolds
  <1> HIDE DEF u
  <1>7. Holding(a, d)
    BY <1>2, <1>6, OffersHold
  <1> QED BY <1>2, <1>7 DEF OneHolds

LEMMA GrowHolds ==
    ASSUME AssumeInv, NEW a \in Node, Grow(a)
    PROVE  OneHolds
  <1> DEFINE d == dir[a]
             wanted == {b \in Node : Waiting(d.rec[b])} \cup Slotted(d)
             w1 == [d EXCEPT !.opened = TRUE]
             w2 == [w1 EXCEPT !.misses = FALSE]
             k  == IF Cardinality(wanted) > w2.cap THEN Cardinality(wanted) ELSE w2.cap
             u  == [w2 EXCEPT !.cap = k]
  <1>1. Holding(a, d)
    BY Unrefused
  <1>2. PICK e \in OfferSlots(u) : dir' = [dir EXCEPT ![a] = e]
    BY DEF Grow
  <1>3. wanted \subseteq Node
    BY DEF Slotted
  <1>4. Cardinality(wanted) \in Nat
    BY <1>3, NodesFinite
  <1> HIDE DEF d, wanted
  <1>5. Holding(a, w1)
    BY <1>1, MarkHolds
  <1> HIDE DEF w1
  <1>6. Holding(a, w2)
    BY <1>5, MarkHolds
  <1> HIDE DEF w2
  <1>7. w2 \in Directories /\ AllJudged(a, w2) /\ w2.cap \in Nat
    BY <1>6, Parts DEF Holding
  <1>8. k \in Nat /\ k >= w2.cap
    BY <1>4, <1>7
  <1> HIDE DEF k
  <1>9. u \in Directories /\ u.rec = w2.rec /\ u.cap = k /\ u.loose = w2.loose
    BY <1>7, <1>8, Zenon DEF Directories
  <1> HIDE DEF u
  <1>10. Cap \in Nat
    BY DiscoveryAssumption
  <1>11. Holding(a, u)
    BY <1>7, <1>8, <1>9, <1>10 DEF Holding, AllJudged
  <1>12. Holding(a, e)
    BY <1>2, <1>11, OffersHold
  <1> QED BY <1>2, <1>12 DEF OneHolds

LEMMA LeftExpiresHolds ==
    ASSUME AssumeInv, NEW a \in Node, NEW b \in Node, LeftExpires(a, b)
    PROVE  OneHolds
  <1> DEFINE d == dir[a]
             k == d.left \ {b}
             e == [d EXCEPT !.left = k]
  <1>1. d \in Directories /\ AllJudged(a, d)
    BY Unrefused DEF Holding
  <1>2. k \in SUBSET Node
    BY <1>1, Parts
  <1>3. dir' = [dir EXCEPT ![a] = e]
    BY DEF LeftExpires
  <1> HIDE DEF d, k
  <1>4. e \in Directories /\ e.rec = d.rec /\ e.cap = d.cap /\ e.loose = d.loose
    BY <1>1, <1>2, Zenon DEF Directories
  <1> HIDE DEF e
  <1>5. Holding(a, e)
    BY <1>1, <1>4 DEF Holding, AllJudged
  <1> QED BY <1>3, <1>5 DEF OneHolds

LEMMA NewDirectoryHolds ==
    ASSUME self \in [Node -> Selves], Aged, setup \in Setups, NEW a
    PROVE  Holding(a, NewDirectory)
  <1>1. NewDirectory \in Directories
    BY NewDirectoryIs
  <1>2. NewDirectory.loose = {} /\ NewDirectory.cap = Cap /\ \A b \in Node : NewDirectory.rec[b] = Blank
    BY DEF NewDirectory
  <1>3. \A b \in Node : Judged(a, b, Blank)
    BY BlankJudged
  <1>4. Cap \in Nat
    BY DiscoveryAssumption
  <1> QED BY <1>1, <1>2, <1>3, <1>4 DEF Holding, AllJudged

LEMMA NextHolds ==
    ASSUME AssumeInv, Roomy, [Next]_vars
    PROVE  OneHolds \/ dir' = dir
  <1>0. /\ self \in [Node -> Selves] /\ Aged /\ setup \in Setups
        /\ \A a \in Node : Others(a) \subseteq Node
    BY DEF AssumeInv, DiscoveryInv, Typed, Others
  <1>1. CASE Tick
    BY <1>1 DEF Tick
  <1>2. ASSUME NEW a \in Node,
               Open(a) \/ Opening(a) \/ SendSolicit(a) \/ RepeatOpening(a) \/ Announce(a) \/ Solicit(a)
        PROVE  dir' = dir
    BY <1>2 DEF Open, Opening, SendSolicit, RepeatOpening, Announce, Solicit
  <1>3. ASSUME NEW a \in Node, PollLoose(a)
        PROVE  FALSE
    BY <1>3, Unrefused DEF PollLoose
  <1>4. ASSUME NEW a \in Node, UpdateOffers(a)
        PROVE  OneHolds
    BY <1>4, Unrefused, OffersHold DEF UpdateOffers, OneHolds
  <1>5. ASSUME NEW a \in Node, Leave(a) \/ Crash(a)
        PROVE  OneHolds
    BY <1>0, <1>5, NewDirectoryHolds DEF Leave, Crash, OneHolds
  <1>6. ASSUME NEW a \in Node, NEW b \in Node, SweepGone(a, b)
        PROVE  OneHolds
    <2>1. PICK e \in OfferSlots(Gone(dir[a], b)) : dir' = [dir EXCEPT ![a] = e]
      BY <1>6 DEF SweepGone
    <2>2. Holding(a, Gone(dir[a], b))
      BY <1>0, Unrefused, GoneHolds
    <2>3. Holding(a, e)
      BY <2>1, <2>2, OffersHold
    <2> QED BY <2>1, <2>3 DEF OneHolds
  <1>7. ASSUME NEW m \in net, Deliver(m)
        PROVE  OneHolds \/ dir' = dir
    <2>1. m.dst \in Node
      BY DEF AssumeInv, DiscoveryInv, Typed, Readable
    <2>2. dir' = dir \/ \E e \in OnDatagram(m.dst, m) : dir' = [dir EXCEPT ![m.dst] = e]
      BY <1>7 DEF Deliver
    <2> QED BY <2>1, <2>2, OnDatagramHolds DEF OneHolds
  <1>8. ASSUME NEW m \in net, Lose(m)
        PROVE  dir' = dir
    BY <1>8 DEF Lose
  <1>9. CASE UNCHANGED vars
    BY <1>9 DEF vars
  <1> QED BY <1>0, <1>1, <1>2, <1>3, <1>4, <1>5, <1>6, <1>7, <1>8, <1>9, ReadvertiseHolds, GrowHolds,
             PollTargetedHolds, SweepDropHolds, LeftExpiresHolds, PulledHolds DEF Next

\* Where everybody fits the invariant is inductive.
LEMMA AssumeKeeps ==
    ASSUME AssumeInv, Roomy, [Next]_vars
    PROVE  AssumeInv'
  <1>1. Grows /\ DiscoveryInv'
    BY NextGrows, NextKeeps DEF AssumeInv
  <1>2. Aged'
    <2>1. \A a \in Node : self[a].ver \in Int /\ self'[a].ver \in Int /\ self[a].ver >= 1
      BY <1>1 DEF Grows, Selves, AssumeInv, Aged
    <2> QED BY <1>1, <2>1 DEF Grows, Aged
  <1>3. \A m \in net' : Dated(m)'
    BY NextDated
  <1>4. \A a \in Node : Holding(a, dir'[a])
    <2>1. \A a \in Node : Holding(a, dir[a])
      BY Unrefused
    <2>2. dir \in [Node -> Directories]
      BY DEF AssumeInv, DiscoveryInv, Typed
    <2> QED BY <2>1, <2>2, NextHolds DEF OneHolds
  <1>5. \A a \in Node : AllJudged(a, dir[a])'
    <2> TAKE a \in Node
    <2>1. ASSUME NEW d, d = dir'[a]
          PROVE  AllJudged(a, d)'
      BY <1>1, <1>4, <2>1, HoldingGrows
    <2> QED BY <2>1 DEF AllJudged, Judged, Elder
  <1> QED BY <1>1, <1>2, <1>3, <1>5 DEF AssumeInv

\* Where no node runs short of slots or records, two nodes never both take the
\* other as judged, whatever is lost, delayed or restarted: whoever is assumed
\* changed before the one that assumes it (assume_judged in discovery/core.c).
THEOREM OneSideAsks == Roomy => (Spec => []NeverBothAssume)
  <1> SUFFICES ASSUME Roomy
               PROVE  Spec => []NeverBothAssume
    OBVIOUS
  <1>1. Init => AssumeInv
    <2> SUFFICES ASSUME Init
                 PROVE  AssumeInv
      OBVIOUS
    <2>1. DiscoveryInv
      BY InitInv
    <2>2. self \in [Node -> Selves] /\ setup \in Setups
      BY <2>1 DEF DiscoveryInv, Typed
    <2>3. Aged /\ \A m \in net : Dated(m)
      BY DEF Init, Aged
    <2>4. \A a \in Node : Holding(a, NewDirectory)
      BY <2>2, <2>3, NewDirectoryHolds
    <2> QED BY <2>1, <2>3, <2>4 DEF AssumeInv, Init, Holding
  <1>2. AssumeInv /\ [Next]_vars => AssumeInv'
    BY AssumeKeeps
  <1>3. AssumeInv => NeverBothAssume
    <2> SUFFICES ASSUME AssumeInv, NEW a \in Node, NEW b \in Others(a), Assumed(a, b), Assumed(b, a)
                 PROVE  FALSE
      BY DEF NeverBothAssume
    <2>1. b \in Node /\ Judged(a, b, dir[a].rec[b]) /\ Judged(b, a, dir[b].rec[a])
      BY DEF Others, AssumeInv, AllJudged
    <2>2. Elder(a, b) /\ Elder(b, a)
      BY <2>1 DEF Assumed, Judged
    <2>3. self[a].changed \in Int /\ self[b].changed \in Int
      BY <2>1 DEF AssumeInv, DiscoveryInv, Typed, Selves
    <2> QED BY <2>2, <2>3 DEF Elder
  <1> QED BY <1>1, <1>2, <1>3, PTL DEF Spec
=============================================================================
