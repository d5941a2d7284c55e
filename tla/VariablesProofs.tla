---------------------------- MODULE VariablesProofs ----------------------------
(***************************************************************************)
(* Proofs about Variables, for any programs, observers, owners, accessors  *)
(* and threads: what the application is shown and told is how it is, as    *)
(* long as the values have one length and no observer forces, and a force  *)
(* hides the source without losing it as long as no unforce shares its     *)
(* variable between its look at the flag and its write.                    *)
(***************************************************************************)
EXTENDS Variables, SeqLemmas

\* a definition, a cache, and a call, with all their fields
IsOwner(v) ==
    /\ v = [life |-> v.life, store |-> v.store, shadow |-> v.shadow, forced |-> v.forced, has |-> v.has,
            seq |-> v.seq, out |-> v.out, watch |-> v.watch, dup |-> v.dup, status |-> v.status,
            told |-> v.told, parked |-> v.parked]
    /\ v.forced \in BOOLEAN
IsCache(v) ==
    v = [has |-> v.has, store |-> v.store, forced |-> v.forced, seq |-> v.seq, src |-> v.src,
         watch |-> v.watch, told |-> v.told, parked |-> v.parked]
IsFrame(f) == f = [call |-> f.call, at |-> f.at, sent |-> f.sent, seen |-> f.seen]

\* The calls an actor is in: only the innermost one waits or moves.
IsStack(s) ==
    /\ s \in Seq(Held(s))
    /\ \A i \in 1 .. Len(s) : IsFrame(s[i])
    /\ \A i \in 1 .. (Len(s) - 1) : s[i].at # "settle"
StacksOK == stk = [t \in Actor |-> stk[t]] /\ \A t \in Actor : IsStack(stk[t])

\* The writes that wait for the queue, each with its state and whether it changed it.
IsBacklog(s) ==
    /\ s \in Seq(Held(s))
    /\ \A i \in 1 .. Len(s) : s[i] = [state |-> s[i].state, changed |-> s[i].changed]

\* The last change among these writes is to x.
EndsAt(s, x) ==
    \E i \in 1 .. Len(s) : s[i].changed /\ s[i].state = x /\ \A j \in (i + 1) .. Len(s) : ~s[j].changed
NoChange(s) == \A i \in 1 .. Len(s) : ~s[i].changed

\* What observers were told, or will be by the time the queue is empty, is the state.
Promised(v) == v.watch /\ v.has => EndsAt(v.parked, State(v)) \/ (NoChange(v.parked) /\ v.told = State(v))
\* The queue of a definition or a cache, under a setup.
Stocked(v, queued) == IsBacklog(v.parked) /\ (~queued => v.parked = <<>>)
Telling(v, queued) == Stocked(v, queued) /\ Promised(v)

\* The problems of a listed definition, against the claims its node has applied.
Showing(v, c) ==
    Listed(v) => v.dup = c /\ v.status = [rivals |-> v.dup, forced |-> v.forced]

\* A sound definition: its fields, its queue, the problems it shows.
Kept(v, c) == IsOwner(v) /\ Stocked(v, setup.queued) /\ Showing(v, c)

\* What the application has to do for the observers' sake: its values have one
\* length, and its observers neither force nor unforce.
Steady(s) == s.fixed /\ (s.body # <<>> => s.body[1].op \notin {"force", "unforce"})

\* A call that has yet to say what changed, and one that has no observer out.
Owes(f) == f.at \in {"cb", "change"} /\ f.seen.changed
Idle(f) == f.at \notin {"cb", "change", "cbend"}

\* An observer is counted while it is out, and nobody forces or unforces before it
\* has been told: the flag of its view is the variable's.
Watched(f, k, v) == (~Idle(f) => k \in v.out) /\ (Owes(f) => f.seen.forced = v.forced)
Standing(f, t, i) ==
    /\ i > 1 => f.call.op \notin {"force", "unforce"}
    /\ Owes(f) => ~setup.queued
    /\ f.call.node \in Owner => Watched(f, <<t, i>>, own[f.call.node])
FramesOK ==
    /\ \A t \in Actor : \A i \in 1 .. Len(stk[t]) : Standing(stk[t][i], t, i)
    /\ \A o \in Owner : own[o].life = "none" => own[o].out = {}

\* The observers of o are still to be told, or the application asks for too much.
Owed(o) == ~Steady(setup) \/ Pending(o)

\* The inductive invariant of KnownTrue: the owners' part, and the accessors'.
OwnersKnown ==
    /\ StacksOK
    /\ own = [o \in Owner |-> own[o]]
    /\ claims = [o \in Owner |-> claims[o]]
    /\ \A o \in Owner : Kept(own[o], claims[o]) /\ (Owed(o) \/ Promised(own[o]))
    /\ Steady(setup) => FramesOK
CachesKnown ==
    /\ acc = [a \in Accessor |-> acc[a]]
    /\ \A a \in Accessor : IsCache(acc[a]) /\ Telling(acc[a], setup.queued)
KnownInv == OwnersKnown /\ CachesKnown

-----------------------------------------------------------------------------
(* A backlog and what it promises.                                         *)

LEMMA EmptyBacklog == IsBacklog(<<>>) /\ NoChange(<<>>)
  BY HeldNone DEF IsBacklog, NoChange

\* A write joins the backlog: a change is what it now ends at.
LEMMA BacklogAppend ==
    ASSUME NEW s, IsBacklog(s), NEW x, NEW c
    PROVE  LET r == Append(s, [state |-> x, changed |-> c]) IN
           /\ IsBacklog(r)
           /\ c => EndsAt(r, x)
           /\ ~c => \A y : (EndsAt(s, y) => EndsAt(r, y)) /\ (NoChange(s) => NoChange(r))
  <1> DEFINE e == [state |-> x, changed |-> c]
             r == Append(s, e)
  <1>1. /\ s \in Seq(Held(s)) /\ r \in Seq(Held(s) \cup {e}) /\ Len(r) = Len(s) + 1 /\ r[Len(s) + 1] = e
        /\ Len(s) \in Nat /\ \A i \in 1 .. Len(s) : r[i] = s[i]
    <2>1. s \in Seq(Held(s)) /\ s \in Seq(Held(s) \cup {e})
      BY DEF IsBacklog
    <2> HIDE DEF e
    <2> QED BY <2>1
  <1>3. r \in Seq(Held(r))
    <2> DEFINE S == Held(s) \cup {e}
    <2>1. r \in Seq(S)
      BY <1>1
    <2> HIDE DEF S, r
    <2> QED BY <2>1, SeqOver
  <1>4. e = [state |-> e.state, changed |-> e.changed] /\ e.state = x /\ e.changed = c
    OBVIOUS
  <1> HIDE DEF r, e
  <1>5. IsBacklog(r)
    <2>1. ASSUME NEW i \in 1 .. Len(r) PROVE r[i] = [state |-> r[i].state, changed |-> r[i].changed]
      <3>1. i \in 1 .. Len(s) \/ r[i] = e
        BY <1>1
      <3> QED BY <3>1, <1>1, <1>4 DEF IsBacklog
    <2> QED BY <1>3, <2>1 DEF IsBacklog
  <1>6. c => EndsAt(r, x)
    <2> SUFFICES ASSUME c PROVE EndsAt(r, x)
      OBVIOUS
    <2>1. Len(r) \in 1 .. Len(r) /\ r[Len(r)] = e /\ (Len(r) + 1) .. Len(r) = {}
      BY <1>1
    <2> QED BY <2>1, <1>4 DEF EndsAt
  <1>7. ASSUME ~c, NEW y PROVE (EndsAt(s, y) => EndsAt(r, y)) /\ (NoChange(s) => NoChange(r))
    <2>1. \A i \in 1 .. Len(r) : i \in 1 .. Len(s) \/ r[i] = e
      BY <1>1
    <2>2. NoChange(s) => NoChange(r)
      BY <2>1, <1>1, <1>4, <1>7 DEF NoChange
    <2>3. ASSUME EndsAt(s, y) PROVE EndsAt(r, y)
      <3>1. PICK i \in 1 .. Len(s) : s[i].changed /\ s[i].state = y /\ \A j \in (i + 1) .. Len(s) : ~s[j].changed
        BY <2>3 DEF EndsAt
      <3>2. i \in 1 .. Len(r) /\ r[i] = s[i]
        BY <1>1
      <3>3. ASSUME NEW j \in (i + 1) .. Len(r) PROVE ~r[j].changed
        <4>1. j \in (i + 1) .. Len(s) \/ j = Len(s) + 1
          BY <1>1
        <4> QED BY <4>1, <3>1, <1>1, <1>4, <1>7
      <3> QED BY <3>1, <3>2, <3>3 DEF EndsAt
    <2> QED BY <2>2, <2>3
  <1> QED BY <1>5, <1>6, <1>7 DEF r, e

\* A dispatch takes the oldest write off: it is the last change, or that is still to come.
LEMMA BacklogTail ==
    ASSUME NEW s, IsBacklog(s), s # <<>>
    PROVE  /\ IsBacklog(Tail(s))
           /\ NoChange(s) => NoChange(Tail(s)) /\ ~Head(s).changed
           /\ \A y : EndsAt(s, y) =>
                 EndsAt(Tail(s), y) \/ (NoChange(Tail(s)) /\ Head(s).changed /\ Head(s).state = y)
  <1>1. s \in Seq(Held(s))
    BY DEF IsBacklog
  <1>2. /\ Tail(s) \in Seq(Held(s)) /\ Len(Tail(s)) = Len(s) - 1 /\ Len(s) \in Nat \ {0} /\ Head(s) = s[1]
        /\ \A i \in 1 .. (Len(s) - 1) : Tail(s)[i] = s[i + 1]
    <2> DEFINE S == Held(s)
    <2>1. s \in Seq(S)
      BY <1>1
    <2> HIDE DEF S
    <2>2. Tail(s) \in Seq(S) /\ Len(Tail(s)) = Len(s) - 1 /\ Len(s) \in Nat \ {0} /\ Head(s) = s[1]
      BY <2>1
    <2>3. \A i \in 1 .. (Len(s) - 1) : Tail(s)[i] = s[i + 1]
      BY <2>1
    <2> QED BY <2>2, <2>3 DEF S
  <1>3. Tail(s) \in Seq(Held(Tail(s)))
    BY <1>2, SeqOver DEF Held
  <1>4. IsBacklog(Tail(s))
    <2>1. ASSUME NEW i \in 1 .. Len(Tail(s)) PROVE Tail(s)[i] = [state |-> Tail(s)[i].state, changed |-> Tail(s)[i].changed]
      <3>1. i \in 1 .. (Len(s) - 1) /\ i + 1 \in 1 .. Len(s)
        BY <1>2
      <3> QED BY <3>1, <1>2 DEF IsBacklog
    <2> QED BY <1>3, <2>1 DEF IsBacklog
  <1>5. NoChange(s) => NoChange(Tail(s)) /\ ~Head(s).changed
    <2>1. \A i \in 1 .. Len(Tail(s)) : Tail(s)[i] = s[i + 1] /\ i + 1 \in 1 .. Len(s)
      BY <1>2
    <2>2. 1 \in 1 .. Len(s)
      BY <1>2
    <2> QED BY <2>1, <2>2, <1>2 DEF NoChange
  <1>6. ASSUME NEW y, EndsAt(s, y)
        PROVE  EndsAt(Tail(s), y) \/ (NoChange(Tail(s)) /\ Head(s).changed /\ Head(s).state = y)
    <2>1. PICK i \in 1 .. Len(s) : s[i].changed /\ s[i].state = y /\ \A j \in (i + 1) .. Len(s) : ~s[j].changed
      BY <1>6 DEF EndsAt
    <2>2. CASE i = 1
      <3>1. ASSUME NEW j \in 1 .. Len(Tail(s)) PROVE ~Tail(s)[j].changed
        <4>1. j \in 1 .. (Len(s) - 1) /\ j + 1 \in (i + 1) .. Len(s)
          BY <1>2, <2>2
        <4> QED BY <4>1, <1>2, <2>1
      <3> QED BY <3>1, <2>1, <2>2, <1>2 DEF NoChange
    <2>3. CASE i # 1
      <3>1. i - 1 \in 1 .. Len(Tail(s)) /\ i - 1 \in 1 .. (Len(s) - 1) /\ (i - 1) + 1 = i
        BY <2>3, <1>2
      <3>2. Tail(s)[i - 1] = s[i]
        BY <3>1, <1>2
      <3>3. ASSUME NEW j \in ((i - 1) + 1) .. Len(Tail(s)) PROVE ~Tail(s)[j].changed
        <4>1. j \in 1 .. (Len(s) - 1) /\ j + 1 \in (i + 1) .. Len(s)
          BY <1>2, <3>1
        <4> QED BY <4>1, <1>2, <2>1
      <3> QED BY <3>1, <3>2, <3>3, <2>1 DEF EndsAt
    <2> QED BY <2>2, <2>3
  <1> QED BY <1>4, <1>5, <1>6

-----------------------------------------------------------------------------
(* The calls an actor is in.                                               *)

\* r is s with its innermost call replaced, with one more, and as far as the n-th.
Onward(r, s, f) == r = [s EXCEPT ![Len(s)] = f]
Pushed(r, s, c) == r = Append(s, Frame(c))
Below(r, s, n) == \A i \in 1 .. n : i \in 1 .. Len(r) /\ i \in 1 .. Len(s) /\ r[i] = s[i]

LEMMA StackLen ==
    ASSUME NEW s, IsStack(s)
    PROVE  Len(s) \in Nat /\ (s # <<>> => Len(s) \in Nat \ {0} /\ Len(s) \in 1 .. Len(s) /\ IsFrame(s[Len(s)]))
  <1> DEFINE S == Held(s)
  <1>1. s \in Seq(S)
    BY DEF IsStack
  <1> HIDE DEF S
  <1>2. Len(s) \in Nat /\ (s # <<>> => Len(s) \in Nat \ {0} /\ Len(s) \in 1 .. Len(s))
    BY <1>1
  <1> QED BY <1>2 DEF IsStack

\* The innermost call moves on.
LEMMA StackTop ==
    ASSUME NEW s, IsStack(s), s # <<>>, NEW f, IsFrame(f),
           NEW r, Onward(r, s, f)
    PROVE  IsStack(r) /\ r # <<>> /\ Len(r) = Len(s) /\ r[Len(s)] = f /\ Below(r, s, Len(s) - 1)
  <1> DEFINE S == Held(s) \cup {f}
  <1>1. s \in Seq(Held(s)) /\ s \in Seq(S)
    BY DEF IsStack
  <1>2. /\ Len(s) \in Nat \ {0} /\ r \in Seq(S) /\ Len(r) = Len(s) /\ r[Len(s)] = f
        /\ \A i \in 1 .. Len(s) : i # Len(s) => r[i] = s[i]
    <2> HIDE DEF S
    <2>1. f \in S
      BY DEF S
    <2> QED BY <1>1, <2>1 DEF Onward
  <1>3. r \in Seq(Held(r))
    BY <1>2, SeqOver
  <1>4. r # <<>>
    BY <1>2
  <1>5. \A i \in 1 .. Len(r) : IsFrame(r[i])
    BY <1>2 DEF IsStack
  <1>6. \A i \in 1 .. (Len(s) - 1) : i \in 1 .. Len(r) /\ i \in 1 .. Len(s) /\ r[i] = s[i]
    <2>1. Len(s) \in Nat
      BY <1>2
    <2>2. \A i \in 1 .. (Len(s) - 1) : i \in 1 .. Len(s) /\ i # Len(s)
      BY <2>1
    <2> QED BY <2>2, <1>2
  <1>7. \A i \in 1 .. (Len(r) - 1) : r[i].at # "settle"
    BY <1>2, <1>6 DEF IsStack
  <1> QED BY <1>2, <1>3, <1>4, <1>5, <1>6, <1>7 DEF IsStack, Below

\* It returns to one that does not wait, or to the application.
LEMMA StackPop ==
    ASSUME NEW s, IsStack(s), s # <<>>, NEW r, r = Front(s)
    PROVE  /\ IsStack(r) /\ (r # <<>> => r[Len(r)].at # "settle")
           /\ Len(r) = Len(s) - 1 /\ Below(r, s, Len(s) - 1)
  <1>1. s \in Seq(Held(s)) /\ Len(s) \in Nat \ {0}
    <2> DEFINE S == Held(s)
    <2>1. s \in Seq(S)
      BY DEF IsStack
    <2> HIDE DEF S
    <2>2. Len(s) \in Nat \ {0}
      BY <2>1
    <2> QED BY <2>1, <2>2 DEF S
  <1>3. /\ r \in Seq(Held(s)) /\ Len(r) = Len(s) - 1 /\ \A i \in 1 .. (Len(s) - 1) : r[i] = s[i]
    <2> DEFINE S == Held(s)
    <2>1. r = SubSeq(s, 1, Len(s) - 1) /\ s \in Seq(S)
      BY <1>1 DEF Front
    <2> HIDE DEF S
    <2>2. r \in Seq(S)
      BY <2>1, <1>1
    <2>3. Len(r) = Len(s) - 1 /\ \A i \in 1 .. (Len(s) - 1) : r[i] = s[i]
      <3>1. PICK n \in Nat : n = Len(s) - 1
        BY <1>1
      <3>2. r = SubSeq(s, 1, n) /\ \A i \in 1 .. n : s[i] \in S
        BY <1>1, <2>1, <3>1
      <3>3. Len(r) = (IF 1 <= n THEN n - 1 + 1 ELSE 0) /\ \A i \in 1 .. (n - 1 + 1) : r[i] = s[1 + i - 1]
        BY <3>2, SubSeqProperties
      <3>4. n - 1 + 1 = n /\ \A i \in 1 .. n : 1 + i - 1 = i
        OBVIOUS
      <3>5. Len(r) = n /\ \A i \in 1 .. n : r[i] = s[i]
        BY <3>3, <3>4
      <3> QED BY <3>1, <3>5
    <2> QED BY <2>2, <2>3 DEF S
  <1>4. r \in Seq(Held(r))
    BY <1>3, SeqOver
  <1>5. \A i \in 1 .. (Len(s) - 1) : i \in 1 .. Len(r) /\ i \in 1 .. Len(s) /\ r[i] = s[i]
    BY <1>1, <1>3
  <1>6. \A i \in 1 .. Len(r) : IsFrame(r[i]) /\ r[i].at # "settle"
    BY <1>3, <1>5 DEF IsStack
  <1>7. \A i \in 1 .. (Len(r) - 1) : i \in 1 .. Len(r)
    BY <1>1, <1>3
  <1>8. r # <<>> => Len(r) \in 1 .. Len(r)
    BY <1>3, <1>1
  <1> QED BY <1>3, <1>4, <1>5, <1>6, <1>7, <1>8 DEF IsStack, Below

\* A call of the application, or of an observer.
LEMMA StackPush ==
    ASSUME NEW s, IsStack(s), s # <<>> => s[Len(s)].at # "settle", NEW c, NEW r, Pushed(r, s, c)
    PROVE  /\ IsStack(r) /\ r # <<>> /\ Len(r) = Len(s) + 1 /\ r[Len(r)].at = "start" /\ r[Len(r)].call = c
           /\ Below(r, s, Len(s))
  <1>1. PICK f : f = Frame(c)
    OBVIOUS
  <1>2. IsFrame(f) /\ f.at = "start" /\ f.call = c
    BY <1>1 DEF Frame, IsFrame
  <1> DEFINE S == Held(s) \cup {f}
  <1>3. s \in Seq(S)
    BY DEF IsStack
  <1>4. /\ r \in Seq(S) /\ Len(r) = Len(s) + 1 /\ Len(s) \in Nat /\ r[Len(s) + 1] = f
        /\ \A i \in 1 .. Len(s) : r[i] = s[i]
    <2>1. f \in S
      OBVIOUS
    <2> HIDE DEF S
    <2> QED BY <1>1, <1>3, <2>1 DEF Pushed
  <1>5. r \in Seq(Held(r)) /\ r # <<>>
    <2> HIDE DEF S
    <2>1. r \in Seq(Held(r))
      BY <1>4, SeqOver
    <2>2. Len(r) # 0
      BY <1>4
    <2> QED BY <2>1, <2>2
  <1>6. \A i \in 1 .. Len(r) : i \in 1 .. Len(s) \/ r[i] = f
    BY <1>4
  <1>7. \A i \in 1 .. Len(r) : IsFrame(r[i])
    <2>1. ASSUME NEW i \in 1 .. Len(r) PROVE IsFrame(r[i])
      <3>1. CASE i \in 1 .. Len(s)
        BY <3>1, <1>4 DEF IsStack
      <3>2. CASE r[i] = f
        BY <3>2, <1>2
      <3> QED BY <3>1, <3>2, <1>6
    <2> QED BY <2>1
  <1>8. \A i \in 1 .. (Len(r) - 1) : r[i].at # "settle"
    <2>1. \A i \in 1 .. (Len(r) - 1) : i \in 1 .. Len(s) /\ (i \in 1 .. (Len(s) - 1) \/ i = Len(s)) /\ r[i] = s[i]
      BY <1>4
    <2>2. Len(r) - 1 >= 1 => s # <<>>
      BY <1>4
    <2>3. \A i \in 1 .. (Len(r) - 1) : s # <<>>
      BY <1>4, <2>2
    <2> QED BY <2>1, <2>3 DEF IsStack
  <1>9. r[Len(r)] = f
    BY <1>4
  <1>10. \A i \in 1 .. Len(s) : i \in 1 .. Len(r) /\ r[i] = s[i]
    BY <1>4
  <1> QED BY <1>2, <1>4, <1>5, <1>7, <1>8, <1>9, <1>10 DEF IsStack, Below

\* An actor's first call.
LEMMA StackFirst ==
    ASSUME NEW c, NEW r, r = <<Frame(c)>>
    PROVE  IsStack(r) /\ r # <<>> /\ Len(r) = 1 /\ r[Len(r)].at = "start"
  <1>1. PICK e : e = <<>>
    OBVIOUS
  <1>2. IsStack(e) /\ Len(e) = 0
    BY <1>1, HeldNone DEF IsStack
  <1>3. Pushed(r, e, c)
    BY <1>1 DEF Pushed
  <1> QED BY <1>1, <1>2, <1>3, StackPush

\* The innermost call goes on to l.
Stays(r, s, l) ==
    /\ IsStack(r) /\ r # <<>> /\ Len(r) = Len(s) /\ Below(r, s, Len(s) - 1)
    /\ r[Len(s)].at = l /\ r[Len(s)].call = s[Len(s)].call /\ r[Len(s)].seen = s[Len(s)].seen

\* Where the innermost call goes on.
LEMMA GotoTop ==
    ASSUME StacksOK, NEW t \in Actor, stk[t] # <<>>, NEW l
    PROVE  \E r : Goto(t, l) = [stk EXCEPT ![t] = r] /\ Stays(r, stk[t], l)
  <1>1. PICK s : s = stk[t]
    OBVIOUS
  <1>2. IsStack(s) /\ s # <<>>
    BY <1>1 DEF StacksOK
  <1>3. PICK g : g = s[Len(s)]
    OBVIOUS
  <1>4. PICK f : f = [g EXCEPT !.at = l]
    OBVIOUS
  <1>5. PICK r : r = [s EXCEPT ![Len(s)] = f]
    OBVIOUS
  <1>6. IsFrame(g)
    BY <1>2, <1>3, StackLen
  <1>7. IsFrame(f) /\ f.at = l /\ f.call = g.call /\ f.seen = g.seen
    BY <1>4, <1>6 DEF IsFrame
  <1>8. IsStack(r) /\ r # <<>> /\ Len(r) = Len(s) /\ r[Len(s)] = f /\ Below(r, s, Len(s) - 1)
    <2>1. Onward(r, s, f)
      BY <1>5 DEF Onward
    <2> QED BY <1>2, <1>7, <2>1, StackTop
  <1>9. Goto(t, l) = [stk EXCEPT ![t] = r]
    BY <1>1, <1>3, <1>4, <1>5 DEF Goto
  <1>10. Stays(r, s, l)
    BY <1>3, <1>7, <1>8 DEF Stays
  <1> QED BY <1>1, <1>9, <1>10

\* The innermost call goes on to l, and its observer may start a call.
Goes(r, s, l) ==
    /\ IsStack(r) /\ r # <<>> /\ Below(r, s, Len(s) - 1)
    /\ r[Len(s)].at = l /\ r[Len(s)].call = s[Len(s)].call /\ r[Len(s)].seen = s[Len(s)].seen
    /\ \/ Len(r) = Len(s)
       \/ /\ Len(r) = Len(s) + 1 /\ r[Len(r)].at = "start"
          /\ r[Len(r)].call = setup.body[1] /\ setup.body # <<>>

LEMMA GotoGoes ==
    ASSUME StacksOK, NEW t \in Actor, stk[t] # <<>>, NEW l
    PROVE  \E r : Goto(t, l) = [stk EXCEPT ![t] = r] /\ Goes(r, stk[t], l)
  <1>1. PICK r : Goto(t, l) = [stk EXCEPT ![t] = r] /\ Stays(r, stk[t], l)
    BY GotoTop
  <1>2. Goes(r, stk[t], l)
    BY <1>1 DEF Goes, Stays
  <1> QED BY <1>1, <1>2

\* The innermost call goes on and its observer makes a call.
LEMMA UnderGoes ==
    ASSUME StacksOK, NEW t \in Actor, stk[t] # <<>>, NEW l, l # "settle", setup.body # <<>>
    PROVE  \E r : Under(t, l) = [stk EXCEPT ![t] = r] /\ Goes(r, stk[t], l)
  <1>1. PICK s : s = stk[t]
    OBVIOUS
  <1>2. PICK r : Goto(t, l) = [stk EXCEPT ![t] = r] /\ Stays(r, s, l)
    BY <1>1, GotoTop
  <1>3. PICK c : c = setup.body[1]
    OBVIOUS
  <1>4. PICK q : q = Append(r, Frame(c))
    OBVIOUS
  <1>5. /\ IsStack(q) /\ q # <<>> /\ Len(q) = Len(r) + 1 /\ q[Len(q)].at = "start" /\ q[Len(q)].call = c
        /\ Below(q, r, Len(r))
    <2>1. Pushed(q, r, c) /\ r[Len(r)].at # "settle" /\ IsStack(r)
      BY <1>2, <1>4 DEF Pushed, Stays
    <2> QED BY <2>1, StackPush
  <1>6. Under(t, l) = [stk EXCEPT ![t] = q]
    <2>1. \A x : [[stk EXCEPT ![t] = r] EXCEPT ![t] = x] = [stk EXCEPT ![t] = x]
      BY DEF StacksOK
    <2>2. Under(t, l) = [[stk EXCEPT ![t] = r] EXCEPT ![t] = Append(@, Frame(c))]
      BY <1>2, <1>3 DEF Under
    <2>3. [stk EXCEPT ![t] = r][t] = r
      BY DEF StacksOK
    <2> QED BY <1>4, <2>1, <2>2, <2>3
  <1>7. Len(s) \in Nat \ {0} /\ Len(r) \in 1 .. Len(r)
    <2>1. IsStack(s) /\ s # <<>>
      BY <1>1 DEF StacksOK
    <2> QED BY <1>2, <2>1, StackLen DEF Stays
  <1>8. q[Len(s)] = r[Len(s)]
    BY <1>2, <1>5, <1>7 DEF Below, Stays
  <1>9. Below(q, s, Len(s) - 1)
    <2>1. ASSUME NEW i \in 1 .. (Len(s) - 1) PROVE i \in 1 .. Len(q) /\ i \in 1 .. Len(s) /\ q[i] = s[i]
      <3>1. i \in 1 .. Len(r) /\ i \in 1 .. Len(s) /\ r[i] = s[i]
        BY <1>2, <2>1 DEF Below, Stays
      <3>2. i \in 1 .. Len(q) /\ q[i] = r[i]
        BY <1>5, <3>1 DEF Below
      <3> QED BY <3>1, <3>2
    <2> QED BY <2>1 DEF Below
  <1>10. Len(q) = Len(s) + 1 /\ q[Len(s)].at = l /\ q[Len(s)].call = s[Len(s)].call /\ q[Len(s)].seen = s[Len(s)].seen
    BY <1>2, <1>5, <1>8 DEF Stays
  <1>11. Goes(q, s, l)
    BY <1>3, <1>5, <1>9, <1>10 DEF Goes
  <1> QED BY <1>1, <1>6, <1>11

\* A write has told its observers, or has them out.
LEMMA NotifyTop ==
    ASSUME StacksOK, NEW t \in Actor, stk[t] # <<>>, NEW v, NEW c, NEW m, Notify(t, v, c, m)
    PROVE  \E r : /\ stk' = [stk EXCEPT ![t] = r]
                  /\ IsStack(r) /\ r # <<>> /\ Len(r) = Len(stk[t]) /\ Below(r, stk[t], Len(stk[t]) - 1)
                  /\ r[Len(r)].at = (IF Observed(v) THEN "cb" ELSE "done") /\ r[Len(r)].call = Top(t).call
                  /\ r[Len(r)].seen = [forced |-> v.forced, seq |-> v.seq, changed |-> c]
  <1>1. PICK s : s = stk[t]
    OBVIOUS
  <1>2. IsStack(s) /\ s # <<>>
    BY <1>1 DEF StacksOK
  <1>3. PICK g : g = s[Len(s)]
    OBVIOUS
  <1>4. PICK l : l = IF Observed(v) THEN "cb" ELSE "done"
    OBVIOUS
  <1>n. PICK n : n = [forced |-> v.forced, seq |-> v.seq, changed |-> c]
    OBVIOUS
  <1>5. PICK f : f = [g EXCEPT !.at = l, !.sent = m, !.seen = n]
    OBVIOUS
  <1>6. PICK r : r = [s EXCEPT ![Len(s)] = f]
    OBVIOUS
  <1>7. IsFrame(g)
    BY <1>2, <1>3, StackLen
  <1>8. IsFrame(f) /\ f.at = l /\ f.call = g.call /\ f.seen = n
    BY <1>5, <1>7 DEF IsFrame
  <1>9. IsStack(r) /\ r # <<>> /\ Len(r) = Len(s) /\ r[Len(s)] = f /\ Below(r, s, Len(s) - 1)
    <2>1. Onward(r, s, f)
      BY <1>6 DEF Onward
    <2> QED BY <1>2, <1>8, <2>1, StackTop
  <1>10. stk' = [stk EXCEPT ![t] = r]
    BY <1>1, <1>3, <1>4, <1>n, <1>5, <1>6 DEF Notify
  <1> QED BY <1>1, <1>3, <1>4, <1>n, <1>8, <1>9, <1>10 DEF Top

-----------------------------------------------------------------------------
(* What the operators on a definition and a cache keep.                    *)

\* Told keeps what observers know: a change is told or queued, anything else was known.
LEMMA OwnerTold ==
    ASSUME NEW v, IsOwner(v), Stocked(v, setup.queued), NEW c
    PROVE  /\ IsOwner(Told(v, c)) /\ Stocked(Told(v, c), setup.queued)
           /\ (~c => Promised(v)) => Promised(Told(v, c))
           /\ Told(v, c) = [v EXCEPT !.parked = Told(v, c).parked, !.told = Told(v, c).told]
  <1> DEFINE e == [state |-> State(v), changed |-> c]
  <1>p. IsBacklog(v.parked) /\ (~setup.queued => v.parked = <<>>)
    BY DEF Stocked
  <1>1. CASE ~v.watch
    <2>1. Told(v, c) = v
      BY <1>1 DEF Told
    <2>2. Promised(v)
      BY <1>1 DEF Promised
    <2>3. v = [v EXCEPT !.parked = v.parked, !.told = v.told]
      BY DEF IsOwner
    <2> QED BY <2>1, <2>2, <2>3
  <1>2. CASE v.watch /\ setup.queued
    <2>1. PICK q : q = Append(v.parked, e)
      OBVIOUS
    <2>2. IsBacklog(q) /\ (c => EndsAt(q, State(v)))
          /\ (~c => \A y : (EndsAt(v.parked, y) => EndsAt(q, y)) /\ (NoChange(v.parked) => NoChange(q)))
      BY <2>1, <1>p, BacklogAppend
    <2>3. PICK w : w = [v EXCEPT !.parked = q]
      OBVIOUS
    <2>4. Told(v, c) = w
      BY <1>2, <2>1, <2>3 DEF Told
    <2>5. IsOwner(w) /\ w.parked = q /\ w.told = v.told /\ w.watch = v.watch /\ w.has = v.has /\ w.store = v.store /\ w.forced = v.forced
      BY <2>3 DEF IsOwner
    <2>6. State(w) = State(v)
      BY <2>5 DEF State
    <2>7. (~c => Promised(v)) => Promised(w)
      BY <2>2, <2>5, <2>6, <1>2 DEF Promised
    <2>8. w = [v EXCEPT !.parked = w.parked, !.told = w.told]
      BY <2>3, <2>5 DEF IsOwner
    <2> QED BY <2>2, <2>4, <2>5, <2>7, <2>8, <1>2 DEF Stocked
  <1>3. CASE v.watch /\ ~setup.queued
    <2>1. PICK w : w = [v EXCEPT !.told = IF c THEN State(v) ELSE @]
      OBVIOUS
    <2>2. Told(v, c) = w
      BY <1>3, <2>1 DEF Told
    <2>3. IsOwner(w) /\ w.parked = v.parked /\ w.watch = v.watch /\ w.has = v.has /\ w.store = v.store /\ w.forced = v.forced
          /\ w.told = (IF c THEN State(v) ELSE v.told)
      BY <2>1 DEF IsOwner
    <2>4. State(w) = State(v)
      BY <2>3 DEF State
    <2>5. v.parked = <<>>
      BY <1>3, <1>p
    <2>6. (~c => Promised(v)) => Promised(w)
      BY <2>3, <2>4, <2>5, EmptyBacklog DEF Promised
    <2>7. w = [v EXCEPT !.parked = w.parked, !.told = w.told]
      BY <2>1, <2>3 DEF IsOwner
    <2> QED BY <2>2, <2>3, <2>5, <2>6, <2>7, <1>3, EmptyBacklog DEF Stocked
  <1> QED BY <1>1, <1>2, <1>3

LEMMA CacheTold ==
    ASSUME NEW v, IsCache(v), Stocked(v, setup.queued), NEW c
    PROVE  /\ IsCache(Told(v, c)) /\ Stocked(Told(v, c), setup.queued)
           /\ (~c => Promised(v)) => Promised(Told(v, c))
  <1> DEFINE e == [state |-> State(v), changed |-> c]
  <1>p. IsBacklog(v.parked) /\ (~setup.queued => v.parked = <<>>)
    BY DEF Stocked
  <1>1. CASE ~v.watch
    <2>1. Told(v, c) = v
      BY <1>1 DEF Told
    <2>2. Promised(v)
      BY <1>1 DEF Promised
    <2> QED BY <2>1, <2>2
  <1>2. CASE v.watch /\ setup.queued
    <2>1. PICK q : q = Append(v.parked, e)
      OBVIOUS
    <2>2. IsBacklog(q) /\ (c => EndsAt(q, State(v)))
          /\ (~c => \A y : (EndsAt(v.parked, y) => EndsAt(q, y)) /\ (NoChange(v.parked) => NoChange(q)))
      BY <2>1, <1>p, BacklogAppend
    <2>3. PICK w : w = [v EXCEPT !.parked = q]
      OBVIOUS
    <2>4. Told(v, c) = w
      BY <1>2, <2>1, <2>3 DEF Told
    <2>5. IsCache(w) /\ w.parked = q /\ w.told = v.told /\ w.watch = v.watch /\ w.has = v.has /\ w.store = v.store /\ w.forced = v.forced
      BY <2>3 DEF IsCache
    <2>6. State(w) = State(v)
      BY <2>5 DEF State
    <2>7. (~c => Promised(v)) => Promised(w)
      BY <2>2, <2>5, <2>6, <1>2 DEF Promised
    <2> QED BY <2>2, <2>4, <2>5, <2>7, <1>2 DEF Stocked
  <1>3. CASE v.watch /\ ~setup.queued
    <2>1. PICK w : w = [v EXCEPT !.told = IF c THEN State(v) ELSE @]
      OBVIOUS
    <2>2. Told(v, c) = w
      BY <1>3, <2>1 DEF Told
    <2>3. IsCache(w) /\ w.parked = v.parked /\ w.watch = v.watch /\ w.has = v.has /\ w.store = v.store /\ w.forced = v.forced
          /\ w.told = (IF c THEN State(v) ELSE v.told)
      BY <2>1 DEF IsCache
    <2>4. State(w) = State(v)
      BY <2>3 DEF State
    <2>5. v.parked = <<>>
      BY <1>3, <1>p
    <2>6. (~c => Promised(v)) => Promised(w)
      BY <2>3, <2>4, <2>5, EmptyBacklog DEF Promised
    <2> QED BY <2>2, <2>3, <2>5, <2>6, <1>3, EmptyBacklog DEF Stocked
  <1> QED BY <1>1, <1>2, <1>3

\* A dispatch keeps what observers know.
LEMMA DispatchTells ==
    ASSUME NEW v, IsOwner(v) \/ IsCache(v), Stocked(v, setup.queued), v.parked # <<>>
    PROVE  /\ IsOwner(v) => IsOwner(Dispatched(v))
           /\ IsCache(v) => IsCache(Dispatched(v))
           /\ Stocked(Dispatched(v), setup.queued)
           /\ Promised(v) => Promised(Dispatched(v))
           /\ IsOwner(v) => Dispatched(v) = [v EXCEPT !.parked = Dispatched(v).parked, !.told = Dispatched(v).told]
  <1> DEFINE q == Tail(v.parked)
             t == IF Head(v.parked).changed THEN Head(v.parked).state ELSE v.told
  <1>1. PICK w : w = [v EXCEPT !.parked = q, !.told = t]
    OBVIOUS
  <1>2. Dispatched(v) = w
    BY <1>1 DEF Dispatched
  <1>3. /\ IsOwner(v) => IsOwner(w) /\ w = [v EXCEPT !.parked = w.parked, !.told = w.told]
        /\ IsCache(v) => IsCache(w)
    <2> HIDE DEF q, t
    <2> QED BY <1>1 DEF IsOwner, IsCache
  <1>4. w.parked = q /\ w.told = t /\ w.watch = v.watch /\ w.has = v.has /\ w.store = v.store /\ w.forced = v.forced
    <2> HIDE DEF q, t
    <2> QED BY <1>1 DEF IsOwner, IsCache
  <1>5. State(w) = State(v)
    BY <1>4 DEF State
  <1>6. /\ IsBacklog(q) /\ (NoChange(v.parked) => NoChange(q) /\ ~Head(v.parked).changed)
        /\ \A y : EndsAt(v.parked, y) =>
                 EndsAt(q, y) \/ (NoChange(q) /\ Head(v.parked).changed /\ Head(v.parked).state = y)
    BY BacklogTail DEF Stocked
  <1>7. Promised(v) => Promised(w)
    BY <1>4, <1>5, <1>6 DEF Promised
  <1> QED BY <1>2, <1>3, <1>4, <1>6, <1>7 DEF Stocked

\* w has what observers know, or will, as v has it.
LEMMA SamePromise ==
    ASSUME NEW v, NEW w, w.parked = v.parked, w.told = v.told, w.watch = v.watch, w.has = v.has,
           w.store = v.store, w.forced = v.forced
    PROVE  Promised(v) => Promised(w)
  BY DEF Promised, State

\* A definition as a write of v left it, its observers still to be told: they know
\* its state already when nothing changed.
Unheard(w, v, c, changed) ==
    /\ Kept(w, c) /\ w.life = v.life /\ w.out = v.out
    /\ ~changed /\ Promised(v) => Promised(w)

\* A write of the store.
LEMMA WrittenUnheard ==
    ASSUME NEW v, NEW c, Kept(v, c), ~v.forced, NEW x
    PROVE  Unheard(Written(v, x), v, c, WouldChange(v, x, FALSE)) /\ Written(v, x).forced = v.forced
  <1>1. PICK w : w = Written(v, x)
    OBVIOUS
  <1>2. /\ IsOwner(w) /\ w.parked = v.parked /\ w.told = v.told /\ w.watch = v.watch /\ w.has = TRUE /\ w.out = v.out
        /\ w.store = x /\ w.forced = v.forced /\ w.life = v.life /\ w.dup = v.dup /\ w.status = v.status
    <2> DEFINE n == NextSeq(v.seq)
               y == TRUE
    <2>1. w = [v EXCEPT !.store = x, !.has = y, !.seq = n]
      BY <1>1 DEF Written
    <2> HIDE DEF n, y
    <2>2. /\ IsOwner(w) /\ w.parked = v.parked /\ w.told = v.told /\ w.watch = v.watch /\ w.has = y /\ w.out = v.out
          /\ w.store = x /\ w.forced = v.forced /\ w.life = v.life /\ w.dup = v.dup /\ w.status = v.status
      BY <2>1 DEF IsOwner, Kept
    <2> QED BY <2>2 DEF y
  <1>3. Showing(w, c)
    BY <1>2 DEF Showing, Listed, Kept
  <1>4. ~WouldChange(v, x, FALSE) => v.has /\ State(w) = State(v)
    BY <1>2 DEF WouldChange, State, Kept, IsOwner
  <1>5. ~WouldChange(v, x, FALSE) /\ Promised(v) => Promised(w)
    BY <1>2, <1>4 DEF Promised
  <1> QED BY <1>1, <1>2, <1>3, <1>5 DEF Unheard, Kept, Stocked

\* A force, new or over another.
LEMMA ForcedUnheard ==
    ASSUME NEW v, NEW c, Kept(v, c), NEW x
    PROVE  Unheard(Shown(ForcedOn(v, x)), v, c, WouldChange(v, Shown(ForcedOn(v, x)).store, TRUE))
  <1>1. PICK w : w = Shown(ForcedOn(v, x))
    OBVIOUS
  <1>2. /\ IsOwner(w) /\ w.parked = v.parked /\ w.told = v.told /\ w.watch = v.watch /\ w.out = v.out
        /\ w.store = x /\ w.forced = TRUE /\ w.life = v.life /\ w.dup = v.dup
        /\ w.status = [rivals |-> v.dup, forced |-> TRUE]
    <2> DEFINE n == NextSeq(v.seq)
               y == TRUE
               z == IF v.forced THEN v.shadow ELSE v.store
               st == [rivals |-> v.dup, forced |-> y]
    <2>1. PICK u : u = [v EXCEPT !.store = x, !.has = y, !.seq = n, !.shadow = z, !.forced = y]
      OBVIOUS
    <2>2. u = ForcedOn(v, x)
      BY <2>1 DEF ForcedOn, Written, Kept, IsOwner
    <2>3. y \in BOOLEAN
      OBVIOUS
    <2>4. /\ IsOwner(u) /\ u.parked = v.parked /\ u.told = v.told /\ u.watch = v.watch /\ u.out = v.out
          /\ u.store = x /\ u.forced = y /\ u.life = v.life /\ u.dup = v.dup
      <3> HIDE DEF n, y, z
      <3> QED BY <2>1, <2>3 DEF IsOwner, Kept
    <2>5. w = [u EXCEPT !.status = st]
      BY <1>1, <2>2, <2>4 DEF Shown
    <2>6. /\ IsOwner(w) /\ w.parked = v.parked /\ w.told = v.told /\ w.watch = v.watch /\ w.out = v.out
          /\ w.store = x /\ w.forced = y /\ w.life = v.life /\ w.dup = v.dup /\ w.status = st
      <3> HIDE DEF st, y
      <3> QED BY <2>4, <2>5 DEF IsOwner
    <2> QED BY <2>6
  <1>3. Showing(w, c)
    BY <1>2 DEF Showing, Listed, Kept
  <1>4. ~WouldChange(v, w.store, TRUE) => v.has /\ State(w) = State(v)
    BY <1>2 DEF WouldChange, State, Kept, IsOwner
  <1>5. ~WouldChange(v, w.store, TRUE) /\ Promised(v) => Promised(w)
    BY <1>2, <1>4 DEF Promised
  <1> QED BY <1>1, <1>2, <1>3, <1>5 DEF Unheard, Kept, Stocked

\* The end of a force.
Released(v) == Shown([Written(v, v.shadow) EXCEPT !.forced = FALSE, !.has = v.has])
LEMMA ReleasedUnheard ==
    ASSUME NEW v, NEW c, Kept(v, c)
    PROVE  Unheard(Released(v), v, c, TRUE)
  <1>1. PICK w : w = Released(v)
    OBVIOUS
  <1>2. /\ IsOwner(w) /\ w.parked = v.parked /\ w.told = v.told /\ w.watch = v.watch /\ w.out = v.out
        /\ w.store = v.shadow /\ w.forced = FALSE /\ w.life = v.life /\ w.dup = v.dup
        /\ w.status = [rivals |-> v.dup, forced |-> FALSE]
    <2> DEFINE n == NextSeq(v.seq)
               y == FALSE
               st == [rivals |-> v.dup, forced |-> y]
    <2>1. PICK u : u = [v EXCEPT !.store = v.shadow, !.seq = n, !.forced = y]
      OBVIOUS
    <2>2. u = [Written(v, v.shadow) EXCEPT !.forced = FALSE, !.has = v.has]
      BY <2>1 DEF Written, Kept, IsOwner
    <2>3. y \in BOOLEAN
      OBVIOUS
    <2>4. /\ IsOwner(u) /\ u.parked = v.parked /\ u.told = v.told /\ u.watch = v.watch /\ u.out = v.out
          /\ u.store = v.shadow /\ u.forced = y /\ u.life = v.life /\ u.dup = v.dup
      <3> HIDE DEF n, y
      <3> QED BY <2>1, <2>3 DEF IsOwner, Kept
    <2>5. w = [u EXCEPT !.status = st]
      BY <1>1, <2>2, <2>4 DEF Shown, Released
    <2>6. /\ IsOwner(w) /\ w.parked = v.parked /\ w.told = v.told /\ w.watch = v.watch /\ w.out = v.out
          /\ w.store = v.shadow /\ w.forced = y /\ w.life = v.life /\ w.dup = v.dup /\ w.status = st
      <3> HIDE DEF st, y
      <3> QED BY <2>4, <2>5 DEF IsOwner
    <2> QED BY <2>6
  <1>3. Showing(w, c)
    BY <1>2 DEF Showing, Listed, Kept
  <1> QED BY <1>1, <1>2, <1>3 DEF Unheard, Kept, Stocked

\* Telling observers keeps a definition sound, and they know its state if they did
\* or it changed.
LEMMA ToldKept ==
    ASSUME NEW v, NEW c, NEW changed, Kept(v, c)
    PROVE  /\ Kept(Told(v, changed), c)
           /\ (~changed => Promised(v)) => Promised(Told(v, changed))
           /\ Told(v, changed).life = v.life /\ Told(v, changed).out = v.out /\ Told(v, changed).forced = v.forced
  <1>1. PICK w : w = Told(v, changed)
    OBVIOUS
  <1>k. IsOwner(v) /\ Stocked(v, setup.queued)
    BY DEF Kept
  <1>2. /\ IsOwner(w) /\ Stocked(w, setup.queued) /\ w = [v EXCEPT !.parked = w.parked, !.told = w.told]
        /\ (~changed => Promised(v)) => Promised(w)
    BY <1>1, <1>k, OwnerTold, Zenon
  <1>3. w.life = v.life /\ w.dup = v.dup /\ w.status = v.status /\ w.forced = v.forced /\ w.out = v.out
    BY <1>2 DEF Kept, IsOwner
  <1>4. Showing(w, c)
    BY <1>3 DEF Kept, Showing, Listed
  <1> QED BY <1>1, <1>2, <1>3, <1>4 DEF Kept

\* Which observers are out is no matter of what they know.
LEMMA OutKept ==
    ASSUME NEW v, NEW c, Kept(v, c), NEW n, NEW w, w = [v EXCEPT !.out = n]
    PROVE  Kept(w, c) /\ (Promised(v) => Promised(w)) /\ w.life = v.life /\ w.forced = v.forced /\ w.out = n
  <1>2. /\ IsOwner(w) /\ w.parked = v.parked /\ w.told = v.told /\ w.watch = v.watch /\ w.has = v.has /\ w.out = n
        /\ w.store = v.store /\ w.forced = v.forced /\ w.life = v.life /\ w.dup = v.dup /\ w.status = v.status
    BY DEF IsOwner, Kept
  <1> QED BY <1>2, SamePromise DEF Kept, Showing, Listed, Stocked

-----------------------------------------------------------------------------
(* What a step does to the calls, and to the observers that are out.       *)

\* A step of nobody's calls.
LEMMA PendingSame ==
    ASSUME UNCHANGED <<stk, setup>>
    PROVE  \A p : Owed(p)' <=> Owed(p)
  BY DEF Owed, Pending, Steady

\* What a call in s has yet to say of p, it has in r as well.
Owing(r, s, p) == \A i \in 1 .. Len(s) :
    Owes(s[i]) /\ s[i].call.node = p => i \in 1 .. Len(r) /\ Owes(r[i]) /\ r[i].call.node = p

\* The calls of t that still have to tell something of p stay.
LEMMA PendingKept ==
    ASSUME StacksOK, NEW t \in Actor, NEW r, stk' = [stk EXCEPT ![t] = r], UNCHANGED setup, NEW p,
           Owing(r, stk[t], p)
    PROVE  Owed(p) => Owed(p)'
  <1>1. stk'[t] = r /\ \A u \in Actor \ {t} : stk'[u] = stk[u]
    BY DEF StacksOK
  <1>2. ASSUME Pending(p) PROVE Pending(p)'
    <2>1. PICK u \in Actor : \E i \in 1 .. Len(stk[u]) : stk[u][i].call.node = p /\ Owes(stk[u][i])
      BY <1>2 DEF Pending, Owes
    <2>2. PICK i \in 1 .. Len(stk[u]) : stk[u][i].call.node = p /\ Owes(stk[u][i])
      BY <2>1
    <2>3. CASE u = t
      <3>1. i \in 1 .. Len(r) /\ Owes(r[i]) /\ r[i].call.node = p
        BY <2>2, <2>3 DEF Owing
      <3>2. stk'[u] = r
        BY <1>1, <2>3
      <3> QED BY <3>1, <3>2 DEF Pending, Owes
    <2>4. CASE u # t
      <3>1. stk'[u] = stk[u]
        BY <1>1, <2>4
      <3> QED BY <2>2, <3>1 DEF Pending, Owes
    <2> QED BY <2>3, <2>4
  <1> QED BY <1>2 DEF Owed

\* w for v: an observer that is out stays counted, but the one in call k; while
\* one is out no force begins or ends.
Spares(w, v, k) ==
    /\ w.life = "none" => w.out = {}
    /\ v.out = {} \/ (w.forced = v.forced /\ \A j \in v.out : j # k => j \in w.out)

\* The calls of t change, the innermost one and those it makes, and one definition.
LEMMA FramesKept ==
    ASSUME StacksOK, FramesOK, own = [p \in Owner |-> own[p]],
           NEW t \in Actor, NEW r, stk' = [stk EXCEPT ![t] = r], UNCHANGED setup,
           NEW o, NEW w, own' = [own EXCEPT ![o] = w],
           o \in Owner => Spares(w, own[o], <<t, Len(stk[t])>>),
           \A i \in 1 .. Len(r) : (i \in 1 .. (Len(stk[t]) - 1) /\ r[i] = stk[t][i]) \/ Standing(r[i], t, i)'
    PROVE  FramesOK'
  <1>1. stk'[t] = r /\ \A u \in Actor \ {t} : stk'[u] = stk[u]
    BY DEF StacksOK
  <1>2. \A p \in Owner : own'[p] = IF p = o THEN w ELSE own[p]
    OBVIOUS
  <1>3. ASSUME NEW u \in Actor, NEW i \in 1 .. Len(stk[u]), u # t \/ i # Len(stk[t]), NEW f, f = stk[u][i]
        PROVE  Standing(f, u, i)'
    <2>1. f = stk[u][i]
      BY <1>3
    <2>2. Standing(f, u, i)
      BY <2>1 DEF FramesOK
    <2>3. ASSUME f.call.node \in Owner PROVE Watched(f, <<u, i>>, own'[f.call.node])
      <3>1. Watched(f, <<u, i>>, own[f.call.node])
        BY <2>2, <2>3 DEF Standing
      <3>2. CASE f.call.node # o
        BY <3>1, <3>2, <1>2, <2>3
      <3>3. CASE f.call.node = o
        <4>1. own'[f.call.node] = w /\ Watched(f, <<u, i>>, own[o]) /\ Spares(w, own[o], <<t, Len(stk[t])>>)
          BY <3>1, <3>3, <1>2, <2>3
        <4>2. <<u, i>> # <<t, Len(stk[t])>>
          BY <1>3
        <4>3. CASE own[o].out = {}
          <5>1. Idle(f)
            BY <4>1, <4>3 DEF Watched
          <5> QED BY <4>1, <5>1 DEF Watched, Idle, Owes
        <4>4. CASE own[o].out # {}
          BY <4>1, <4>2, <4>4 DEF Watched, Spares
        <4> QED BY <4>3, <4>4
      <3> QED BY <3>2, <3>3
    <2> QED BY <2>2, <2>3 DEF Standing, Watched, Owes, Idle
  <1>4. Len(stk[t]) \in Nat
    BY StackLen DEF StacksOK
  <1>5. ASSUME NEW u \in Actor, NEW i \in 1 .. Len(stk'[u]), NEW f, f = stk'[u][i] PROVE Standing(f, u, i)'
    <2>1. CASE u # t
      <3>1. i \in 1 .. Len(stk[u]) /\ f = stk[u][i]
        BY <1>1, <1>5, <2>1
      <3> QED BY <2>1, <3>1, <1>3
    <2>2. CASE u = t
      <3>1. i \in 1 .. Len(r) /\ f = r[i]
        BY <1>1, <1>5, <2>2
      <3>2. CASE i \in 1 .. (Len(stk[t]) - 1) /\ r[i] = stk[t][i]
        <4>1. i \in 1 .. Len(stk[t]) /\ i # Len(stk[t]) /\ f = stk[t][i]
          BY <3>1, <3>2, <1>4
        <4> QED BY <4>1, <2>2, <1>3
      <3>3. CASE Standing(r[i], t, i)'
        BY <3>1, <3>3, <2>2
      <3> QED BY <3>1, <3>2, <3>3
    <2> QED BY <2>1, <2>2
  <1>6. \A u \in Actor : \A i \in 1 .. Len(stk'[u]) : Standing(stk[u][i], u, i)'
    <2>1. ASSUME NEW u \in Actor, NEW i \in 1 .. Len(stk'[u]) PROVE Standing(stk[u][i], u, i)'
      <3>1. PICK f : f = stk'[u][i]
        OBVIOUS
      <3>2. Standing(f, u, i)'
        BY <3>1, <1>5
      <3> QED BY <3>1, <3>2 DEF Standing, Watched, Owes, Idle
    <2> QED BY <2>1
  <1>7. \A p \in Owner : own'[p].life = "none" => own'[p].out = {}
    BY <1>2 DEF FramesOK, Spares
  <1> QED BY <1>6, <1>7 DEF FramesOK

-----------------------------------------------------------------------------
(* The steps keep KnownInv.                                                *)

\* A step that leaves the caches alone.
LEMMA CachesSame ==
    ASSUME CachesKnown, UNCHANGED <<acc, setup>>
    PROVE  CachesKnown'
  BY DEF CachesKnown, Telling, Stocked

\* A step that puts a sound cache at one accessor.
LEMMA CachePut ==
    ASSUME CachesKnown, NEW a, NEW w, acc' = [acc EXCEPT ![a] = w], UNCHANGED setup,
           a \in Accessor => IsCache(w) /\ Telling(w, setup.queued)
    PROVE  CachesKnown'
  <1>1. acc' = [p \in Accessor |-> acc'[p]] /\ \A p \in Accessor : acc'[p] = IF p = a THEN w ELSE acc[p]
    BY DEF CachesKnown
  <1>2. \A p \in Accessor : IsCache(acc'[p]) /\ Telling(acc'[p], setup.queued)
    BY <1>1 DEF CachesKnown
  <1> QED BY <1>1, <1>2 DEF CachesKnown, Telling, Stocked

\* A step that leaves the calls, and what they see of a definition, alone.
LEMMA FramesSame ==
    ASSUME FramesOK, UNCHANGED <<stk, setup>>,
           \A p \in Owner : /\ own'[p].out = own[p].out /\ own'[p].forced = own[p].forced
                            /\ own'[p].life = "none" => own[p].life = "none"
    PROVE  FramesOK'
  <1>1. ASSUME NEW u \in Actor, NEW i \in 1 .. Len(stk'[u]) PROVE Standing(stk[u][i], u, i)'
    <2>1. PICK f : f = stk'[u][i]
      OBVIOUS
    <2>2. Standing(f, u, i)
      BY <2>1 DEF FramesOK
    <2>3. f.call.node \in Owner => Watched(f, <<u, i>>, own'[f.call.node])
      BY <2>2 DEF Standing, Watched
    <2>4. Standing(f, u, i)'
      BY <2>2, <2>3 DEF Standing, Watched, Owes, Idle
    <2> QED BY <2>1, <2>4 DEF Standing, Watched, Owes, Idle
  <1>2. \A p \in Owner : own'[p].life = "none" => own'[p].out = {}
    BY DEF FramesOK
  <1> QED BY <1>1, <1>2 DEF FramesOK

\* A step that puts a sound definition at one node and forgets no call that owes.
LEMMA OwnPut ==
    ASSUME OwnersKnown, NEW o, NEW w, own' = [own EXCEPT ![o] = w], UNCHANGED <<claims, setup>>,
           StacksOK', Steady(setup) => FramesOK',
           \A p \in Owner \ {o} : Owed(p) => Owed(p)',
           o \in Owner => Kept(w, claims[o]) /\ (Owed(o)' \/ Promised(w))
    PROVE  OwnersKnown'
  <1>1. own' = [p \in Owner |-> own'[p]] /\ \A p \in Owner : own'[p] = IF p = o THEN w ELSE own[p]
    BY DEF OwnersKnown
  <1>2. ASSUME NEW p \in Owner PROVE Kept(own'[p], claims[p]) /\ (Owed(p)' \/ Promised(own'[p]))
    <2>1. CASE p = o
      BY <1>1, <2>1
    <2>2. CASE p # o
      BY <1>1, <2>2 DEF OwnersKnown
    <2> QED BY <2>1, <2>2
  <1>3. \A p \in Owner : Kept(own[p], claims[p])' /\ (Owed(p)' \/ Promised(own[p])')
    <2>1. setup' = setup /\ \A p \in Owner : claims'[p] = claims[p]
      OBVIOUS
    <2> QED BY <1>2, <2>1 DEF Kept, Stocked, Promised
  <1>4. Steady(setup)' <=> Steady(setup)
    BY DEF Steady
  <1> QED BY <1>1, <1>3, <1>4 DEF OwnersKnown

\* A step of nobody's calls that puts a sound definition at one node.
LEMMA OwnStill ==
    ASSUME OwnersKnown, NEW o, NEW w, own' = [own EXCEPT ![o] = w], UNCHANGED <<claims, setup, stk>>,
           o \in Owner => /\ Kept(w, claims[o]) /\ (Promised(own[o]) => Promised(w))
                          /\ w.out = own[o].out /\ w.forced = own[o].forced
                          /\ w.life = "none" => own[o].life = "none"
    PROVE  OwnersKnown'
  <1>1. \A p \in Owner : own'[p] = IF p = o THEN w ELSE own[p]
    BY DEF OwnersKnown
  <1>2. StacksOK'
    BY DEF OwnersKnown, StacksOK
  <1>3. Steady(setup) => FramesOK'
    BY <1>1, FramesSame DEF OwnersKnown
  <1>4. \A p : Owed(p)' <=> Owed(p)
    BY PendingSame
  <1>5. o \in Owner => Kept(w, claims[o]) /\ (Owed(o)' \/ Promised(w))
    BY <1>4 DEF OwnersKnown
  <1> QED BY <1>2, <1>3, <1>4, <1>5, OwnPut

\* A step the owners have no part in.
LEMMA OwnSame ==
    ASSUME OwnersKnown, UNCHANGED <<own, claims, setup, stk>>
    PROVE  OwnersKnown'
  <1>1. PICK w : w = own[None]
    OBVIOUS
  <1>2. own' = [own EXCEPT ![None] = w]
    BY <1>1 DEF OwnersKnown
  <1>3. None \in Owner => Kept(w, claims[None])
    BY <1>1 DEF OwnersKnown
  <1> QED BY <1>1, <1>2, <1>3, OwnStill

\* An actor calls, returns, or moves on, and has no observer out when it is done.
Slides(r, s) ==
    /\ IsStack(r) /\ (s # <<>> => ~Owes(s[Len(s)]))
    /\ Below(r, s, Len(s) - 1)
    /\ \A i \in 1 .. Len(r) :
          i \in 1 .. (Len(s) - 1) \/ (Idle(r[i]) /\ (i > 1 => i \in 1 .. Len(s) /\ r[i].call = s[i].call))

LEMMA OwnSlides ==
    ASSUME OwnersKnown, NEW t \in Actor, NEW r, stk' = [stk EXCEPT ![t] = r], Slides(r, stk[t]),
           UNCHANGED <<claims, setup>>, NEW o, NEW w, own' = [own EXCEPT ![o] = w],
           o \in Owner => /\ Kept(w, claims[o]) /\ (Promised(own[o]) => Promised(w))
                          /\ Steady(setup) => Spares(w, own[o], <<t, Len(stk[t])>>)
    PROVE  OwnersKnown'
  <1>s. StacksOK /\ IsStack(stk[t]) /\ own = [p \in Owner |-> own[p]]
    BY DEF OwnersKnown, StacksOK
  <1>1. StacksOK'
    BY <1>s DEF StacksOK, Slides
  <1>2. \A p : Owed(p) => Owed(p)'
    <2>1. ASSUME NEW p, NEW i \in 1 .. Len(stk[t]), Owes(stk[t][i]) /\ stk[t][i].call.node = p
          PROVE  i \in 1 .. Len(r) /\ Owes(r[i]) /\ r[i].call.node = p
      <3>1. Len(stk[t]) \in Nat /\ stk[t] # <<>>
        BY <1>s, StackLen
      <3>2. i # Len(stk[t])
        BY <2>1, <3>1 DEF Slides
      <3>3. i \in 1 .. (Len(stk[t]) - 1)
        BY <3>1, <3>2
      <3> QED BY <2>1, <3>3 DEF Slides, Below
    <2>2. ASSUME NEW p PROVE Owed(p) => Owed(p)'
      <3>1. Owing(r, stk[t], p)
        BY <2>1 DEF Owing
      <3> QED BY <3>1, <1>s, PendingKept
    <2> QED BY <2>2
  <1>3. ASSUME Steady(setup) PROVE FramesOK'
    <2>1. FramesOK
      BY <1>3 DEF OwnersKnown
    <2>2. ASSUME NEW i \in 1 .. Len(r)
          PROVE  (i \in 1 .. (Len(stk[t]) - 1) /\ r[i] = stk[t][i]) \/ Standing(r[i], t, i)'
      <3>1. CASE i \in 1 .. (Len(stk[t]) - 1)
        BY <3>1 DEF Slides, Below
      <3>2. CASE i \notin 1 .. (Len(stk[t]) - 1)
        <4>1. Idle(r[i]) /\ (i > 1 => i \in 1 .. Len(stk[t]) /\ r[i].call = stk[t][i].call)
          BY <3>2 DEF Slides
        <4>2. i > 1 => Standing(stk[t][i], t, i)
          BY <4>1, <2>1 DEF FramesOK
        <4>3. ~Owes(r[i])
          BY <4>1 DEF Idle, Owes
        <4> QED BY <4>1, <4>2, <4>3 DEF Standing, Watched, Idle, Owes
      <3> QED BY <3>1, <3>2
    <2> QED BY <2>1, <2>2, <1>3, <1>s, FramesKept
  <1>4. o \in Owner => Kept(w, claims[o]) /\ (Owed(o)' \/ Promised(w))
    BY <1>2 DEF OwnersKnown
  <1> QED BY <1>1, <1>2, <1>3, <1>4, OwnPut

\* The same when no definition changes.
LEMMA OnlySlides ==
    ASSUME OwnersKnown, NEW t \in Actor, NEW r, stk' = [stk EXCEPT ![t] = r], Slides(r, stk[t]),
           UNCHANGED <<claims, setup, own>>
    PROVE  OwnersKnown'
  <1>1. PICK w : w = own[None]
    OBVIOUS
  <1>2. own' = [own EXCEPT ![None] = w]
    BY <1>1 DEF OwnersKnown
  <1>3. None \in Owner => Kept(w, claims[None]) /\ (Steady(setup) => Spares(w, own[None], <<t, Len(stk[t])>>))
    BY <1>1 DEF OwnersKnown, FramesOK, Spares
  <1> QED BY <1>1, <1>2, <1>3, OwnSlides

\* The ways to slide.
LEMMA FirstSlides ==
    ASSUME NEW s, s = <<>>, NEW c, NEW r, r = <<Frame(c)>>
    PROVE  Slides(r, s)
  <1>1. IsStack(r) /\ Len(r) = 1 /\ r[Len(r)].at = "start"
    BY StackFirst
  <1>2. Len(s) = 0 /\ 1 .. (Len(s) - 1) = {} /\ \A i \in 1 .. Len(r) : i = 1 /\ ~(i > 1)
    BY <1>1
  <1> QED BY <1>1, <1>2 DEF Slides, Below, Idle

LEMMA PopSlides ==
    ASSUME StacksOK, NEW t \in Actor, stk[t] # <<>>, ~Owes(Top(t)), stk' = Pop(t)
    PROVE  \E r : stk' = [stk EXCEPT ![t] = r] /\ Slides(r, stk[t])
  <1>1. PICK r : r = Front(stk[t])
    OBVIOUS
  <1>2. IsStack(stk[t])
    BY DEF StacksOK
  <1>3. stk' = [stk EXCEPT ![t] = r]
    BY <1>1 DEF Pop
  <1>4. IsStack(r) /\ Len(r) = Len(stk[t]) - 1 /\ Below(r, stk[t], Len(stk[t]) - 1)
    BY <1>1, <1>2, StackPop
  <1>5. Slides(r, stk[t])
    BY <1>4 DEF Slides, Top
  <1> QED BY <1>3, <1>5

LEMMA GotoSlides ==
    ASSUME StacksOK, NEW t \in Actor, stk[t] # <<>>, ~Owes(Top(t)),
           NEW l, l \notin {"cb", "change", "cbend"}, stk' = Goto(t, l)
    PROVE  \E r : stk' = [stk EXCEPT ![t] = r] /\ Slides(r, stk[t])
  <1>1. PICK s : s = stk[t]
    OBVIOUS
  <1>2. PICK r : stk' = [stk EXCEPT ![t] = r] /\ Stays(r, s, l)
    BY <1>1, GotoTop
  <1>3. Len(s) \in Nat \ {0} /\ Len(s) \in 1 .. Len(s)
    BY <1>1, StackLen DEF StacksOK
  <1>4. ASSUME NEW i \in 1 .. Len(r), i \notin 1 .. (Len(s) - 1)
        PROVE  Idle(r[i]) /\ i \in 1 .. Len(s) /\ r[i].call = s[i].call
    <2>1. i = Len(s)
      BY <1>2, <1>3, <1>4 DEF Stays
    <2> QED BY <2>1, <1>2, <1>3 DEF Idle, Stays
  <1>5. Slides(r, s)
    BY <1>1, <1>2, <1>4 DEF Slides, Top, Stays
  <1> QED BY <1>1, <1>2, <1>5

\* A write and the telling of it: its observers are out and owe it, or are told.
LEMMA NotifyKnown ==
    ASSUME OwnersKnown, NEW t \in Actor, stk[t] # <<>>, Top(t).at \in {"start", "settle"},
           NEW v, NEW changed, NEW sent, Notify(t, v, changed, sent), UNCHANGED <<claims, setup>>,
           NEW o, o = Top(t).call.node,
           o \in Owner => /\ Unheard(v, own[o], claims[o], changed) /\ own[o].life # "none"
                          /\ Steady(setup) => own[o].out = {} \/ v.forced = own[o].forced
    PROVE  OwnersKnown'
  <1>s. StacksOK /\ IsStack(stk[t]) /\ own = [p \in Owner |-> own[p]]
    BY DEF OwnersKnown, StacksOK
  <1>k. PICK k : k = <<t, Len(stk[t])>>
    OBVIOUS
  <1>n. PICK n : n = v.out \cup {k}
    OBVIOUS
  <1>1. PICK x : x = [v EXCEPT !.out = n]
    OBVIOUS
  <1>2. PICK w : w = IF Observed(v) THEN x ELSE Told(v, changed)
    OBVIOUS
  <1>3. own' = [own EXCEPT ![o] = w]
    BY <1>k, <1>n, <1>1, <1>2 DEF Notify
  <1>4. PICK r : /\ stk' = [stk EXCEPT ![t] = r]
                 /\ IsStack(r) /\ r # <<>> /\ Len(r) = Len(stk[t]) /\ Below(r, stk[t], Len(stk[t]) - 1)
                 /\ r[Len(r)].at = (IF Observed(v) THEN "cb" ELSE "done") /\ r[Len(r)].call = Top(t).call
                 /\ r[Len(r)].seen = [forced |-> v.forced, seq |-> v.seq, changed |-> changed]
    BY <1>s, NotifyTop
  <1>5. PICK f : f = r[Len(r)]
    OBVIOUS
  <1>6. /\ f.seen.forced = v.forced /\ f.seen.changed = changed /\ f.call = Top(t).call
        /\ Observed(v) => f.at = "cb"
        /\ ~Observed(v) => f.at = "done"
    BY <1>4, <1>5
  <1>7. Len(stk[t]) \in Nat \ {0} /\ Len(stk[t]) \in 1 .. Len(stk[t]) /\ Len(r) \in 1 .. Len(r)
    BY <1>4, <1>s, StackLen
  <1>8. StacksOK'
    BY <1>4, <1>s DEF StacksOK
  <1>9. \A p : Owed(p) => Owed(p)'
    <2>1. ASSUME NEW p, NEW i \in 1 .. Len(stk[t]), Owes(stk[t][i]) /\ stk[t][i].call.node = p
          PROVE  i \in 1 .. Len(r) /\ Owes(r[i]) /\ r[i].call.node = p
      <3>1. i # Len(stk[t])
        BY <2>1 DEF Owes, Top
      <3>2. i \in 1 .. (Len(stk[t]) - 1)
        BY <1>7, <3>1
      <3> QED BY <2>1, <3>2, <1>4 DEF Below
    <2>2. stk' = [stk EXCEPT ![t] = r] /\ UNCHANGED setup
      BY <1>4
    <2>3. ASSUME NEW p PROVE Owed(p) => Owed(p)'
      <3>1. Owing(r, stk[t], p)
        BY <2>1 DEF Owing
      <3> QED BY <3>1, <2>2, <1>s, PendingKept
    <2> QED BY <2>3
  <1>10. ASSUME o \in Owner
         PROVE  /\ Kept(w, claims[o]) /\ w.life = own[o].life /\ w.forced = v.forced
                /\ Observed(v) => w.out = n /\ (Promised(v) => Promised(w))
                /\ ~Observed(v) => w.out = v.out /\ ((~changed => Promised(v)) => Promised(w))
    <2>1. Kept(v, claims[o]) /\ v.life = own[o].life
      BY <1>10 DEF Unheard
    <2>2. Kept(x, claims[o]) /\ (Promised(v) => Promised(x)) /\ x.life = v.life /\ x.forced = v.forced /\ x.out = n
      BY <2>1, <1>1, OutKept
    <2>3. /\ Kept(Told(v, changed), claims[o])
          /\ (~changed => Promised(v)) => Promised(Told(v, changed))
          /\ Told(v, changed).life = v.life /\ Told(v, changed).out = v.out /\ Told(v, changed).forced = v.forced
      BY <2>1, ToldKept
    <2>4. CASE Observed(v)
      BY <2>1, <2>2, <2>4, <1>2
    <2>5. CASE ~Observed(v)
      BY <2>1, <2>3, <2>5, <1>2
    <2> QED BY <2>4, <2>5
  <1>11. ASSUME Steady(setup) PROVE FramesOK'
    <2>1. FramesOK
      BY <1>11 DEF OwnersKnown
    <2>2. o \in Owner => Spares(w, own[o], <<t, Len(stk[t])>>)
      BY <1>10, <1>11, <1>n DEF Spares, Unheard
    <2>3. Standing(f, t, Len(r))'
      <3>1. Len(r) > 1 => f.call.op \notin {"force", "unforce"}
        BY <1>4, <1>6, <1>7, <2>1 DEF FramesOK, Standing, Top
      <3>2. Owes(f) => ~setup.queued
        BY <1>6 DEF Owes, Observed
      <3>3. o \in Owner => own'[o] = w
        BY <1>3, <1>s
      <3>4. f.call.node = o
        BY <1>6
      <3>5. o \in Owner => Watched(f, <<t, Len(r)>>, w)
        BY <1>4, <1>6, <1>10, <1>k, <1>n DEF Watched, Idle, Owes
      <3> QED BY <3>1, <3>2, <3>3, <3>4, <3>5 DEF Standing, Watched, Idle, Owes
    <2>4. ASSUME NEW i \in 1 .. Len(r)
          PROVE  (i \in 1 .. (Len(stk[t]) - 1) /\ r[i] = stk[t][i]) \/ Standing(r[i], t, i)'
      <3>1. CASE i \in 1 .. (Len(stk[t]) - 1)
        BY <3>1, <1>4 DEF Below
      <3>2. CASE i \notin 1 .. (Len(stk[t]) - 1)
        <4>1. i = Len(r)
          BY <3>2, <1>4, <1>7
        <4> QED BY <4>1, <2>3, <1>5
      <3> QED BY <3>1, <3>2
    <2> QED BY <2>1, <2>2, <2>4, <1>s, <1>3, <1>4, FramesKept
  <1>12. o \in Owner => Kept(w, claims[o]) /\ (Owed(o)' \/ Promised(w))
    <2> SUFFICES ASSUME o \in Owner PROVE Owed(o)' \/ Promised(w)
      BY <1>10
    <2>1. ~changed => Owed(o)' \/ Promised(v)
      BY <1>9 DEF OwnersKnown, Unheard
    <2>2. CASE Observed(v) /\ changed
      <3>1. stk'[t] = r
        BY <1>4, <1>s DEF StacksOK
      <3>2. stk'[t][Len(r)].call.node = o /\ Owes(stk'[t][Len(r)]) /\ Len(r) \in 1 .. Len(stk'[t])
        BY <2>2, <3>1, <1>5, <1>6, <1>7 DEF Owes
      <3>3. Pending(o)'
        BY <3>2 DEF Pending, Owes
      <3> QED BY <3>3 DEF Owed
    <2>3. CASE Observed(v) /\ ~changed
      BY <2>1, <2>3, <1>10
    <2>4. CASE ~Observed(v)
      BY <2>1, <2>4, <1>10
    <2> QED BY <2>2, <2>3, <2>4
  <1> QED BY <1>3, <1>8, <1>9, <1>11, <1>12, OwnPut

\* The innermost call says what changed, or starts a call before it does.
LEMMA TellKnown ==
    ASSUME OwnersKnown, NEW t \in Actor, stk[t] # <<>>, UNCHANGED <<claims, setup>>,
           NEW l \in {"change", "cbend"}, Top(t).at \in {"cb", "change"},
           NEW r, stk' = [stk EXCEPT ![t] = r], Goes(r, stk[t], l),
           NEW o, o = Top(t).call.node, NEW x, NEW w, w = [own[o] EXCEPT !.told = x], own' = [own EXCEPT ![o] = w],
           l = "change" => x = own[o].told,
           l = "cbend" => x = IF Top(t).seen.changed THEN Seen(own[o], Top(t).seen) ELSE own[o].told
    PROVE  OwnersKnown'
  <1>s. StacksOK /\ IsStack(stk[t]) /\ own = [p \in Owner |-> own[p]]
    BY DEF OwnersKnown, StacksOK
  <1>1. own' = [own EXCEPT ![o] = w] /\ stk' = [stk EXCEPT ![t] = r] /\ UNCHANGED setup
    OBVIOUS
  <1>3. /\ IsStack(r) /\ r # <<>> /\ Below(r, stk[t], Len(stk[t]) - 1)
        /\ r[Len(stk[t])].at = l /\ r[Len(stk[t])].call = Top(t).call /\ r[Len(stk[t])].seen = Top(t).seen
        /\ \/ Len(r) = Len(stk[t])
           \/ Len(r) = Len(stk[t]) + 1 /\ r[Len(r)].at = "start" /\ r[Len(r)].call = setup.body[1] /\ setup.body # <<>>
    BY DEF Goes, Top
  <1>4. PICK f : f = r[Len(stk[t])]
    OBVIOUS
  <1>5. PICK n : n = Len(stk[t])
    OBVIOUS
  <1>6. n \in Nat \ {0} /\ n \in 1 .. Len(stk[t]) /\ n \in 1 .. Len(r)
    BY <1>3, <1>5, <1>s, StackLen
  <1>7. StacksOK'
    BY <1>1, <1>3, <1>s DEF StacksOK
  <1>8. \A p : (p = o => l = "change" \/ ~Top(t).seen.changed) => (Owed(p) => Owed(p)')
    <2>1. ASSUME NEW p, p = o => l = "change" \/ ~Top(t).seen.changed,
                 NEW i \in 1 .. Len(stk[t]), Owes(stk[t][i]) /\ stk[t][i].call.node = p
          PROVE  i \in 1 .. Len(r) /\ Owes(r[i]) /\ r[i].call.node = p
      <3>1. CASE i = n
        <4>1. stk[t][i] = Top(t) /\ r[i].at = l /\ r[i].call = Top(t).call /\ r[i].seen = Top(t).seen
          BY <3>1, <1>3, <1>5 DEF Top
        <4>2. p = o /\ Top(t).seen.changed
          BY <2>1, <4>1 DEF Owes
        <4> QED BY <2>1, <3>1, <4>1, <4>2, <1>6 DEF Owes
      <3>2. CASE i # n
        <4>1. i \in 1 .. (Len(stk[t]) - 1)
          BY <3>2, <1>5, <1>6
        <4> QED BY <2>1, <4>1, <1>3 DEF Below
      <3> QED BY <3>1, <3>2
    <2>2. \A p : (p = o => l = "change" \/ ~Top(t).seen.changed) => Owing(r, stk[t], p)
      BY <2>1 DEF Owing
    <2>3. ASSUME NEW p, Owing(r, stk[t], p) PROVE Owed(p) => Owed(p)'
      BY <2>3, <1>s, PendingKept
    <2> QED BY <2>2, <2>3
  <1>9. o \in Owner => /\ Kept(w, claims[o]) /\ w.told = x /\ w.out = own[o].out /\ w.forced = own[o].forced
                       /\ w.life = own[o].life /\ w.parked = own[o].parked /\ w.store = own[o].store
                       /\ x = own[o].told => w = own[o]
    <2> SUFFICES ASSUME o \in Owner PROVE
                       /\ Kept(w, claims[o]) /\ w.told = x /\ w.out = own[o].out /\ w.forced = own[o].forced
                       /\ w.life = own[o].life /\ w.parked = own[o].parked /\ w.store = own[o].store
                       /\ x = own[o].told => w = own[o]
      OBVIOUS
    <2>1. PICK v : v = own[o]
      OBVIOUS
    <2>2. Kept(v, claims[o]) /\ w = [v EXCEPT !.told = x]
      BY <2>1 DEF OwnersKnown
    <2>3. /\ IsOwner(w) /\ w.told = x /\ w.out = v.out /\ w.forced = v.forced /\ w.dup = v.dup /\ w.status = v.status
          /\ w.life = v.life /\ w.parked = v.parked /\ w.store = v.store /\ (x = v.told => w = v)
      BY <2>2 DEF Kept, IsOwner
    <2> QED BY <2>1, <2>2, <2>3 DEF Kept, Stocked, Showing, Listed
  <1>10. ASSUME Steady(setup) PROVE FramesOK'
    <2>1. FramesOK
      BY <1>10 DEF OwnersKnown
    <2>2. o \in Owner => Spares(w, own[o], <<t, Len(stk[t])>>)
      BY <1>9, <2>1 DEF Spares, FramesOK
    <2>3. Standing(Top(t), t, n)
      BY <2>1, <1>5, <1>6 DEF FramesOK, Top
    <2>4. Standing(f, t, n)'
      <3>1. /\ f.call = Top(t).call /\ f.seen = Top(t).seen /\ f.at = l /\ ~Idle(Top(t))
            /\ Owes(f) => Owes(Top(t))
        BY <1>3, <1>4 DEF Owes, Idle
      <3>2. o \in Owner => own'[o] = w
        BY <1>1, <1>s
      <3>3. o \in Owner => Watched(f, <<t, n>>, w)
        BY <2>3, <3>1, <1>9 DEF Watched, Standing
      <3> QED BY <2>3, <3>1, <3>2, <3>3 DEF Standing, Watched, Idle, Owes
    <2>5. ASSUME NEW i \in 1 .. Len(r)
          PROVE  (i \in 1 .. (Len(stk[t]) - 1) /\ r[i] = stk[t][i]) \/ Standing(r[i], t, i)'
      <3>1. CASE i \in 1 .. (Len(stk[t]) - 1)
        BY <3>1, <1>3 DEF Below
      <3>2. CASE i = n
        BY <3>2, <2>4, <1>4, <1>5
      <3>3. CASE i \notin 1 .. (Len(stk[t]) - 1) /\ i # n
        <4>1. i = Len(r) /\ Len(r) = n + 1
          BY <3>3, <1>3, <1>5, <1>6
        <4>2. r[i].at = "start" /\ r[i].call = setup.body[1] /\ setup.body # <<>>
          BY <4>1, <1>3, <1>5, <1>6
        <4>3. Idle(r[i]) /\ ~Owes(r[i]) /\ r[i].call.op \notin {"force", "unforce"}
          BY <4>2, <1>10 DEF Idle, Owes, Steady
        <4> QED BY <4>3 DEF Standing, Watched, Idle, Owes
      <3> QED BY <3>1, <3>2, <3>3
    <2>7. \A i \in 1 .. Len(r) : (i \in 1 .. (Len(stk[t]) - 1) /\ r[i] = stk[t][i]) \/ Standing(r[i], t, i)'
      BY <2>5
    <2> QED BY <2>1, <2>2, <2>7, <1>s, FramesKept
  <1>11. o \in Owner => Kept(w, claims[o]) /\ (Owed(o)' \/ Promised(w))
    <2> SUFFICES ASSUME o \in Owner PROVE Owed(o)' \/ Promised(w)
      BY <1>9
    <2>1. CASE l = "change" \/ ~Top(t).seen.changed
      <3>1. w = own[o]
        BY <2>1, <1>9
      <3> QED BY <2>1, <3>1, <1>8 DEF OwnersKnown
    <2>2. CASE ~Steady(setup)
      BY <2>2 DEF Owed, Steady
    <2>3. CASE Steady(setup) /\ l = "cbend" /\ Top(t).seen.changed
      <3>1. Standing(Top(t), t, n)
        BY <2>3, <1>5, <1>6 DEF FramesOK, Top, OwnersKnown
      <3>2. Owes(Top(t))
        BY <2>3 DEF Owes
      <3>3. ~setup.queued /\ Top(t).seen.forced = own[o].forced
        BY <3>1, <3>2 DEF Standing, Watched
      <3>4. x = State(own[o])
        BY <2>3, <3>3 DEF Seen, State, Steady
      <3>5. State(w) = State(own[o]) /\ w.parked = <<>> /\ w.told = x
        BY <3>3, <1>9 DEF State, Kept, Stocked
      <3> QED BY <3>4, <3>5, EmptyBacklog DEF Promised
    <2> QED BY <2>1, <2>2, <2>3
  <1>12. \A p \in Owner \ {o} : Owed(p) => Owed(p)'
    BY <1>8
  <1> QED BY <1>1, <1>7, <1>10, <1>11, <1>12, OwnPut

\* A value reaches an accessor: applied and told, or behind what it has.
LEMMA ValueKnown ==
    ASSUME NEW c, IsCache(c), Telling(c, setup.queued), NEW o, NEW m
    PROVE  IsCache(OnValue(c, o, m)) /\ Telling(OnValue(c, o, m), setup.queued)
  <1>1. CASE Stale(c, o, m)
    BY <1>1 DEF OnValue
  <1>2. CASE ~Stale(c, o, m)
    <2> DEFINE y == TRUE
               change == WouldChange(c, m.val, m.forced)
    <2>1. PICK w : w = [c EXCEPT !.has = y, !.store = m.val, !.forced = m.forced, !.seq = m.seq, !.src = o]
      OBVIOUS
    <2>2. OnValue(c, o, m) = Told(w, change)
      BY <1>2, <2>1 DEF OnValue
    <2>3. /\ IsCache(w) /\ w.parked = c.parked /\ w.told = c.told /\ w.watch = c.watch /\ w.has = y
          /\ w.store = m.val /\ w.forced = m.forced
      <3> HIDE DEF y
      <3> QED BY <2>1 DEF IsCache
    <2>4. ~change => c.has /\ State(w) = State(c)
      BY <2>3 DEF WouldChange, State
    <2>5. ~change => Promised(w)
      BY <2>3, <2>4 DEF Promised, Telling
    <2>6. Stocked(w, setup.queued)
      BY <2>3 DEF Telling, Stocked
    <2> HIDE DEF change
    <2>7. IsCache(Told(w, change)) /\ Stocked(Told(w, change), setup.queued) /\ Promised(Told(w, change))
      BY <2>3, <2>5, <2>6, CacheTold
    <2> QED BY <2>2, <2>7 DEF Telling
  <1> QED BY <1>1, <1>2

\* A registration replays the state there is.
LEMMA RegisteredKept ==
    ASSUME NEW v, NEW c, Kept(v, c), NEW w, w = Registered(v)
    PROVE  Kept(w, c) /\ Promised(w) /\ w.life = v.life /\ w.out = v.out /\ w.forced = v.forced
  <1>1. PICK u : u = [v EXCEPT !.watch = TRUE]
    OBVIOUS
  <1>2. /\ IsOwner(u) /\ u.parked = v.parked /\ u.has = v.has /\ u.out = v.out
        /\ u.forced = v.forced /\ u.life = v.life /\ u.dup = v.dup /\ u.status = v.status
    <2> DEFINE y == TRUE
    <2>1. u = [v EXCEPT !.watch = y]
      BY <1>1
    <2> HIDE DEF y
    <2> QED BY <2>1 DEF IsOwner, Kept
  <1>3. Kept(u, c) /\ (~v.has => Promised(u))
    BY <1>2 DEF Kept, Stocked, Showing, Listed, Promised
  <1>4. w = Told(u, v.has)
    BY <1>1 DEF Registered
  <1> QED BY <1>2, <1>3, <1>4, ToldKept

LEMMA RegisteredCache ==
    ASSUME NEW v, IsCache(v), Telling(v, setup.queued)
    PROVE  IsCache(Registered(v)) /\ Telling(Registered(v), setup.queued)
  <1>1. PICK w : w = [v EXCEPT !.watch = TRUE]
    OBVIOUS
  <1>2. IsCache(w) /\ w.parked = v.parked /\ w.has = v.has
    <2> DEFINE y == TRUE
    <2>1. w = [v EXCEPT !.watch = y]
      BY <1>1
    <2> HIDE DEF y
    <2> QED BY <2>1 DEF IsCache
  <1>3. Stocked(w, setup.queued) /\ (~v.has => Promised(w))
    BY <1>2 DEF Telling, Stocked, Promised
  <1>4. Registered(v) = Told(w, v.has)
    BY <1>1 DEF Registered
  <1>5. IsCache(Told(w, v.has)) /\ Stocked(Told(w, v.has), setup.queued) /\ Promised(Told(w, v.has))
    BY <1>2, <1>3, CacheTold
  <1> QED BY <1>4, <1>5 DEF Telling

\* No definition, and one at the first stage of its life, whether or not observers
\* wait for it.
Opened(k, s, w) == k = [NoOwner EXCEPT !.life = "open", !.seq = s, !.watch = w]
LEMMA NoOwnerKept ==
    ASSUME NEW c
    PROVE  Kept(NoOwner, c) /\ Promised(NoOwner) /\ NoOwner.out = {}
  <1> DEFINE n == FALSE
             e == <<>>
             z == {}
             nn == [rivals |-> {}, forced |-> FALSE]
  <1>1. NoOwner = [life |-> "none", store |-> None, shadow |-> None, forced |-> n, has |-> n,
            seq |-> 0, out |-> z, watch |-> n, dup |-> z, status |-> nn, told |-> None, parked |-> e]
    BY DEF NoOwner
  <1>2. IsBacklog(e) /\ n \in BOOLEAN
    BY EmptyBacklog
  <1>3. /\ IsOwner(NoOwner) /\ NoOwner.parked = e /\ NoOwner.has = n /\ NoOwner.life = "none" /\ NoOwner.out = z
    <2> HIDE DEF n, e, nn, z
    <2> QED BY <1>1, <1>2 DEF IsOwner
  <1> QED BY <1>2, <1>3 DEF Kept, Stocked, Promised, Showing, Listed

LEMMA OpenKept ==
    ASSUME NEW c, NEW s, NEW w, NEW k, Opened(k, s, w)
    PROVE  Kept(k, c) /\ Promised(k) /\ k.out = {} /\ k.life = "open"
  <1>1. PICK l : l = "open"
    OBVIOUS
  <1> DEFINE n == FALSE
             e == <<>>
             z == {}
             nn == [rivals |-> {}, forced |-> FALSE]
  <1>2. k = [life |-> l, store |-> None, shadow |-> None, forced |-> n, has |-> n,
             seq |-> s, out |-> z, watch |-> w, dup |-> z, status |-> nn, told |-> None, parked |-> e]
    BY <1>1 DEF NoOwner, Opened
  <1>3. IsBacklog(e) /\ n \in BOOLEAN
    BY EmptyBacklog
  <1>4. IsOwner(k) /\ k.parked = e /\ k.has = n /\ k.life = l /\ k.out = z
    <2> HIDE DEF n, e, nn, z
    <2> QED BY <1>2, <1>3 DEF IsOwner
  <1> QED BY <1>1, <1>3, <1>4 DEF Kept, Stocked, Promised, Showing, Listed

\* A dispatch keeps what it is about: a cache, and a definition.
LEMMA CacheDispatched ==
    ASSUME NEW v, IsCache(v), Telling(v, setup.queued), v.parked # <<>>, NEW w, w = Dispatched(v)
    PROVE  IsCache(w) /\ Telling(w, setup.queued)
  <1>1. IsOwner(v) \/ IsCache(v)
    OBVIOUS
  <1>2. Stocked(v, setup.queued) /\ Promised(v)
    BY DEF Telling
  <1>3. IsCache(Dispatched(v)) /\ Stocked(Dispatched(v), setup.queued) /\ Promised(Dispatched(v))
    BY <1>1, <1>2, DispatchTells, Zenon
  <1> QED BY <1>3 DEF Telling

LEMMA OwnerDispatched ==
    ASSUME NEW v, NEW c, Kept(v, c), v.parked # <<>>, NEW w, w = Dispatched(v)
    PROVE  /\ Kept(w, c) /\ (Promised(v) => Promised(w))
           /\ w.life = v.life /\ w.out = v.out /\ w.forced = v.forced
  <1>1. IsOwner(v) /\ Stocked(v, setup.queued)
    BY DEF Kept
  <1>2. /\ IsOwner(w) /\ Stocked(w, setup.queued) /\ w = [v EXCEPT !.parked = w.parked, !.told = w.told]
        /\ Promised(v) => Promised(w)
    BY <1>1, DispatchTells, Zenon
  <1>3. w.life = v.life /\ w.dup = v.dup /\ w.status = v.status /\ w.forced = v.forced /\ w.out = v.out
    BY <1>1, <1>2 DEF IsOwner
  <1> QED BY <1>2, <1>3 DEF Kept, Showing, Listed

\* An accessor whose owner left keeps what it has.
LEMMA DisarmedKept ==
    ASSUME NEW c, IsCache(c), Telling(c, setup.queued), NEW a, NEW l
    PROVE  IsCache(Disarmed(c, a, l)) /\ Telling(Disarmed(c, a, l), setup.queued)
  <1>1. PICK w : w = [c EXCEPT !.src = None]
    OBVIOUS
  <1>2. /\ IsCache(w) /\ w.parked = c.parked /\ w.told = c.told /\ w.watch = c.watch
        /\ w.has = c.has /\ w.store = c.store /\ w.forced = c.forced
    BY <1>1 DEF IsCache
  <1>3. Telling(w, setup.queued)
    BY <1>2, SamePromise DEF Telling, Stocked
  <1>4. Disarmed(c, a, l) \in {c, w}
    BY <1>1 DEF Disarmed
  <1> QED BY <1>2, <1>3, <1>4

\* A write absorbed by a force is no change of the state.
LEMMA ShadowKept ==
    ASSUME NEW v, NEW c, Kept(v, c), NEW x, NEW w, w = [v EXCEPT !.shadow = x]
    PROVE  /\ Kept(w, c) /\ (Promised(v) => Promised(w))
           /\ w.life = v.life /\ w.out = v.out /\ w.forced = v.forced
  <1>1. /\ IsOwner(w) /\ w.parked = v.parked /\ w.told = v.told /\ w.watch = v.watch
        /\ w.has = v.has /\ w.store = v.store /\ w.forced = v.forced
        /\ w.life = v.life /\ w.dup = v.dup /\ w.status = v.status /\ w.out = v.out
    BY DEF IsOwner, Kept
  <1> QED BY <1>1, SamePromise DEF Kept, Stocked, Showing, Listed

\* A definition that parks is listed still.
LEMMA ParkedKept ==
    ASSUME NEW v, NEW c, Kept(v, c), v.life = "live", NEW w, w = [v EXCEPT !.life = "parked"]
    PROVE  Kept(w, c) /\ (Promised(v) => Promised(w)) /\ w.life = "parked"
  <1>1. PICK l : l = "parked"
    OBVIOUS
  <1>2. w = [v EXCEPT !.life = l]
    BY <1>1
  <1>3. /\ IsOwner(w) /\ w.parked = v.parked /\ w.told = v.told /\ w.watch = v.watch
        /\ w.has = v.has /\ w.store = v.store /\ w.forced = v.forced
        /\ w.dup = v.dup /\ w.status = v.status /\ w.life = l
    BY <1>2 DEF IsOwner, Kept
  <1> QED BY <1>1, <1>3, SamePromise DEF Kept, Stocked, Showing, Listed

\* A definition that is listed shows the rivals there are by then.
Enlisted(u, v, c) == u = [v EXCEPT !.life = "live", !.dup = c]
LEMMA EnlistedKept ==
    ASSUME NEW v, NEW c, Kept(v, c), NEW u, Enlisted(u, v, c), NEW w, w = Shown(u)
    PROVE  /\ Kept(w, c) /\ (Promised(v) => Promised(w))
           /\ w.life = "live" /\ w.out = v.out /\ w.forced = v.forced
  <1>1. PICK l : l = "live"
    OBVIOUS
  <1>2. PICK r : r = [v EXCEPT !.life = l]
    OBVIOUS
  <1>3. IsOwner(r) /\ r.parked = v.parked /\ r.told = v.told /\ r.watch = v.watch
        /\ r.has = v.has /\ r.store = v.store /\ r.forced = v.forced /\ r.out = v.out
        /\ r.dup = v.dup /\ r.status = v.status /\ r.life = l
    BY <1>2 DEF IsOwner, Kept
  <1>4. u = [r EXCEPT !.dup = c]
    BY <1>1, <1>2 DEF Enlisted
  <1> DEFINE st == [rivals |-> c, forced |-> v.forced]
  <1>5. IsOwner(u) /\ u.parked = v.parked /\ u.told = v.told /\ u.watch = v.watch /\ u.life = l /\ u.out = v.out
        /\ u.has = v.has /\ u.store = v.store /\ u.forced = v.forced /\ u.dup = c
    BY <1>3, <1>4 DEF IsOwner
  <1>7. w = [u EXCEPT !.status = st]
    BY <1>5 DEF Shown
  <1>8. /\ IsOwner(w) /\ w.parked = v.parked /\ w.told = v.told /\ w.watch = v.watch /\ w.life = l /\ w.out = v.out
        /\ w.has = v.has /\ w.store = v.store /\ w.forced = v.forced /\ w.dup = c /\ w.status = st
    <2> HIDE DEF st
    <2> QED BY <1>5, <1>7 DEF IsOwner
  <1> QED BY <1>1, <1>8, SamePromise DEF Kept, Stocked, Showing

\* The problems shown are rebuilt whenever a rival comes or goes.
LEMMA RivalKept ==
    ASSUME NEW v, NEW c, Kept(v, c), NEW d, NEW w, w = Shown([v EXCEPT !.dup = d])
    PROVE  /\ Kept(w, d) /\ (Promised(v) => Promised(w))
           /\ w.life = v.life /\ w.out = v.out /\ w.forced = v.forced
  <1> DEFINE st == [rivals |-> d, forced |-> v.forced]
  <1>1. PICK u : u = [v EXCEPT !.dup = d]
    OBVIOUS
  <1>3. IsOwner(u) /\ u.dup = d /\ u.forced = v.forced /\ u.parked = v.parked /\ u.told = v.told /\ u.watch = v.watch
        /\ u.has = v.has /\ u.store = v.store /\ u.life = v.life /\ u.out = v.out
    BY <1>1 DEF IsOwner, Kept
  <1>4. w = [u EXCEPT !.status = st]
    BY <1>1, <1>3 DEF Shown
  <1>5. IsOwner(w) /\ w.dup = d /\ w.forced = v.forced /\ w.parked = v.parked /\ w.told = v.told /\ w.watch = v.watch
        /\ w.has = v.has /\ w.store = v.store /\ w.status = st /\ w.life = v.life /\ w.out = v.out
    <2> HIDE DEF st
    <2> QED BY <1>3, <1>4 DEF IsOwner
  <1> QED BY <1>5, SamePromise DEF Kept, Showing, Stocked

\* A node's claims change, and with them the rivals of a listed definition.
LEMMA ClaimKnown ==
    ASSUME OwnersKnown, NEW o, NEW d, UNCHANGED <<stk, setup>>,
           claims' = [claims EXCEPT ![o] = d],
           own' = [own EXCEPT ![o] = IF Listed(@) THEN Shown([@ EXCEPT !.dup = d]) ELSE @]
    PROVE  OwnersKnown'
  <1>1. PICK w : w = IF Listed(own[o]) THEN Shown([own[o] EXCEPT !.dup = d]) ELSE own[o]
    OBVIOUS
  <1>2. /\ own' = [p \in Owner |-> own'[p]] /\ claims' = [p \in Owner |-> claims'[p]]
        /\ \A p \in Owner : own'[p] = IF p = o THEN w ELSE own[p]
        /\ \A p \in Owner : claims'[p] = IF p = o THEN d ELSE claims[p]
    BY <1>1 DEF OwnersKnown
  <1>3. o \in Owner => /\ Kept(w, d) /\ (Promised(own[o]) => Promised(w))
                       /\ w.life = own[o].life /\ w.out = own[o].out /\ w.forced = own[o].forced
    <2> SUFFICES ASSUME o \in Owner
                 PROVE  /\ Kept(w, d) /\ (Promised(own[o]) => Promised(w))
                        /\ w.life = own[o].life /\ w.out = own[o].out /\ w.forced = own[o].forced
      OBVIOUS
    <2>1. Kept(own[o], claims[o])
      BY DEF OwnersKnown
    <2>2. CASE Listed(own[o])
      BY <2>1, <2>2, <1>1, RivalKept
    <2>3. CASE ~Listed(own[o])
      BY <2>1, <2>3, <1>1 DEF Kept, Showing
    <2> QED BY <2>2, <2>3
  <1>4. \A p : Owed(p)' <=> Owed(p)
    BY PendingSame
  <1>5. ASSUME NEW p \in Owner PROVE Kept(own'[p], claims'[p]) /\ (Owed(p)' \/ Promised(own'[p]))
    BY <1>2, <1>3, <1>4 DEF OwnersKnown
  <1>6. \A p \in Owner : Kept(own[p], claims[p])' /\ (Owed(p)' \/ Promised(own[p])')
    BY <1>5 DEF Kept, Promised, State
  <1>7. StacksOK' /\ (Steady(setup)' <=> Steady(setup))
    BY DEF OwnersKnown, StacksOK, Steady
  <1>8. Steady(setup) => FramesOK'
    BY <1>2, <1>3, FramesSame DEF OwnersKnown
  <1> QED BY <1>2, <1>6, <1>7, <1>8 DEF OwnersKnown

\* Initially nothing is known, nothing is claimed, and nobody calls.
LEMMA InitKnown == Init => KnownInv
  <1> SUFFICES ASSUME Init PROVE KnownInv
    OBVIOUS
  <1>1. ASSUME NEW o \in Owner PROVE Kept(own[o], claims[o]) /\ Promised(own[o]) /\ own[o].out = {}
    <2>1. claims[o] = {}
      BY DEF Init
    <2>2. CASE o \notin setup.first
      <3>1. own[o] = NoOwner
        BY <2>2 DEF Init
      <3> QED BY <3>1, NoOwnerKept
    <2>3. CASE o \in setup.first
      <3> DEFINE n == FALSE
                 e == <<>>
                 z == {}
                 nn == [rivals |-> {}, forced |-> n]
      <3>1. own[o] = [life |-> "live", store |-> None, shadow |-> None, forced |-> n, has |-> n,
                      seq |-> setup.base, out |-> z, watch |-> setup.watch, dup |-> z, status |-> nn,
                      told |-> None, parked |-> e]
        BY <2>3 DEF Init, NoOwner
      <3>2. IsBacklog(e) /\ n \in BOOLEAN
        BY EmptyBacklog
      <3>3. IsOwner(own[o]) /\ own[o].parked = e /\ own[o].has = n /\ own[o].dup = z /\ own[o].forced = n
            /\ own[o].status = nn /\ own[o].out = z
        <4> HIDE DEF n, e, nn, z
        <4> QED BY <3>1, <3>2 DEF IsOwner
      <3> QED BY <2>1, <3>2, <3>3 DEF Kept, Stocked, Promised, Showing
    <2> QED BY <2>2, <2>3
  <1>2. ASSUME NEW a \in Accessor PROVE IsCache(acc[a]) /\ Telling(acc[a], setup.queued)
    <2> DEFINE n == FALSE
               e == <<>>
    <2>1. acc[a] = [has |-> n, store |-> None, forced |-> n, seq |-> 0, src |-> None, watch |-> setup.watch,
                    told |-> None, parked |-> e]
      BY DEF Init, NoCache
    <2>2. IsBacklog(e)
      BY EmptyBacklog
    <2>3. IsCache(acc[a]) /\ acc[a].parked = e /\ acc[a].has = n
      <3> HIDE DEF n, e
      <3> QED BY <2>1 DEF IsCache
    <2> QED BY <2>2, <2>3 DEF Telling, Stocked, Promised
  <1>3. StacksOK
    <2>1. \A t \in Actor : stk[t] = <<>>
      BY DEF Init
    <2>2. IsStack(<<>>)
      BY HeldNone DEF IsStack
    <2> QED BY <2>1, <2>2 DEF StacksOK, Init
  <1>4. FramesOK
    <2>1. \A t \in Actor : 1 .. Len(stk[t]) = {}
      BY DEF Init
    <2> QED BY <1>1, <2>1 DEF FramesOK
  <1> QED BY <1>1, <1>2, <1>3, <1>4 DEF KnownInv, OwnersKnown, CachesKnown, Init

\* A definition whose observers and flag stay spares every call.
LEMMA SameSpares ==
    ASSUME OwnersKnown, NEW o \in Owner, NEW w, w.out = own[o].out, w.forced = own[o].forced,
           w.life = "none" => own[o].life = "none", NEW k
    PROVE  Steady(setup) => Spares(w, own[o], k)
  BY DEF OwnersKnown, FramesOK, Spares

\* A call returns from, or goes on at, what is sound at its node.
LEMMA PopKnown ==
    ASSUME OwnersKnown, NEW t \in Actor, stk[t] # <<>>, ~Owes(Top(t)), stk' = Pop(t),
           UNCHANGED <<claims, setup>>, NEW o, NEW w, own' = [own EXCEPT ![o] = w],
           o \in Owner => /\ Kept(w, claims[o]) /\ (Promised(own[o]) => Promised(w))
                          /\ Steady(setup) => Spares(w, own[o], <<t, Len(stk[t])>>)
    PROVE  OwnersKnown'
  <1>1. PICK r : stk' = [stk EXCEPT ![t] = r] /\ Slides(r, stk[t])
    BY PopSlides DEF OwnersKnown
  <1> QED BY <1>1, OwnSlides

LEMMA GotoKnown ==
    ASSUME OwnersKnown, NEW t \in Actor, stk[t] # <<>>, ~Owes(Top(t)),
           NEW l, l \notin {"cb", "change", "cbend"}, stk' = Goto(t, l),
           UNCHANGED <<claims, setup>>, NEW o, NEW w, own' = [own EXCEPT ![o] = w],
           o \in Owner => /\ Kept(w, claims[o]) /\ (Promised(own[o]) => Promised(w))
                          /\ Steady(setup) => Spares(w, own[o], <<t, Len(stk[t])>>)
    PROVE  OwnersKnown'
  <1>1. PICK r : stk' = [stk EXCEPT ![t] = r] /\ Slides(r, stk[t])
    BY GotoSlides DEF OwnersKnown
  <1> QED BY <1>1, OwnSlides

\* The same when no definition changes.
LEMMA PopOnly ==
    ASSUME OwnersKnown, NEW t \in Actor, stk[t] # <<>>, ~Owes(Top(t)), stk' = Pop(t),
           UNCHANGED <<own, claims, setup>>
    PROVE  OwnersKnown'
  <1>1. PICK r : stk' = [stk EXCEPT ![t] = r] /\ Slides(r, stk[t])
    BY PopSlides DEF OwnersKnown
  <1> QED BY <1>1, OnlySlides

LEMMA GotoOnly ==
    ASSUME OwnersKnown, NEW t \in Actor, stk[t] # <<>>, ~Owes(Top(t)),
           NEW l, l \notin {"cb", "change", "cbend"}, stk' = Goto(t, l),
           UNCHANGED <<own, claims, setup>>
    PROVE  OwnersKnown'
  <1>1. PICK r : stk' = [stk EXCEPT ![t] = r] /\ Slides(r, stk[t])
    BY GotoSlides DEF OwnersKnown
  <1> QED BY <1>1, OnlySlides

\* A force or an unforce that writes has no observer out: it settled, and no
\* observer forces.
LEMMA SettledAlone ==
    ASSUME OwnersKnown, NEW t \in Actor, NEW o, NEW op \in {"force", "unforce"}, In(t, op, "settle"), Settled(t, o),
           Steady(setup)
    PROVE  own[o].out = {}
  <1>1. IsStack(stk[t]) /\ stk[t] # <<>> /\ Top(t).call.op \in {"force", "unforce"}
    BY DEF OwnersKnown, StacksOK, In, At
  <1>2. Len(stk[t]) \in Nat /\ Len(stk[t]) \in 1 .. Len(stk[t])
    BY <1>1, StackLen
  <1>3. Standing(Top(t), t, Len(stk[t]))
    BY <1>2 DEF OwnersKnown, FramesOK, Top
  <1>4. ~(Len(stk[t]) > 1)
    BY <1>1, <1>3 DEF Standing
  <1> QED BY <1>4 DEF Settled

LEMMA NextCaches == CachesKnown /\ [Next]_vars => CachesKnown'
  <1> SUFFICES ASSUME CachesKnown, [Next]_vars PROVE CachesKnown'
    OBVIOUS
  <1>a. ASSUME NEW a, a \in Accessor PROVE IsCache(acc[a]) /\ Telling(acc[a], setup.queued)
    BY <1>a DEF CachesKnown
  <1>1. CASE UNCHANGED vars
    BY <1>1, CachesSame DEF vars
  <1>2. ASSUME NEW o \in Owner, NEW a \in Accessor, Deliver(o, a) PROVE CachesKnown'
    <2>1. PICK w : w = OnValue(acc[a], o, Head(lane[o][a].q))
      OBVIOUS
    <2>2. acc' = [acc EXCEPT ![a] = w] /\ UNCHANGED setup
      BY <1>2, <2>1 DEF Deliver
    <2>3. IsCache(w) /\ Telling(w, setup.queued)
      BY <1>a, <2>1, ValueKnown
    <2> QED BY <2>2, <2>3, CachePut
  <1>3. ASSUME NEW o \in Owner, NEW a \in Accessor, AccessorInterest(o, a) PROVE CachesKnown'
    <2>1. PICK w : w = Disarmed(acc[a], a, lane')
      OBVIOUS
    <2>2. acc' = [acc EXCEPT ![a] = w] /\ UNCHANGED setup
      BY <1>3, <2>1 DEF AccessorInterest
    <2>3. IsCache(w) /\ Telling(w, setup.queued)
      BY <1>a, <2>1, DisarmedKept
    <2> QED BY <2>2, <2>3, CachePut
  <1>4. ASSUME NEW t \in Actor, OnChange(t) PROVE CachesKnown'
    <2>1. PICK x : x = Top(t).call.node
      OBVIOUS
    <2>2. CASE x \in Owner
      BY <1>4, <2>1, <2>2, CachesSame DEF OnChange
    <2>3. CASE x \notin Owner
      <3>1. PICK w : w = Registered(acc[x])
        OBVIOUS
      <3>2. acc' = [acc EXCEPT ![x] = w] /\ UNCHANGED setup
        BY <1>4, <2>1, <2>3, <3>1 DEF OnChange
      <3>3. x \in Accessor => IsCache(w) /\ Telling(w, setup.queued)
        BY <1>a, <3>1, RegisteredCache
      <3> QED BY <3>2, <3>3, CachePut
    <2> QED BY <2>2, <2>3
  <1>5. ASSUME Dispatch PROVE CachesKnown'
    <2>1. CASE \E o \in Owner : own[o].parked # <<>> /\ own' = [own EXCEPT ![o] = Dispatched(@)] /\ UNCHANGED acc
      BY <1>5, <2>1, CachesSame DEF Dispatch
    <2>2. CASE \E a \in Accessor : acc[a].parked # <<>> /\ acc' = [acc EXCEPT ![a] = Dispatched(@)] /\ UNCHANGED own
      <3>1. PICK a \in Accessor : acc[a].parked # <<>> /\ acc' = [acc EXCEPT ![a] = Dispatched(@)]
        BY <2>2
      <3>2. PICK w : w = Dispatched(acc[a])
        OBVIOUS
      <3>3. acc' = [acc EXCEPT ![a] = w] /\ UNCHANGED setup
        BY <1>5, <2>2, <3>1, <3>2 DEF Dispatch
      <3>4. IsCache(w) /\ Telling(w, setup.queued)
        BY <1>a, <3>1, <3>2, CacheDispatched
      <3> QED BY <3>3, <3>4, CachePut
    <2> QED BY <1>5, <2>1, <2>2 DEF Dispatch
  <1>6. ASSUME NEW o \in Owner, NEW a \in Accessor, LoseInFlight(o, a) \/ Cut(o, a) \/ OnSet(o, a) PROVE CachesKnown'
    BY <1>6, CachesSame DEF LoseInFlight, Cut, OnSet
  <1>7. ASSUME NEW o \in Owner, FreshEnds(o) PROVE CachesKnown'
    BY <1>7, CachesSame DEF FreshEnds
  <1>8. ASSUME NEW p \in Owner, NEW o \in Owner, OwnerInterest(p, o) \/ CutOwners(p, o) PROVE CachesKnown'
    BY <1>8, CachesSame DEF OwnerInterest, CutOwners
  <1>9. ASSUME NEW t \in Actor, Call(t) \/ Set(t) \/ Enter(t) \/ OwnerApply(t) \/ OwnerForce(t) \/ OwnerUnforce(t)
        PROVE  CachesKnown'
    BY <1>9, CachesSame DEF Call, Set, Enter, OwnerApply, OwnerForce, OwnerUnforce
  <1>10. ASSUME NEW t \in Actor, ObserveWrite(t) \/ Tell(t) \/ ObserveEnd(t) \/ AfterWrite(t) \/ SendSet(t) \/ Route(t)
         PROVE  CachesKnown'
    BY <1>10, CachesSame DEF ObserveWrite, Tell, ObserveEnd, AfterWrite, SendSet, Route
  <1>11. ASSUME NEW t \in Actor, Park(t) \/ Retire(t) \/ Define(t) \/ Enlist(t) \/ Drain(t) PROVE CachesKnown'
    BY <1>11, CachesSame DEF Park, Retire, Define, Enlist, Drain
  <1> QED
    BY <1>1, <1>2, <1>3, <1>4, <1>5, <1>6, <1>7, <1>8, <1>9, <1>10, <1>11 DEF Next, Done

LEMMA NextOwners == OwnersKnown /\ [Next]_vars => OwnersKnown'
  <1> SUFFICES ASSUME OwnersKnown, [Next]_vars PROVE OwnersKnown'
    OBVIOUS
  <1>k. ASSUME NEW o, o \in Owner PROVE Kept(own[o], claims[o])
    BY <1>k DEF OwnersKnown
  <1>s. StacksOK
    BY DEF OwnersKnown
  <1>1. CASE UNCHANGED vars
    BY <1>1, OwnSame DEF vars
  <1>2. ASSUME NEW o \in Owner, NEW a \in Accessor,
               Deliver(o, a) \/ AccessorInterest(o, a) \/ LoseInFlight(o, a) \/ Cut(o, a)
        PROVE  OwnersKnown'
    BY <1>2, OwnSame DEF Deliver, AccessorInterest, LoseInFlight, Cut
  <1>3. ASSUME NEW o \in Owner, NEW a \in Accessor, OnSet(o, a) PROVE OwnersKnown'
    <2>1. PICK c : c = [Head(ops[o][a]) EXCEPT !.node = o]
      OBVIOUS
    <2>2. PICK r : r = <<Frame(c)>>
      OBVIOUS
    <2>3. stk' = [stk EXCEPT ![o] = r] /\ stk[o] = <<>> /\ UNCHANGED <<own, claims, setup>>
      BY <1>3, <2>1, <2>2 DEF OnSet
    <2>4. Slides(r, stk[o]) /\ o \in Actor
      BY <2>2, <2>3, FirstSlides DEF Actor
    <2> QED BY <2>3, <2>4, OnlySlides
  <1>4. ASSUME NEW t \in Actor, Call(t) PROVE OwnersKnown'
    <2>1. PICK r : r = <<Frame(Head(todo[t]))>>
      OBVIOUS
    <2>2. stk' = [stk EXCEPT ![t] = r] /\ stk[t] = <<>> /\ UNCHANGED <<own, claims, setup>>
      BY <1>4, <2>1 DEF Call
    <2>3. Slides(r, stk[t])
      BY <2>1, <2>2, FirstSlides
    <2> QED BY <2>2, <2>3, OnlySlides
  <1>5. ASSUME NEW o \in Owner, FreshEnds(o) PROVE OwnersKnown'
    BY <1>5, OwnSame DEF FreshEnds
  <1>6. ASSUME NEW p \in Owner, NEW o \in Owner, OwnerInterest(p, o) PROVE OwnersKnown'
    <2>1. PICK d : d = IF Live(p) THEN claims[o] \cup {p} ELSE claims[o] \ {p}
      OBVIOUS
    <2>2. claims' = [claims EXCEPT ![o] = d] /\ UNCHANGED <<stk, setup>>
      BY <1>6, <2>1 DEF OwnerInterest
    <2>3. Listed(own[o]) => DupChecked(own[o], p, Live(p)) = Shown([own[o] EXCEPT !.dup = d])
      <3>1. Listed(own[o]) => own[o].dup = claims[o]
        BY <1>k DEF Kept, Showing
      <3>2. Listed(own[o]) => d = IF Live(p) THEN own[o].dup \cup {p} ELSE own[o].dup \ {p}
        BY <2>1, <3>1
      <3> QED BY <3>2 DEF DupChecked
    <2>4. own' = [own EXCEPT ![o] = IF Listed(@) THEN Shown([@ EXCEPT !.dup = d]) ELSE @]
      BY <1>6, <2>3 DEF OwnerInterest
    <2> QED BY <2>2, <2>4, ClaimKnown
  <1>7. ASSUME NEW p \in Owner, NEW o \in Owner, CutOwners(p, o) PROVE OwnersKnown'
    <2>1. PICK d : d = claims[o] \ {p}
      OBVIOUS
    <2>2. claims' = [claims EXCEPT ![o] = d] /\ UNCHANGED <<stk, setup>>
      BY <1>7, <2>1 DEF CutOwners
    <2>3. Listed(own[o]) => DupChecked(own[o], p, FALSE) = Shown([own[o] EXCEPT !.dup = d])
      <3>1. Listed(own[o]) => own[o].dup = claims[o]
        BY <1>k DEF Kept, Showing
      <3> QED BY <2>1, <3>1 DEF DupChecked
    <2>4. own' = [own EXCEPT ![o] = IF Listed(@) THEN Shown([@ EXCEPT !.dup = d]) ELSE @]
      BY <1>7, <2>3 DEF CutOwners
    <2> QED BY <2>2, <2>4, ClaimKnown
  <1>8. ASSUME NEW t \in Actor, NEW op, In(t, op, "start") \/ In(t, op, "settle")
        PROVE  stk[t] # <<>> /\ Top(t).at \in {"start", "settle"} /\ ~Owes(Top(t))
    BY <1>8 DEF In, At, Owes
  <1>9. ASSUME NEW t \in Actor, Set(t) \/ OwnerApply(t) PROVE OwnersKnown'
    <2>1. PICK o : o = Top(t).call.node
      OBVIOUS
    <2>2. PICK x : x = Top(t).call.val
      OBVIOUS
    <2>3. UNCHANGED <<claims, setup>> /\ own[o].life # "none" /\ stk[t] # <<>> /\ Top(t).at \in {"start", "settle"} /\ ~Owes(Top(t))
      <3>1. In(t, "set", "start") \/ In(t, "apply", "settle")
        BY <1>9 DEF Set, OwnerApply
      <3>2. UNCHANGED <<claims, setup>> /\ own[o].life # "none"
        BY <1>9, <2>1 DEF Set, OwnerApply
      <3> QED BY <3>1, <3>2, <1>8
    <2>4. CASE own[o].forced
      <3>1. PICK w : w = [own[o] EXCEPT !.shadow = x]
        OBVIOUS
      <3>2. own' = [own EXCEPT ![o] = w] /\ stk' = Pop(t)
        BY <1>9, <2>1, <2>2, <2>4, <3>1 DEF Set, OwnerApply
      <3>3. o \in Owner => /\ Kept(w, claims[o]) /\ (Promised(own[o]) => Promised(w))
                           /\ w.out = own[o].out /\ w.forced = own[o].forced /\ w.life = own[o].life
        BY <1>k, <3>1, ShadowKept
      <3>4. o \in Owner => (Steady(setup) => Spares(w, own[o], <<t, Len(stk[t])>>))
        BY <3>3, SameSpares
      <3> QED BY <2>3, <3>2, <3>3, <3>4, PopKnown
    <2>5. CASE ~own[o].forced
      <3> DEFINE v == Written(own[o], x)
                 c == WouldChange(own[o], x, FALSE)
      <3>1. PICK m : Notify(t, v, c, m)
        BY <1>9, <2>1, <2>2, <2>5 DEF Set, OwnerApply
      <3>2. o \in Owner => Unheard(v, own[o], claims[o], c) /\ v.forced = own[o].forced
        BY <1>k, <2>5, WrittenUnheard
      <3> HIDE DEF v, c
      <3> QED BY <2>1, <2>3, <3>1, <3>2, NotifyKnown
    <2> QED BY <2>4, <2>5
  <1>10. ASSUME NEW t \in Actor, OwnerForce(t) PROVE OwnersKnown'
    <2>1. PICK o : o = Top(t).call.node
      OBVIOUS
    <2>2. PICK w : w = Shown(ForcedOn(own[o], Top(t).call.val))
      OBVIOUS
    <2>3. PICK c : c = WouldChange(own[o], w.store, TRUE)
      OBVIOUS
    <2>4. UNCHANGED <<claims, setup>> /\ Notify(t, w, c, None) /\ own[o].life # "none" /\ Settled(t, o) /\ In(t, "force", "settle")
      BY <1>10, <2>1, <2>2, <2>3 DEF OwnerForce
    <2>5. o \in Owner => Unheard(w, own[o], claims[o], c)
      BY <1>k, <2>2, <2>3, ForcedUnheard
    <2>6. Steady(setup) => own[o].out = {}
      BY <2>4, SettledAlone
    <2>7. stk[t] # <<>> /\ Top(t).at \in {"start", "settle"}
      BY <2>4, <1>8
    <2> QED BY <2>1, <2>4, <2>5, <2>6, <2>7, NotifyKnown
  <1>11. ASSUME NEW t \in Actor, OwnerUnforce(t) PROVE OwnersKnown'
    <2>1. PICK o : o = Top(t).call.node
      OBVIOUS
    <2>2. PICK w : w = Released(own[o])
      OBVIOUS
    <2>4. UNCHANGED <<claims, setup>> /\ Notify(t, w, TRUE, None) /\ own[o].life # "none" /\ Settled(t, o) /\ In(t, "unforce", "settle")
      BY <1>11, <2>1, <2>2 DEF OwnerUnforce, Released
    <2>5. o \in Owner => Unheard(w, own[o], claims[o], TRUE)
      <3>1. PICK v : v = own[o]
        OBVIOUS
      <3>2. o \in Owner => Unheard(Released(v), v, claims[o], TRUE)
        BY <1>k, <3>1, ReleasedUnheard
      <3> QED BY <2>2, <3>1, <3>2
    <2>6. Steady(setup) => own[o].out = {}
      BY <2>4, SettledAlone
    <2>7. stk[t] # <<>> /\ Top(t).at \in {"start", "settle"}
      BY <2>4, <1>8
    <2> QED BY <2>1, <2>4, <2>5, <2>6, <2>7, NotifyKnown
  <1>12. ASSUME NEW t \in Actor, ObserveWrite(t) PROVE OwnersKnown'
    <2>1. PICK o : o = Top(t).call.node
      OBVIOUS
    <2>2. PICK l : l = "change"
      OBVIOUS
    <2>3. stk[t] # <<>> /\ Top(t).at \in {"cb", "change"} /\ setup.body # <<>> /\ UNCHANGED <<own, claims, setup>>
          /\ stk' = Under(t, l) /\ l # "settle"
      BY <1>12, <2>2 DEF ObserveWrite, At, Nests
    <2>4. PICK r : stk' = [stk EXCEPT ![t] = r] /\ Goes(r, stk[t], l)
      BY <1>s, <2>3, UnderGoes
    <2>5. PICK x : x = own[o].told
      OBVIOUS
    <2>6. PICK w : w = [own[o] EXCEPT !.told = x]
      OBVIOUS
    <2>7. own' = [own EXCEPT ![o] = w]
      <3>1. o \in Owner => w = own[o]
        <4>1. o \in Owner => IsOwner(own[o])
          BY <1>k DEF Kept
        <4> QED BY <4>1, <2>5, <2>6 DEF IsOwner
      <3> QED BY <3>1, <2>3 DEF OwnersKnown
    <2>8. /\ l \in {"change", "cbend"} /\ UNCHANGED <<claims, setup>> /\ (l = "change" => x = own[o].told)
          /\ l = "cbend" => x = IF Top(t).seen.changed THEN Seen(own[o], Top(t).seen) ELSE own[o].told
      BY <2>2, <2>3, <2>5
    <2>9. stk[t] # <<>> /\ Top(t).at \in {"cb", "change"}
      BY <2>3
    <2> QED BY <2>1, <2>4, <2>6, <2>7, <2>8, <2>9, TellKnown
  <1>13. ASSUME NEW t \in Actor, Tell(t) PROVE OwnersKnown'
    <2>1. PICK o : o = Top(t).call.node
      OBVIOUS
    <2>2. PICK l : l = "cbend"
      OBVIOUS
    <2>3. stk[t] # <<>> /\ Top(t).at \in {"cb", "change"} /\ UNCHANGED <<claims, setup>> /\ l # "settle"
      BY <1>13, <2>2 DEF Tell, At
    <2>4. PICK r : stk' = [stk EXCEPT ![t] = r] /\ Goes(r, stk[t], l)
      <3>1. CASE At(t, "cb") /\ Nests(t) /\ Top(t).seen.changed
        <4>1. stk' = Under(t, l) /\ setup.body # <<>>
          BY <1>13, <2>2, <3>1 DEF Tell, Nests
        <4> QED BY <1>s, <2>3, <4>1, UnderGoes
      <3>2. CASE ~(At(t, "cb") /\ Nests(t) /\ Top(t).seen.changed)
        <4>1. stk' = Goto(t, l)
          BY <1>13, <2>2, <3>2 DEF Tell
        <4> QED BY <1>s, <2>3, <4>1, GotoGoes
      <3> QED BY <3>1, <3>2
    <2>5. PICK x : x = IF Top(t).seen.changed THEN Seen(own[o], Top(t).seen) ELSE own[o].told
      OBVIOUS
    <2>6. PICK w : w = [own[o] EXCEPT !.told = x]
      OBVIOUS
    <2>7. own' = [own EXCEPT ![o] = w]
      BY <1>13, <2>1, <2>5, <2>6 DEF Tell
    <2> QED BY <2>1, <2>2, <2>3, <2>4, <2>5, <2>6, <2>7, TellKnown
  <1>14. ASSUME NEW t \in Actor, ObserveEnd(t) PROVE OwnersKnown'
    <2>1. PICK o : o = Top(t).call.node
      OBVIOUS
    <2>2. PICK k : k = <<t, Len(stk[t])>>
      OBVIOUS
    <2>3. PICK n : n = own[o].out \ {k}
      OBVIOUS
    <2>4. PICK w : w = [own[o] EXCEPT !.out = n]
      OBVIOUS
    <2>5. PICK l : l = "done"
      OBVIOUS
    <2>6. /\ own' = [own EXCEPT ![o] = w] /\ stk' = Goto(t, l) /\ UNCHANGED <<claims, setup>>
          /\ stk[t] # <<>> /\ ~Owes(Top(t)) /\ l \notin {"cb", "change", "cbend"}
      BY <1>14, <2>1, <2>2, <2>3, <2>4, <2>5 DEF ObserveEnd, At, Owes
    <2>7. o \in Owner => /\ Kept(w, claims[o]) /\ (Promised(own[o]) => Promised(w))
                         /\ w.life = own[o].life /\ w.forced = own[o].forced /\ w.out = n
      BY <1>k, <2>4, OutKept
    <2>8. o \in Owner => (Steady(setup) => Spares(w, own[o], k))
      BY <2>3, <2>7 DEF Spares, OwnersKnown, FramesOK
    <2> QED BY <2>2, <2>6, <2>7, <2>8, GotoKnown
  <1>15. ASSUME NEW t \in Actor, OnChange(t) PROVE OwnersKnown'
    <2>1. PICK x : x = Top(t).call.node
      OBVIOUS
    <2>2. stk' = Pop(t) /\ UNCHANGED <<claims, setup>> /\ stk[t] # <<>> /\ ~Owes(Top(t))
      BY <1>8, <1>15 DEF OnChange
    <2>3. CASE x \in Owner
      <3>1. PICK w : w = Registered(own[x])
        OBVIOUS
      <3>2. own' = [own EXCEPT ![x] = w]
        BY <1>15, <2>1, <2>3, <3>1 DEF OnChange
      <3>3. /\ Kept(w, claims[x]) /\ Promised(w)
            /\ w.life = own[x].life /\ w.out = own[x].out /\ w.forced = own[x].forced
        BY <1>k, <2>3, <3>1, RegisteredKept
      <3>4. Steady(setup) => Spares(w, own[x], <<t, Len(stk[t])>>)
        BY <2>3, <3>3, SameSpares
      <3> QED BY <2>2, <3>2, <3>3, <3>4, PopKnown
    <2>4. CASE x \notin Owner
      <3>1. UNCHANGED own
        BY <1>15, <2>1, <2>4 DEF OnChange
      <3> QED BY <2>2, <3>1, PopOnly
    <2> QED BY <2>3, <2>4
  <1>16. ASSUME NEW t \in Actor, Park(t) PROVE OwnersKnown'
    <2>1. PICK o : o = Top(t).call.node
      OBVIOUS
    <2>2. PICK w : w = [own[o] EXCEPT !.life = "parked"]
      OBVIOUS
    <2>3. PICK l : l = "settle"
      OBVIOUS
    <2>4. /\ own' = [own EXCEPT ![o] = w] /\ stk' = Goto(t, l) /\ Live(o) /\ own[o].out = {}
          /\ UNCHANGED <<claims, setup>> /\ l \notin {"cb", "change", "cbend"}
      BY <1>16, <2>1, <2>2, <2>3 DEF Park
    <2>5. stk[t] # <<>> /\ ~Owes(Top(t))
      BY <1>8, <1>16 DEF Park
    <2>6. o \in Owner => Kept(w, claims[o]) /\ (Promised(own[o]) => Promised(w)) /\ w.life = "parked"
      BY <1>k, <2>2, <2>4, ParkedKept DEF Live
    <2>7. o \in Owner => Spares(w, own[o], <<t, Len(stk[t])>>)
      BY <2>4, <2>6 DEF Spares
    <2> QED BY <2>4, <2>5, <2>6, <2>7, GotoKnown
  <1>17. ASSUME NEW t \in Actor, Retire(t) PROVE OwnersKnown'
    <2>1. PICK o : o = Top(t).call.node
      OBVIOUS
    <2>2. own' = [own EXCEPT ![o] = NoOwner] /\ stk' = Pop(t) /\ own[o].out = {} /\ UNCHANGED <<claims, setup>>
      BY <1>17, <2>1 DEF Retire
    <2>3. stk[t] # <<>> /\ ~Owes(Top(t))
      BY <1>8, <1>17 DEF Retire
    <2>4. \A c : Kept(NoOwner, c) /\ Promised(NoOwner) /\ NoOwner.out = {}
      BY NoOwnerKept
    <2>5. Spares(NoOwner, own[o], <<t, Len(stk[t])>>)
      BY <2>2, <2>4 DEF Spares
    <2> QED BY <2>2, <2>3, <2>4, <2>5, PopKnown
  <1>18. ASSUME NEW t \in Actor, Define(t) PROVE OwnersKnown'
    <2>1. PICK o : o = Top(t).call.node
      OBVIOUS
    <2>2. PICK w : w = [NoOwner EXCEPT !.life = "open", !.seq = Seeded(o), !.watch = setup.watch]
      OBVIOUS
    <2>o. Opened(w, Seeded(o), setup.watch)
      BY <2>2 DEF Opened
    <2>3. PICK l : l = "settle"
      OBVIOUS
    <2>4. /\ own' = [own EXCEPT ![o] = w] /\ stk' = Goto(t, l) /\ own[o].life = "none"
          /\ UNCHANGED <<claims, setup>> /\ l \notin {"cb", "change", "cbend"}
      BY <1>18, <2>1, <2>2, <2>3 DEF Define
    <2>5. stk[t] # <<>> /\ ~Owes(Top(t))
      BY <1>8, <1>18 DEF Define
    <2>6. Kept(w, claims[o]) /\ Promised(w) /\ w.out = {} /\ w.life = "open"
      <3>1. PICK s : s = Seeded(o)
        OBVIOUS
      <3>2. PICK b : b = setup.watch
        OBVIOUS
      <3>3. Opened(w, s, b)
        BY <2>o, <3>1, <3>2
      <3> QED BY <3>3, OpenKept
    <2>7. o \in Owner => (Steady(setup) => Spares(w, own[o], <<t, Len(stk[t])>>))
      BY <2>4, <2>6 DEF Spares, OwnersKnown, FramesOK
    <2> QED BY <2>4, <2>5, <2>6, <2>7, GotoKnown
  <1>19. ASSUME NEW t \in Actor, Enlist(t) PROVE OwnersKnown'
    <2>1. PICK o : o = Top(t).call.node
      OBVIOUS
    <2>2. PICK u : u = [own[o] EXCEPT !.life = "live", !.dup = claims[o]]
      OBVIOUS
    <2>3. PICK w : w = Shown(u)
      OBVIOUS
    <2>4. own' = [own EXCEPT ![o] = w] /\ stk' = Pop(t) /\ UNCHANGED <<claims, setup>>
      BY <1>19, <2>1, <2>2, <2>3 DEF Enlist, Swept
    <2>5. stk[t] # <<>> /\ ~Owes(Top(t))
      BY <1>8, <1>19 DEF Enlist
    <2>6. o \in Owner => /\ Kept(w, claims[o]) /\ (Promised(own[o]) => Promised(w))
                         /\ w.life = "live" /\ w.out = own[o].out /\ w.forced = own[o].forced
      <3>1. PICK v : v = own[o]
        OBVIOUS
      <3>2. PICK c : c = claims[o]
        OBVIOUS
      <3>3. Enlisted(u, v, c) /\ (o \in Owner => Kept(v, c))
        BY <1>k, <2>2, <3>1, <3>2 DEF Enlisted
      <3>4. ASSUME o \in Owner
            PROVE  /\ Kept(w, c) /\ (Promised(v) => Promised(w))
                   /\ w.life = "live" /\ w.out = v.out /\ w.forced = v.forced
        <4>1. Kept(v, c) /\ Enlisted(u, v, c) /\ w = Shown(u)
          BY <2>3, <3>3, <3>4
        <4> QED BY <4>1, EnlistedKept
      <3> QED BY <3>1, <3>2, <3>4
    <2>7. o \in Owner => (Steady(setup) => Spares(w, own[o], <<t, Len(stk[t])>>))
      BY <2>6, SameSpares
    <2> QED BY <2>4, <2>5, <2>6, <2>7, PopKnown
  <1>20. ASSUME NEW t \in Actor, Enter(t) \/ AfterWrite(t) \/ SendSet(t) \/ Route(t) \/ Drain(t) PROVE OwnersKnown'
    <2>1. UNCHANGED <<own, claims, setup>> /\ stk[t] # <<>> /\ ~Owes(Top(t))
      BY <1>20 DEF Enter, AfterWrite, SendSet, Route, Drain, In, At, Owes
    <2>2. stk' = Pop(t) \/ stk' = Goto(t, "settle") \/ stk' = Goto(t, "publish")
      BY <1>20 DEF Enter, AfterWrite, SendSet, Route, Drain
    <2>3. CASE stk' = Pop(t)
      BY <2>1, <2>3, PopOnly
    <2>4. CASE stk' = Goto(t, "settle")
      BY <2>1, <2>4, GotoOnly
    <2>5. CASE stk' = Goto(t, "publish")
      BY <2>1, <2>5, GotoOnly
    <2> QED BY <2>2, <2>3, <2>4, <2>5
  <1>21. ASSUME Dispatch PROVE OwnersKnown'
    <2>1. CASE \E o \in Owner : own[o].parked # <<>> /\ own' = [own EXCEPT ![o] = Dispatched(@)] /\ UNCHANGED acc
      <3>1. PICK o \in Owner : own[o].parked # <<>> /\ own' = [own EXCEPT ![o] = Dispatched(@)]
        BY <2>1
      <3>2. PICK w : w = Dispatched(own[o])
        OBVIOUS
      <3>3. own' = [own EXCEPT ![o] = w] /\ UNCHANGED <<claims, setup, stk>>
        BY <1>21, <2>1, <3>1, <3>2 DEF Dispatch
      <3>4. /\ Kept(w, claims[o]) /\ (Promised(own[o]) => Promised(w))
            /\ w.life = own[o].life /\ w.out = own[o].out /\ w.forced = own[o].forced
        BY <1>k, <3>1, <3>2, OwnerDispatched
      <3> QED BY <3>3, <3>4, OwnStill
    <2>2. CASE UNCHANGED own
      BY <1>21, <2>2, OwnSame DEF Dispatch
    <2> QED BY <1>21, <2>1, <2>2 DEF Dispatch
  <1> QED
    BY <1>1, <1>2, <1>3, <1>4, <1>5, <1>6, <1>7, <1>9, <1>10, <1>11, <1>12, <1>13, <1>14, <1>15, <1>16,
       <1>17, <1>18, <1>19, <1>20, <1>21 DEF Next, Done

\* What observers know of the state, with no write of it waiting in their queue and none of
\* their calls to come, is the state; what a live definition shows is what it is.
LEMMA KnownImplies == KnownInv => StatusTrue /\ (Steady(setup) => KnownTrue)
  <1> SUFFICES ASSUME KnownInv PROVE StatusTrue /\ (Steady(setup) => KnownTrue)
    OBVIOUS
  <1>1. StatusTrue
    <2> SUFFICES ASSUME NEW o \in Owner, Live(o)
                 PROVE  own[o].status.rivals = claims[o] /\ own[o].status.forced = own[o].forced
      BY DEF StatusTrue
    <2>1. Kept(own[o], claims[o]) /\ Listed(own[o])
      BY DEF KnownInv, OwnersKnown, Live, Listed
    <2> QED BY <2>1 DEF Kept, Showing
  <1>2. ASSUME NEW v, Promised(v), v.watch, v.has, v.parked = <<>> PROVE v.told = State(v)
    <2>1. ~EndsAt(v.parked, State(v))
      <3>1. 1 .. Len(v.parked) = {}
        BY <1>2
      <3> QED BY <3>1 DEF EndsAt
    <2> QED BY <1>2, <2>1 DEF Promised
  <1>3. ASSUME Steady(setup) PROVE ToldIsCurrent
    <2>1. \A o \in Owner : Pending(o) \/ Promised(own[o])
      BY <1>3 DEF KnownInv, OwnersKnown, Owed
    <2>2. \A a \in Accessor : Promised(acc[a])
      BY DEF KnownInv, CachesKnown, Telling
    <2> QED BY <1>2, <2>1, <2>2 DEF ToldIsCurrent
  <1> QED BY <1>1, <1>3 DEF KnownTrue

\* What the application is shown is true: a live definition shows exactly the rivals its
\* node has heard of and whether a force is on. If the values of the variable have one
\* length and its observers neither force nor unforce, an observer also knows the state
\* there is once none of its calls is still to come: local setters do not wait for
\* observers, so their calls come in any order, but each of them is a view of the store
\* (i_rant_pat_problems, i_rant_var_notify, rant_variable_on_change, i_rant_var_dispatch).
THEOREM ToldTheTruth == Spec => [](StatusTrue /\ (Steady(setup) => KnownTrue))
  <1>1. KnownInv /\ [Next]_vars => KnownInv'
    BY NextOwners, NextCaches DEF KnownInv
  <1>2. Spec => []KnownInv
    BY InitKnown, <1>1, PTL DEF Spec
  <1> QED BY <1>2, KnownImplies, PTL
-----------------------------------------------------------------------------
(* The shadow of a force.                                                  *)

\* A write of o that has looked and still waits for observers.
Waits(t, op, o) == In(t, op, "settle") /\ Top(t).call.node = o

\* What the shadow asks of the application: it retires a definition after its last
\* unforce, and of two unforces of one variable one has written before the other looks
\* (owner_unforce tests the flag, settles, and does not test it again).
WritesInTurn ==
    \A o \in Owner, t \in Actor : Waits(t, "unforce", o) =>
        /\ own[o].life # "none"
        /\ \A u \in Actor : Waits(u, "unforce", o) => t = u

\* An unforce that waits has a force to end; whatever was written last is kept.
ShadowInv ==
    /\ StacksOK
    /\ own = [o \in Owner |-> own[o]]
    /\ last = [o \in Owner |-> last[o]]
    /\ \A o \in Owner :
          /\ IsOwner(own[o])
          /\ own[o].life = "none" => last[o] = None
          /\ last[o] # None => (IF own[o].forced THEN own[o].shadow ELSE own[o].store) = last[o]
          /\ \A t \in Actor : Waits(t, "unforce", o) => own[o].forced

\* No call starts to wait.
NoneWaits == \A t \in Actor, o \in Owner : Waits(t, "unforce", o)' => Waits(t, "unforce", o)

\* One actor's calls change, and none of them waits.
LEMMA Moved ==
    ASSUME StacksOK, NEW t \in Actor, NEW r, stk' = [stk EXCEPT ![t] = r], IsStack(r),
           r # <<>> => r[Len(r)].at # "settle"
    PROVE  StacksOK' /\ NoneWaits
  <1>1. stk' = [u \in Actor |-> stk'[u]] /\ stk'[t] = r /\ \A u \in Actor \ {t} : stk'[u] = stk[u]
    BY DEF StacksOK
  <1>2. StacksOK'
    BY <1>1 DEF StacksOK
  <1>3. ASSUME NEW u \in Actor, NEW o \in Owner, Waits(u, "unforce", o)' PROVE Waits(u, "unforce", o)
    <2>1. stk'[u] # <<>> /\ stk'[u][Len(stk'[u])].at = "settle" /\ stk'[u][Len(stk'[u])].call.op = "unforce"
          /\ stk'[u][Len(stk'[u])].call.node = o
      BY <1>3 DEF Waits, In, At, Top
    <2>2. u # t
      BY <1>1, <2>1
    <2>3. stk'[u] = stk[u]
      BY <1>1, <2>2
    <2> QED BY <2>1, <2>3 DEF Waits, In, At, Top
  <1> QED BY <1>2, <1>3 DEF NoneWaits

\* Nobody's calls change.
LEMMA Unmoved ==
    ASSUME StacksOK, UNCHANGED stk
    PROVE  StacksOK' /\ NoneWaits
  BY DEF StacksOK, NoneWaits, Waits, In, At, Top

LEMMA PopMoves ==
    ASSUME StacksOK, NEW t \in Actor, stk[t] # <<>>, stk' = Pop(t)
    PROVE  StacksOK' /\ NoneWaits
  <1>1. PICK r : r = Front(stk[t])
    OBVIOUS
  <1>2. stk' = [stk EXCEPT ![t] = r] /\ IsStack(stk[t])
    BY <1>1 DEF Pop, StacksOK
  <1>3. IsStack(r) /\ (r # <<>> => r[Len(r)].at # "settle")
    BY <1>1, <1>2, StackPop
  <1> QED BY <1>2, <1>3, Moved

LEMMA GotoMoves ==
    ASSUME StacksOK, NEW t \in Actor, stk[t] # <<>>, NEW l, l # "settle", stk' = Goto(t, l)
    PROVE  StacksOK' /\ NoneWaits
  <1>1. PICK r : Goto(t, l) = [stk EXCEPT ![t] = r] /\ Stays(r, stk[t], l)
    BY GotoTop
  <1>2. IsStack(r) /\ r # <<>> /\ r[Len(r)].at # "settle"
    BY <1>1 DEF Stays
  <1> QED BY <1>1, <1>2, Moved

\* One goes on and its observer may make a call.
LEMMA GoesMoves ==
    ASSUME StacksOK, NEW t \in Actor, NEW r, stk' = [stk EXCEPT ![t] = r], NEW l, l # "settle", Goes(r, stk[t], l)
    PROVE  StacksOK' /\ NoneWaits
  <1>1. IsStack(r) /\ r # <<>> /\ r[Len(r)].at # "settle"
    BY DEF Goes
  <1> QED BY <1>1, Moved

\* A call that starts to wait is the one that moved.
LEMMA GotoWaits ==
    ASSUME StacksOK, NEW t \in Actor, stk[t] # <<>>, stk' = Goto(t, "settle")
    PROVE  /\ StacksOK'
           /\ \A u \in Actor, o \in Owner : Waits(u, "unforce", o)' =>
                 Waits(u, "unforce", o) \/ (u = t /\ Top(t).call.op = "unforce" /\ Top(t).call.node = o)
  <1>g. PICK r : stk' = [stk EXCEPT ![t] = r] /\ Stays(r, stk[t], "settle")
    BY GotoTop
  <1>1. stk' = [stk EXCEPT ![t] = r] /\ IsStack(r) /\ r # <<>> /\ r[Len(r)].call = Top(t).call
    BY <1>g DEF Stays, Top
  <1>2. stk' = [u \in Actor |-> stk'[u]] /\ stk'[t] = r /\ \A u \in Actor \ {t} : stk'[u] = stk[u]
    BY <1>1 DEF StacksOK
  <1>3. StacksOK'
    BY <1>1, <1>2 DEF StacksOK
  <1>4. ASSUME NEW u \in Actor, NEW o \in Owner, Waits(u, "unforce", o)'
        PROVE  Waits(u, "unforce", o) \/ (u = t /\ Top(t).call.op = "unforce" /\ Top(t).call.node = o)
    <2>1. stk'[u] # <<>> /\ stk'[u][Len(stk'[u])].at = "settle" /\ stk'[u][Len(stk'[u])].call.op = "unforce"
          /\ stk'[u][Len(stk'[u])].call.node = o
      BY <1>4 DEF Waits, In, At, Top
    <2>2. CASE u = t
      BY <1>1, <1>2, <2>1, <2>2
    <2>3. CASE u # t
      <3>1. stk'[u] = stk[u]
        BY <1>2, <2>3
      <3> QED BY <2>1, <3>1 DEF Waits, In, At, Top
    <2> QED BY <2>2, <2>3
  <1> QED BY <1>3, <1>4

\* A write has told its observers, or has them out.
LEMMA NotifyMoves ==
    ASSUME StacksOK, NEW t \in Actor, stk[t] # <<>>, NEW v, NEW c, NEW m, Notify(t, v, c, m)
    PROVE  StacksOK' /\ NoneWaits /\ \A o \in Owner : ~Waits(t, "unforce", o)'
  <1>1. PICK r : /\ stk' = [stk EXCEPT ![t] = r]
                 /\ IsStack(r) /\ r # <<>> /\ Len(r) = Len(stk[t]) /\ Below(r, stk[t], Len(stk[t]) - 1)
                 /\ r[Len(r)].at = (IF Observed(v) THEN "cb" ELSE "done") /\ r[Len(r)].call = Top(t).call
                 /\ r[Len(r)].seen = [forced |-> v.forced, seq |-> v.seq, changed |-> c]
    BY NotifyTop
  <1>2. r[Len(r)].at # "settle"
    BY <1>1
  <1>3. stk'[t] = r
    BY <1>1 DEF StacksOK
  <1>4. \A o \in Owner : ~Waits(t, "unforce", o)'
    BY <1>2, <1>3 DEF Waits, In, At, Top
  <1> QED BY <1>1, <1>2, <1>4, Moved

\* The step leaves w at o with x as its last write, which it holds.
Leaves(w, x, o) ==
    /\ IsOwner(w) /\ (w.life = "none" => x = None)
    /\ x # None => (IF w.forced THEN w.shadow ELSE w.store) = x
    /\ \A t \in Actor : Waits(t, "unforce", o)' => w.forced

\* One definition and its last write change, or neither, and no call starts to wait
\* that could mind: the force it ends is still on.
LEMMA OwnShadow ==
    ASSUME ShadowInv, StacksOK', NEW o, NEW w, NEW x,
           own' = [own EXCEPT ![o] = w], last' = [last EXCEPT ![o] = x],
           o \in Owner => Leaves(w, x, o),
           \A p \in Owner \ {o}, t \in Actor : Waits(t, "unforce", p)' => own[p].forced
    PROVE  ShadowInv'
  <1>1. /\ own' = [p \in Owner |-> own'[p]] /\ \A p \in Owner : own'[p] = IF p = o THEN w ELSE own[p]
        /\ last' = [p \in Owner |-> last'[p]] /\ \A p \in Owner : last'[p] = IF p = o THEN x ELSE last[p]
    BY DEF ShadowInv
  <1>2. ASSUME NEW p \in Owner
        PROVE  /\ IsOwner(own'[p])
               /\ own'[p].life = "none" => last'[p] = None
               /\ last'[p] # None => (IF own'[p].forced THEN own'[p].shadow ELSE own'[p].store) = last'[p]
               /\ \A t \in Actor : Waits(t, "unforce", p)' => own'[p].forced
    <2>1. CASE p = o
      BY <1>1, <2>1 DEF Leaves
    <2>2. CASE p # o
      <3>1. own'[p] = own[p] /\ last'[p] = last[p]
        BY <1>1, <2>2
      <3>2. \A t \in Actor : Waits(t, "unforce", p)' => own[p].forced
        BY <2>2
      <3> QED BY <3>1, <3>2 DEF ShadowInv
    <2> QED BY <2>1, <2>2
  <1> QED BY <1>1, <1>2 DEF ShadowInv

\* w has what a force and its shadow are made of as v has it.
Alike(w, v) ==
    /\ IsOwner(w) /\ (w.life = "none" => v.life = "none")
    /\ w.forced = v.forced /\ w.store = v.store /\ w.shadow = v.shadow

\* The same when no call starts to wait, nothing is written and no force begins or ends.
LEMMA QuietShadow ==
    ASSUME ShadowInv, StacksOK', NoneWaits, NEW o, NEW w,
           own' = [own EXCEPT ![o] = w], UNCHANGED last,
           o \in Owner => Alike(w, own[o])
    PROVE  ShadowInv'
  <1>1. last' = [last EXCEPT ![o] = last[o]]
    BY DEF ShadowInv
  <1>2. \A p \in Owner, t \in Actor : Waits(t, "unforce", p)' => own[p].forced
    BY DEF NoneWaits, ShadowInv
  <1>3. o \in Owner => Leaves(w, last[o], o)
    BY <1>2 DEF ShadowInv, Alike, Leaves
  <1> QED BY <1>1, <1>2, <1>3, OwnShadow

\* A step that leaves definitions and writes alone.
LEMMA SameShadow ==
    ASSUME ShadowInv, StacksOK', NoneWaits, UNCHANGED <<own, last>>
    PROVE  ShadowInv'
  BY DEF ShadowInv, NoneWaits

LEMMA ToldAlike ==
    ASSUME NEW v, IsOwner(v), NEW c
    PROVE  Alike(Told(v, c), v)
  <1>1. ASSUME NEW p, NEW w, w = [v EXCEPT !.parked = p] PROVE Alike(w, v)
    BY <1>1 DEF Alike, IsOwner
  <1>2. ASSUME NEW p, NEW w, w = [v EXCEPT !.told = p] PROVE Alike(w, v)
    BY <1>2 DEF Alike, IsOwner
  <1>3. Alike(v, v)
    BY DEF Alike
  <1>4. CASE ~v.watch
    BY <1>3, <1>4 DEF Told
  <1>5. CASE v.watch /\ setup.queued
    <2>1. Told(v, c) = [v EXCEPT !.parked = Append(v.parked, [state |-> State(v), changed |-> c])]
      BY <1>5 DEF Told
    <2> QED BY <2>1, <1>1
  <1>6. CASE v.watch /\ ~setup.queued
    <2>1. Told(v, c) = [v EXCEPT !.told = IF c THEN State(v) ELSE v.told]
      BY <1>6 DEF Told
    <2> QED BY <2>1, <1>2
  <1> QED BY <1>4, <1>5, <1>6

LEMMA OutAlike ==
    ASSUME NEW v, IsOwner(v), NEW n, NEW w, w = [v EXCEPT !.out = n]
    PROVE  Alike(w, v)
  BY DEF Alike, IsOwner

LEMMA TellAlike ==
    ASSUME NEW v, IsOwner(v), NEW x, NEW w, w = [v EXCEPT !.told = x]
    PROVE  Alike(w, v)
  BY DEF Alike, IsOwner

LEMMA AlikeTransitive ==
    ASSUME NEW u, NEW v, NEW w, Alike(w, v), Alike(v, u)
    PROVE  Alike(w, u)
  BY DEF Alike

LEMMA ShownAlike ==
    ASSUME NEW v, IsOwner(v), NEW d, NEW u, u = [v EXCEPT !.dup = d]
    PROVE  Alike(u, v) /\ Alike(Shown(u), v) /\ Alike(Shown(v), v)
  <1>1. IsOwner(u) /\ u.life = v.life /\ u.forced = v.forced /\ u.store = v.store /\ u.shadow = v.shadow
    BY DEF IsOwner
  <1>2. ASSUME NEW r, IsOwner(r), NEW z, NEW w, w = [r EXCEPT !.status = z] PROVE Alike(w, r)
    BY <1>2 DEF Alike, IsOwner
  <1>3. ASSUME NEW r, IsOwner(r) PROVE Alike(Shown(r), r)
    BY <1>2, <1>3 DEF Shown
  <1>4. Alike(u, v)
    BY <1>1 DEF Alike
  <1> QED BY <1>1, <1>3, <1>4, AlikeTransitive

\* What a write leaves in the store or in the shadow.
LEMMA WrittenIs ==
    ASSUME NEW v, IsOwner(v), NEW x, NEW w, w = Written(v, x)
    PROVE  IsOwner(w) /\ w.store = x /\ w.forced = v.forced /\ w.life = v.life
  <1> DEFINE y == TRUE
             n == NextSeq(v.seq)
  <1>1. w = [v EXCEPT !.store = x, !.has = y, !.seq = n]
    BY DEF Written
  <1> HIDE DEF y, n
  <1> QED BY <1>1 DEF IsOwner

LEMMA ShadowIs ==
    ASSUME NEW v, IsOwner(v), NEW x, NEW w, w = [v EXCEPT !.shadow = x]
    PROVE  IsOwner(w) /\ w.shadow = x /\ w.forced = v.forced /\ w.life = v.life
  BY DEF IsOwner

\* A stage of its life is no matter of the value, as long as there is a definition.
LEMMA LifeAlike ==
    ASSUME NEW v, IsOwner(v), NEW l, l # "none", NEW w, w = [v EXCEPT !.life = l]
    PROVE  IsOwner(w) /\ Alike(w, v)
  BY DEF IsOwner, Alike

LEMMA DispatchedAlike ==
    ASSUME NEW v, IsOwner(v)
    PROVE  Alike(Dispatched(v), v)
  <1>1. PICK q : q = Tail(v.parked)
    OBVIOUS
  <1>2. PICK z : z = IF Head(v.parked).changed THEN Head(v.parked).state ELSE v.told
    OBVIOUS
  <1>3. PICK w : w = [v EXCEPT !.parked = q, !.told = z]
    OBVIOUS
  <1>4. Alike(w, v)
    BY <1>3 DEF Alike, IsOwner
  <1>5. Dispatched(v) = w
    BY <1>1, <1>2, <1>3 DEF Dispatched
  <1> QED BY <1>4, <1>5

\* A write and the telling of it: the definition is as the write left it.
LEMMA NotifyShadow ==
    ASSUME ShadowInv, NEW t \in Actor, stk[t] # <<>>, NEW v, NEW c, NEW m, Notify(t, v, c, m),
           NEW o, o = Top(t).call.node, NEW x, last' = [last EXCEPT ![o] = x],
           o \in Owner => Leaves(v, x, o)
    PROVE  ShadowInv'
  <1>1. StacksOK' /\ NoneWaits
    BY NotifyMoves DEF ShadowInv
  <1>2. PICK n : n = v.out \cup {<<t, Len(stk[t])>>}
    OBVIOUS
  <1>3. PICK w : w = [v EXCEPT !.out = n]
    OBVIOUS
  <1>4. PICK u : u = IF Observed(v) THEN w ELSE Told(v, c)
    OBVIOUS
  <1>5. own' = [own EXCEPT ![o] = u]
    BY <1>2, <1>3, <1>4 DEF Notify
  <1>6. o \in Owner => Alike(u, v)
    <2> SUFFICES ASSUME o \in Owner PROVE Alike(u, v)
      OBVIOUS
    <2>1. IsOwner(v)
      BY DEF Leaves
    <2>2. Alike(w, v) /\ Alike(Told(v, c), v)
      BY <2>1, <1>3, OutAlike, ToldAlike
    <2> QED BY <1>4, <2>2
  <1>7. \A p \in Owner, a \in Actor : Waits(a, "unforce", p)' => own[p].forced
    BY <1>1 DEF NoneWaits, ShadowInv
  <1>8. o \in Owner => Leaves(u, x, o)
    BY <1>6 DEF Alike, Leaves
  <1> QED BY <1>1, <1>5, <1>7, <1>8, OwnShadow

LEMMA InitShadow == Init => ShadowInv
  <1> SUFFICES ASSUME Init PROVE ShadowInv
    OBVIOUS
  <1>1. StacksOK
    <2>1. IsStack(<<>>)
      BY HeldNone DEF IsStack
    <2> QED BY <2>1 DEF StacksOK, Init
  <1>2. \A t \in Actor : stk[t] = <<>>
    BY DEF Init
  <1>3. \A o \in Owner : IsOwner(own[o]) /\ last[o] = None
    BY InitKnown DEF Init, KnownInv, OwnersKnown, Kept
  <1>4. \A o \in Owner, t \in Actor : ~Waits(t, "unforce", o)
    BY <1>2 DEF Waits, In, At
  <1> QED BY <1>1, <1>3, <1>4 DEF ShadowInv, Init

LEMMA NextShadow == ShadowInv /\ WritesInTurn /\ WritesInTurn' /\ [Next]_vars => ShadowInv'
  <1> SUFFICES ASSUME ShadowInv, WritesInTurn, WritesInTurn', [Next]_vars PROVE ShadowInv'
    OBVIOUS
  <1>o. ASSUME NEW o, o \in Owner PROVE IsOwner(own[o])
    BY <1>o DEF ShadowInv
  <1>s. StacksOK
    BY DEF ShadowInv
  <1>1. CASE UNCHANGED vars
    BY <1>1, <1>s, Unmoved, SameShadow DEF vars
  <1>2. ASSUME NEW o \in Owner, NEW a \in Accessor, Deliver(o, a) \/ LoseInFlight(o, a) \/ AccessorInterest(o, a) \/ Cut(o, a)
        PROVE  ShadowInv'
    <2>1. UNCHANGED <<own, last, stk>>
      BY <1>2 DEF Deliver, LoseInFlight, AccessorInterest, Cut
    <2> QED BY <2>1, <1>s, Unmoved, SameShadow
  <1>3. ASSUME NEW o \in Owner, NEW a \in Accessor, OnSet(o, a) PROVE ShadowInv'
    <2>1. PICK c : stk' = [stk EXCEPT ![o] = <<Frame(c)>>]
      BY <1>3 DEF OnSet
    <2>2. stk[o] = <<>> /\ o \in Actor /\ UNCHANGED <<own, last>>
      BY <1>3 DEF OnSet, Actor
    <2>3. PICK r : r = <<Frame(c)>>
      OBVIOUS
    <2>4. IsStack(r) /\ r # <<>> /\ r[Len(r)].at = "start"
      BY <2>3, StackFirst
    <2>5. stk' = [stk EXCEPT ![o] = r]
      BY <2>1, <2>3
    <2>6. StacksOK' /\ NoneWaits
      BY <1>s, <2>2, <2>4, <2>5, Moved
    <2> QED BY <2>2, <2>6, SameShadow
  <1>4. ASSUME NEW o \in Owner, FreshEnds(o) PROVE ShadowInv'
    BY <1>4, <1>s, Unmoved, SameShadow DEF FreshEnds
  <1>5. ASSUME NEW o \in Owner, NEW d, UNCHANGED <<stk, last>>,
               own' = [own EXCEPT ![o] = IF Listed(@) THEN Shown([@ EXCEPT !.dup = d]) ELSE @]
        PROVE  ShadowInv'
    <2>1. PICK v : v = own[o]
      OBVIOUS
    <2>2. PICK u : u = [v EXCEPT !.dup = d]
      OBVIOUS
    <2>3. PICK w : w = IF Listed(v) THEN Shown(u) ELSE v
      OBVIOUS
    <2>4. own' = [own EXCEPT ![o] = w]
      BY <1>5, <2>1, <2>2, <2>3
    <2>5. Alike(Shown(u), v) /\ Alike(v, v)
      BY <1>o, <2>1, <2>2, ShownAlike DEF Alike
    <2>6. Alike(w, own[o])
      BY <2>1, <2>3, <2>5
    <2>7. StacksOK' /\ NoneWaits
      BY <1>s, <1>5, Unmoved
    <2> QED BY <1>5, <2>4, <2>6, <2>7, QuietShadow
  <1>6. ASSUME NEW p \in Owner, NEW o \in Owner, OwnerInterest(p, o) PROVE ShadowInv'
    <2>1. PICK d : d = IF Live(p) THEN own[o].dup \cup {p} ELSE own[o].dup \ {p}
      OBVIOUS
    <2>2. DupChecked(own[o], p, Live(p)) = Shown([own[o] EXCEPT !.dup = d])
      BY <2>1 DEF DupChecked
    <2>3. own' = [own EXCEPT ![o] = IF Listed(@) THEN Shown([@ EXCEPT !.dup = d]) ELSE @] /\ UNCHANGED <<stk, last>>
      BY <1>6, <2>2 DEF OwnerInterest
    <2> QED BY <2>3, <1>5
  <1>7. ASSUME NEW p \in Owner, NEW o \in Owner, CutOwners(p, o) PROVE ShadowInv'
    <2>1. PICK d : d = own[o].dup \ {p}
      OBVIOUS
    <2>2. DupChecked(own[o], p, FALSE) = Shown([own[o] EXCEPT !.dup = d])
      BY <2>1 DEF DupChecked
    <2>3. own' = [own EXCEPT ![o] = IF Listed(@) THEN Shown([@ EXCEPT !.dup = d]) ELSE @] /\ UNCHANGED <<stk, last>>
      BY <1>7, <2>2 DEF CutOwners
    <2> QED BY <2>3, <1>5
  <1>8. ASSUME NEW t \in Actor, Call(t) PROVE ShadowInv'
    <2>1. PICK c : c = Head(todo[t])
      OBVIOUS
    <2>2. stk[t] = <<>> /\ UNCHANGED <<own, last>>
      BY <1>8 DEF Call
    <2>3. PICK r : r = <<Frame(c)>>
      OBVIOUS
    <2>4. IsStack(r) /\ r # <<>> /\ r[Len(r)].at = "start"
      BY <2>3, StackFirst
    <2>5. stk' = [stk EXCEPT ![t] = r]
      BY <1>8, <2>1, <2>3 DEF Call
    <2>6. StacksOK' /\ NoneWaits
      BY <1>s, <2>2, <2>4, <2>5, Moved
    <2> QED BY <2>2, <2>6, SameShadow
  <1>9. ASSUME NEW t \in Actor, NEW o, o = Top(t).call.node, NEW x, own[o].forced, own[o].life # "none",
               own' = [own EXCEPT ![o].shadow = x], last' = [last EXCEPT ![o] = x], stk[t] # <<>>, stk' = Pop(t)
        PROVE  ShadowInv'
    <2>1. StacksOK' /\ NoneWaits
      BY <1>9, <1>s, PopMoves
    <2>2. PICK v : v = own[o]
      OBVIOUS
    <2>3. PICK w : w = [v EXCEPT !.shadow = x]
      OBVIOUS
    <2>4. own' = [own EXCEPT ![o] = w]
      BY <1>9, <2>2, <2>3
    <2>5. o \in Owner => IsOwner(w) /\ w.shadow = x /\ w.forced = v.forced /\ w.life = v.life
      BY <1>o, <2>2, <2>3, ShadowIs
    <2>6. \A p \in Owner, a \in Actor : Waits(a, "unforce", p)' => own[p].forced
      BY <2>1 DEF NoneWaits, ShadowInv
    <2>7. o \in Owner => Leaves(w, x, o)
      BY <1>9, <2>2, <2>5 DEF Leaves
    <2> QED BY <1>9, <2>1, <2>4, <2>6, <2>7, OwnShadow
  <1>10. ASSUME NEW t \in Actor, stk[t] # <<>>, NEW o, o = Top(t).call.node, NEW x, NEW c, NEW m, ~own[o].forced,
                own[o].life # "none" \/ o \notin Owner,
                Notify(t, Written(own[o], x), c, m), last' = [last EXCEPT ![o] = x]
         PROVE  ShadowInv'
    <2>1. PICK v : v = own[o]
      OBVIOUS
    <2>2. PICK w : w = Written(v, x)
      OBVIOUS
    <2>3. o \in Owner => IsOwner(w) /\ w.store = x /\ w.forced = v.forced /\ w.life = v.life
      BY <1>o, <2>1, <2>2, WrittenIs
    <2>4. NoneWaits
      BY <1>s, <1>10, NotifyMoves
    <2>5. \A p \in Owner, a \in Actor : Waits(a, "unforce", p)' => own[p].forced
      BY <2>4 DEF NoneWaits, ShadowInv
    <2>6. o \in Owner => Leaves(w, x, o)
      BY <1>10, <2>1, <2>3, <2>5 DEF Leaves
    <2>7. Notify(t, w, c, m)
      BY <1>10, <2>1, <2>2
    <2> QED BY <1>10, <2>6, <2>7, NotifyShadow
  <1>11. ASSUME NEW t \in Actor, Set(t) PROVE ShadowInv'
    <2>1. PICK o : o = Top(t).call.node
      OBVIOUS
    <2>2. PICK x : x = Top(t).call.val
      OBVIOUS
    <2>3. stk[t] # <<>> /\ own[o].life # "none" /\ last' = [last EXCEPT ![o] = x]
      BY <1>11, <2>1, <2>2 DEF Set, In, At
    <2>4. CASE own[o].forced
      <3>1. own' = [own EXCEPT ![o].shadow = x] /\ stk' = Pop(t)
        BY <1>11, <2>1, <2>2, <2>4 DEF Set
      <3> QED BY <1>9, <2>1, <2>3, <2>4, <3>1
    <2>5. CASE ~own[o].forced
      <3>1. Notify(t, Written(own[o], x), WouldChange(own[o], x, FALSE), Sample(Written(own[o], x)))
        BY <1>11, <2>1, <2>2, <2>5 DEF Set
      <3> QED BY <1>10, <2>1, <2>3, <2>5, <3>1
    <2> QED BY <2>4, <2>5
  <1>12. ASSUME NEW t \in Actor, OwnerApply(t) PROVE ShadowInv'
    <2>1. PICK o : o = Top(t).call.node
      OBVIOUS
    <2>2. PICK x : x = Top(t).call.val
      OBVIOUS
    <2>3. stk[t] # <<>> /\ own[o].life # "none" /\ last' = [last EXCEPT ![o] = x]
      BY <1>12, <2>1, <2>2 DEF OwnerApply, In, At
    <2>4. CASE own[o].forced
      <3>1. own' = [own EXCEPT ![o].shadow = x] /\ stk' = Pop(t)
        BY <1>12, <2>1, <2>2, <2>4 DEF OwnerApply
      <3> QED BY <1>9, <2>1, <2>3, <2>4, <3>1
    <2>5. CASE ~own[o].forced
      <3>1. Notify(t, Written(own[o], x), WouldChange(own[o], x, FALSE), None)
        BY <1>12, <2>1, <2>2, <2>5 DEF OwnerApply
      <3> QED BY <1>10, <2>1, <2>3, <2>5, <3>1
    <2> QED BY <2>4, <2>5
  <1>13. ASSUME NEW t \in Actor, OwnerForce(t) PROVE ShadowInv'
    <2>1. PICK o : o = Top(t).call.node
      OBVIOUS
    <2>2. PICK v : v = own[o]
      OBVIOUS
    <2>3. PICK x : x = Top(t).call.val
      OBVIOUS
    <2>4. PICK u : u = ForcedOn(v, x)
      OBVIOUS
    <2>5. PICK w : w = Shown(u)
      OBVIOUS
    <2>6. stk[t] # <<>> /\ Notify(t, w, WouldChange(v, w.store, TRUE), None) /\ UNCHANGED last
      BY <1>13, <2>1, <2>2, <2>3, <2>4, <2>5 DEF OwnerForce, In, At
    <2>7. o \in Owner => IsOwner(u) /\ u.forced = TRUE /\ u.life = v.life
                          /\ u.shadow = IF v.forced THEN v.shadow ELSE v.store
      <3> DEFINE y == TRUE
                 n == NextSeq(v.seq)
                 z == IF v.forced THEN v.shadow ELSE v.store
      <3> SUFFICES ASSUME o \in Owner
                   PROVE  IsOwner(u) /\ u.forced = y /\ u.life = v.life /\ u.shadow = z
        OBVIOUS
      <3>1. IsOwner(v)
        BY <1>o, <2>2
      <3>2. u = [v EXCEPT !.store = x, !.has = y, !.seq = n, !.shadow = z, !.forced = y]
        BY <3>1, <2>4 DEF ForcedOn, Written, IsOwner
      <3>3. y \in BOOLEAN
        OBVIOUS
      <3> HIDE DEF y, n, z
      <3> QED BY <3>1, <3>2, <3>3 DEF IsOwner
    <2>8. o \in Owner => Alike(w, u)
      <3> SUFFICES ASSUME o \in Owner PROVE Alike(w, u)
        OBVIOUS
      <3>1. PICK r : r = [u EXCEPT !.dup = u.dup]
        OBVIOUS
      <3> QED BY <2>5, <2>7, <3>1, ShownAlike
    <2>9. last' = [last EXCEPT ![o] = last[o]]
      BY <2>6 DEF ShadowInv
    <2>10. o \in Owner => Leaves(w, last[o], o)
      BY <2>2, <2>7, <2>8 DEF Alike, ShadowInv, Leaves
    <2> QED BY <2>1, <2>6, <2>9, <2>10, NotifyShadow
  <1>14. ASSUME NEW t \in Actor, OwnerUnforce(t) PROVE ShadowInv'
    <2>1. PICK o : o = Top(t).call.node
      OBVIOUS
    <2>2. PICK v : v = own[o]
      OBVIOUS
    <2>3. PICK u : u = [Written(v, v.shadow) EXCEPT !.forced = FALSE, !.has = v.has]
      OBVIOUS
    <2>4. PICK w : w = Shown(u)
      OBVIOUS
    <2>5. stk[t] # <<>> /\ Notify(t, w, TRUE, None) /\ UNCHANGED last /\ Waits(t, "unforce", o)
      BY <1>14, <2>1, <2>2, <2>3, <2>4 DEF OwnerUnforce, In, At, Waits
    <2>6. o \in Owner => IsOwner(u) /\ u.forced = FALSE /\ u.life = v.life /\ u.store = v.shadow
      <3> DEFINE y == FALSE
                 n == NextSeq(v.seq)
      <3> SUFFICES ASSUME o \in Owner
                   PROVE  IsOwner(u) /\ u.forced = y /\ u.life = v.life /\ u.store = v.shadow
        OBVIOUS
      <3>1. IsOwner(v)
        BY <1>o, <2>2
      <3>2. u = [v EXCEPT !.store = v.shadow, !.seq = n, !.forced = y]
        BY <3>1, <2>3 DEF Written, IsOwner
      <3>3. y \in BOOLEAN
        OBVIOUS
      <3> HIDE DEF y, n
      <3> QED BY <3>1, <3>2, <3>3 DEF IsOwner
    <2>7. o \in Owner => Alike(w, u)
      <3> SUFFICES ASSUME o \in Owner PROVE Alike(w, u)
        OBVIOUS
      <3>1. PICK r : r = [u EXCEPT !.dup = u.dup]
        OBVIOUS
      <3> QED BY <2>4, <2>6, <3>1, ShownAlike
    <2>8. last' = [last EXCEPT ![o] = last[o]]
      BY <2>5 DEF ShadowInv
    <2>9. o \in Owner => v.forced
      BY <2>2, <2>5 DEF ShadowInv
    <2>10. ASSUME o \in Owner, NEW a \in Actor, Waits(a, "unforce", o)' PROVE FALSE
      <3>1. Waits(a, "unforce", o)
        BY <2>5, <2>10, <1>s, NotifyMoves DEF NoneWaits
      <3>2. a = t
        BY <2>5, <2>10, <3>1 DEF WritesInTurn
      <3>3. ~Waits(t, "unforce", o)'
        BY <2>5, <2>10, <1>s, NotifyMoves
      <3> QED BY <2>10, <3>2, <3>3
    <2>11. o \in Owner => Leaves(w, last[o], o)
      BY <2>2, <2>6, <2>7, <2>9, <2>10 DEF Alike, ShadowInv, Leaves
    <2> QED BY <2>1, <2>5, <2>8, <2>11, NotifyShadow
  <1>15. ASSUME NEW t \in Actor, Enter(t) PROVE ShadowInv'
    <2>1. PICK o : o = Top(t).call.node
      OBVIOUS
    <2>2. stk[t] # <<>> /\ o \in Owner /\ UNCHANGED <<own, last>>
          /\ (stk' = Pop(t) \/ stk' = Goto(t, "settle"))
          /\ (Top(t).call.op = "unforce" /\ ~own[o].forced => stk' = Pop(t))
      BY <1>15, <2>1 DEF Enter, At
    <2>3. CASE stk' = Pop(t)
      BY <2>2, <2>3, <1>s, PopMoves, SameShadow
    <2>4. CASE stk' # Pop(t)
      <3>1. StacksOK'
        BY <2>2, <2>4, <1>s, GotoWaits
      <3>2. \A u \in Actor, p \in Owner : Waits(u, "unforce", p)' =>
                 Waits(u, "unforce", p) \/ (u = t /\ Top(t).call.op = "unforce" /\ Top(t).call.node = p)
        BY <2>2, <2>4, <1>s, GotoWaits
      <3>3. \A u \in Actor, p \in Owner : Waits(u, "unforce", p)' => own[p].forced
        BY <2>1, <2>2, <2>4, <3>2 DEF ShadowInv
      <3> QED BY <2>2, <3>1, <3>3 DEF ShadowInv
    <2> QED BY <2>3, <2>4
  <1>16. ASSUME NEW t \in Actor, ObserveWrite(t) PROVE ShadowInv'
    <2>1. PICK l : l = "change"
      OBVIOUS
    <2>2. stk[t] # <<>> /\ l # "settle" /\ stk' = Under(t, l) /\ setup.body # <<>> /\ UNCHANGED <<own, last>>
      BY <1>16, <2>1 DEF ObserveWrite, At, Nests
    <2>3. PICK r : stk' = [stk EXCEPT ![t] = r] /\ Goes(r, stk[t], l)
      BY <2>2, <1>s, UnderGoes
    <2>4. StacksOK' /\ NoneWaits
      BY <2>2, <2>3, <1>s, GoesMoves
    <2> QED BY <2>2, <2>4, SameShadow
  <1>27. ASSUME NEW t \in Actor, Tell(t) PROVE ShadowInv'
    <2>1. PICK o : o = Top(t).call.node
      OBVIOUS
    <2>2. PICK l : l = "cbend"
      OBVIOUS
    <2>3. stk[t] # <<>> /\ l # "settle" /\ UNCHANGED last
      BY <1>27, <2>2 DEF Tell, At
    <2>4. PICK r : stk' = [stk EXCEPT ![t] = r] /\ Goes(r, stk[t], l)
      <3>1. CASE At(t, "cb") /\ Nests(t) /\ Top(t).seen.changed
        <4>1. stk' = Under(t, l) /\ setup.body # <<>>
          BY <1>27, <2>2, <3>1 DEF Tell, Nests
        <4> QED BY <1>s, <2>3, <4>1, UnderGoes
      <3>2. CASE ~(At(t, "cb") /\ Nests(t) /\ Top(t).seen.changed)
        <4>1. stk' = Goto(t, l)
          BY <1>27, <2>2, <3>2 DEF Tell
        <4> QED BY <1>s, <2>3, <4>1, GotoGoes
      <3> QED BY <3>1, <3>2
    <2>5. StacksOK' /\ NoneWaits
      BY <2>3, <2>4, <1>s, GoesMoves
    <2>6. PICK x : x = IF Top(t).seen.changed THEN Seen(own[o], Top(t).seen) ELSE own[o].told
      OBVIOUS
    <2>7. PICK w : w = [own[o] EXCEPT !.told = x]
      OBVIOUS
    <2>8. own' = [own EXCEPT ![o] = w]
      BY <1>27, <2>1, <2>6, <2>7 DEF Tell
    <2>9. o \in Owner => Alike(w, own[o])
      BY <1>o, <2>7, TellAlike
    <2> QED BY <2>3, <2>5, <2>8, <2>9, QuietShadow
  <1>17. ASSUME NEW t \in Actor, ObserveEnd(t) PROVE ShadowInv'
    <2>1. PICK o : o = Top(t).call.node
      OBVIOUS
    <2>2. PICK n : n = own[o].out \ {<<t, Len(stk[t])>>}
      OBVIOUS
    <2>3. PICK w : w = [own[o] EXCEPT !.out = n]
      OBVIOUS
    <2>4. own' = [own EXCEPT ![o] = w] /\ UNCHANGED last /\ stk[t] # <<>> /\ stk' = Goto(t, "done")
      BY <1>17, <2>1, <2>2, <2>3 DEF ObserveEnd, At
    <2>5. StacksOK' /\ NoneWaits
      BY <2>4, <1>s, GotoMoves
    <2>6. o \in Owner => Alike(w, own[o])
      BY <1>o, <2>3, OutAlike
    <2> QED BY <2>4, <2>5, <2>6, QuietShadow
  <1>18. ASSUME NEW t \in Actor, AfterWrite(t) \/ SendSet(t) \/ Route(t) \/ Drain(t) PROVE ShadowInv'
    <2>1. stk[t] # <<>> /\ UNCHANGED <<own, last>> /\ (stk' = Pop(t) \/ stk' = Goto(t, "publish"))
      BY <1>18 DEF AfterWrite, SendSet, Route, Drain, At, In
    <2> QED BY <2>1, <1>s, PopMoves, GotoMoves, SameShadow
  <1>19. ASSUME NEW o, NEW w, own' = [own EXCEPT ![o] = w], UNCHANGED last, StacksOK', NoneWaits,
                o \in Owner => Alike(w, own[o])
         PROVE  ShadowInv'
    BY <1>19, QuietShadow
  <1>20. ASSUME NEW t \in Actor, OnChange(t) PROVE ShadowInv'
    <2>1. PICK o : o = Top(t).call.node
      OBVIOUS
    <2>2. stk[t] # <<>> /\ stk' = Pop(t) /\ UNCHANGED last
      BY <1>20 DEF OnChange, In, At
    <2>3. StacksOK' /\ NoneWaits
      BY <2>2, <1>s, PopMoves
    <2>4. CASE o \in Owner
      <3>1. PICK u : u = [own[o] EXCEPT !.watch = TRUE]
        OBVIOUS
      <3>2. IsOwner(u) /\ Alike(u, own[o])
        <4> DEFINE y == TRUE
        <4>1. u = [own[o] EXCEPT !.watch = y] /\ IsOwner(own[o])
          BY <3>1, <1>o, <2>4
        <4> HIDE DEF y
        <4> QED BY <4>1 DEF IsOwner, Alike
      <3>3. PICK w : w = Told(u, own[o].has)
        OBVIOUS
      <3>4. own' = [own EXCEPT ![o] = w]
        BY <1>20, <2>1, <2>4, <3>1, <3>3 DEF OnChange, Registered
      <3>5. Alike(w, own[o])
        BY <3>2, <3>3, ToldAlike, AlikeTransitive
      <3> QED BY <2>2, <2>3, <3>4, <3>5, QuietShadow
    <2>5. CASE o \notin Owner
      <3>1. UNCHANGED own
        BY <1>20, <2>1, <2>5 DEF OnChange
      <3> QED BY <2>2, <2>3, <3>1, SameShadow
    <2> QED BY <2>4, <2>5
  <1>21. ASSUME NEW t \in Actor, Park(t) PROVE ShadowInv'
    <2>1. PICK o : o = Top(t).call.node
      OBVIOUS
    <2>2. PICK l : l = "parked"
      OBVIOUS
    <2>3. PICK w : w = [own[o] EXCEPT !.life = l]
      OBVIOUS
    <2>4. own' = [own EXCEPT ![o] = w] /\ UNCHANGED last /\ stk[t] # <<>> /\ stk' = Goto(t, "settle")
          /\ Top(t).call.op = "retire"
      BY <1>21, <2>1, <2>2, <2>3 DEF Park, At, In
    <2>5. StacksOK' /\ NoneWaits
      <3>1. \A u \in Actor, p \in Owner : Waits(u, "unforce", p)' =>
                 Waits(u, "unforce", p) \/ (u = t /\ Top(t).call.op = "unforce" /\ Top(t).call.node = p)
        BY <2>4, <1>s, GotoWaits
      <3> QED BY <2>4, <3>1, <1>s, GotoWaits DEF NoneWaits
    <2>6. o \in Owner => Alike(w, own[o])
      BY <1>o, <2>2, <2>3, LifeAlike
    <2> QED BY <2>4, <2>5, <2>6, QuietShadow
  <1>22. ASSUME NEW t \in Actor, NEW o, NEW w, own' = [own EXCEPT ![o] = w], stk[t] # <<>>,
                last' = [last EXCEPT ![o] = None], StacksOK', NoneWaits,
                IsOwner(w), ~w.forced, \A a \in Actor : o \in Owner => ~Waits(a, "unforce", o)'
         PROVE  ShadowInv'
    <2>1. \A p \in Owner, a \in Actor : Waits(a, "unforce", p)' => own[p].forced
      BY <1>22 DEF NoneWaits, ShadowInv
    <2>2. o \in Owner => Leaves(w, None, o)
      BY <1>22 DEF Leaves
    <2> QED BY <1>22, <2>1, <2>2, OwnShadow
  <1>n. IsOwner(NoOwner) /\ ~NoOwner.forced /\ NoOwner.life = "none"
    <2>1. Kept(NoOwner, {})
      BY NoOwnerKept
    <2> QED BY <2>1 DEF Kept, NoOwner
  <1>23. ASSUME NEW t \in Actor, Retire(t) PROVE ShadowInv'
    <2>1. PICK o : o = Top(t).call.node
      OBVIOUS
    <2>2. own' = [own EXCEPT ![o] = NoOwner] /\ last' = [last EXCEPT ![o] = None] /\ stk[t] # <<>> /\ stk' = Pop(t)
      BY <1>23, <2>1 DEF Retire, At, In
    <2>3. StacksOK' /\ NoneWaits
      BY <2>2, <1>s, PopMoves
    <2>4. ASSUME NEW a \in Actor, o \in Owner PROVE ~Waits(a, "unforce", o)'
      <3>1. own'[o].life = "none"
        BY <2>2, <2>4, <1>n DEF ShadowInv
      <3> QED BY <2>4, <3>1 DEF WritesInTurn
    <2> QED BY <2>2, <2>3, <2>4, <1>n, <1>22
  <1>24. ASSUME NEW t \in Actor, Define(t) PROVE ShadowInv'
    <2>1. PICK o : o = Top(t).call.node
      OBVIOUS
    <2>2. PICK w : w = [NoOwner EXCEPT !.life = "open", !.seq = Seeded(o), !.watch = setup.watch]
      OBVIOUS
    <2>3. own' = [own EXCEPT ![o] = w] /\ UNCHANGED last /\ stk[t] # <<>> /\ stk' = Goto(t, "settle")
          /\ Top(t).call.op = "define" /\ own[o].life = "none"
      BY <1>24, <2>1, <2>2 DEF Define, At, In
    <2>4. StacksOK' /\ NoneWaits
      <3>1. \A u \in Actor, p \in Owner : Waits(u, "unforce", p)' =>
                 Waits(u, "unforce", p) \/ (u = t /\ Top(t).call.op = "unforce" /\ Top(t).call.node = p)
        BY <2>3, <1>s, GotoWaits
      <3> QED BY <2>3, <3>1, <1>s, GotoWaits DEF NoneWaits
    <2>5. IsOwner(w) /\ ~w.forced
      <3>1. Kept(w, {})
        <4>1. Opened(w, Seeded(o), setup.watch)
          BY <2>2 DEF Opened
        <4> QED BY <4>1, OpenKept
      <3>2. w.forced = NoOwner.forced
        BY <2>2 DEF NoOwner
      <3> QED BY <3>1, <3>2, <1>n DEF Kept
    <2>6. last' = [last EXCEPT ![o] = None]
      BY <2>3 DEF ShadowInv
    <2>7. ASSUME NEW a \in Actor, o \in Owner PROVE ~Waits(a, "unforce", o)'
      <3>1. Waits(a, "unforce", o)' => Waits(a, "unforce", o)
        BY <2>4, <2>7 DEF NoneWaits
      <3>2. ~Waits(a, "unforce", o)
        BY <2>3, <2>7 DEF WritesInTurn
      <3> QED BY <3>1, <3>2
    <2> QED BY <2>3, <2>4, <2>5, <2>6, <2>7, <1>22
  <1>25. ASSUME NEW t \in Actor, Enlist(t) PROVE ShadowInv'
    <2>1. PICK o : o = Top(t).call.node
      OBVIOUS
    <2>2. PICK l : l = "live"
      OBVIOUS
    <2>3. PICK r : r = [own[o] EXCEPT !.life = l]
      OBVIOUS
    <2>4. PICK u : u = [r EXCEPT !.dup = claims[o]]
      OBVIOUS
    <2>5. PICK w : w = Shown(u)
      OBVIOUS
    <2>6. own' = [own EXCEPT ![o] = w] /\ UNCHANGED last /\ stk[t] # <<>> /\ stk' = Pop(t)
      BY <1>25, <2>1, <2>2, <2>3, <2>4, <2>5 DEF Enlist, Swept, At, In
    <2>7. StacksOK' /\ NoneWaits
      BY <2>6, <1>s, PopMoves
    <2>8. o \in Owner => Alike(w, own[o])
      <3> SUFFICES ASSUME o \in Owner PROVE Alike(w, own[o])
        OBVIOUS
      <3>1. IsOwner(r) /\ Alike(r, own[o])
        BY <1>o, <2>2, <2>3, LifeAlike
      <3>2. Alike(w, r)
        BY <2>4, <2>5, <3>1, ShownAlike
      <3> QED BY <3>1, <3>2, AlikeTransitive
    <2> QED BY <2>6, <2>7, <2>8, QuietShadow
  <1>26. ASSUME Dispatch PROVE ShadowInv'
    <2>1. StacksOK' /\ NoneWaits /\ UNCHANGED last
      <3>1. UNCHANGED <<stk, last>>
        BY <1>26 DEF Dispatch
      <3> QED BY <3>1, <1>s, Unmoved
    <2>2. CASE \E o \in Owner : own[o].parked # <<>> /\ own' = [own EXCEPT ![o] = Dispatched(@)] /\ UNCHANGED acc
      <3>1. PICK o \in Owner : own' = [own EXCEPT ![o] = Dispatched(@)]
        BY <2>2
      <3>2. PICK w : w = Dispatched(own[o])
        OBVIOUS
      <3>3. own' = [own EXCEPT ![o] = w]
        BY <3>1, <3>2
      <3>4. Alike(w, own[o])
        BY <1>o, <3>2, DispatchedAlike
      <3> QED BY <2>1, <3>3, <3>4, QuietShadow
    <2>3. CASE UNCHANGED own
      BY <2>1, <2>3, SameShadow
    <2> QED BY <1>26, <2>2, <2>3 DEF Dispatch
  <1> QED
    BY <1>1, <1>2, <1>3, <1>4, <1>6, <1>7, <1>8, <1>11, <1>12, <1>13, <1>14, <1>15, <1>16, <1>17, <1>18,
       <1>20, <1>21, <1>23, <1>24, <1>25, <1>26, <1>27 DEF Next, Done

\* A force hides the source and loses nothing: as long as writes take their turn, the
\* latest write of a variable, local or remote, is its value when it is not forced and
\* what a force's end will bring back when it is (rant_variable_set, owner_apply,
\* owner_force, owner_unforce).
THEOREM ForceKeepsSource == Spec /\ []WritesInTurn => []ShadowRight
  <1>1. ShadowInv => ShadowRight
    BY DEF ShadowInv, ShadowRight
  <1>2. Spec /\ []WritesInTurn => []ShadowInv
    BY InitShadow, NextShadow, PTL DEF Spec
  <1> QED BY <1>1, <1>2, PTL

=============================================================================
