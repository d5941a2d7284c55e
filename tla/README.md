# A TLA+ development for Rant

Rant is a C library for publish/subscribe between nodes of a local network: topics,
functions, tasks and variables over UDP, with peer discovery, shared memory on one host,
a tunnel for nodes that have no UDP, a schema language for messages, and bindings for
other languages. This directory holds TLA+ models of it, the TLC configurations that
check them on small instances, and TLAPS proofs of what holds for every instance. Paths
below are relative to the repository: a bare `transport/writer.c` is `src/transport/writer.c`
there, `docs/` and `spec/` are its documentation. `PROJECT.json` maps every definition to
its lines.

## 1. Inventory

| Part | State it keeps | Operations | Hard behaviour | What makes it correct |
| --- | --- | --- | --- | --- |
| Reliable lane (`transport/writer.c`, `reader.c`, `wire.c`, lane part of `core.c`) | history ring, writer proxy per peer (sent and acked edge, pending requests, epoch), reader proxy (position, head and ahead assembly, parked sample) | send, emit (repair, floor, push, heartbeat), ACKNACK, data, heartbeat, match, unmatch, dormancy, park and retry | loss, reordering, duplication, eviction under repair, re-incarnation of one side, refusing consumers | in order, once, no silent loss, whole samples, acked means received, everyone catches up |
| Shared memory (`shm/core.c`, send and read paths of `node/runtime.c`) | chunks with a generation, descriptors | gather, stamp, resolve, copy, verify, retry, fall back | a reader copies while the chunk is reused | no torn sample is delivered |
| Lane scheduler (`transport/sched.c`, lane pool in `core.c`) | destination and lane lists, pool, free list, deadline | wake, drop, sweep, poll_send | records recycled while listed, one link for two lists | no lane starves, none sends for another |
| Fire-and-forget and throttled lanes (`transport/writer.c`, `reader.c`) | private wire numbering, throttle clock | emit, data | renumbering over skipped samples | newest wins, gaps are counted |
| RTT estimator (`transport/core.c`) | smoothed RTT, deviation | probe, fold | ambiguity of retransmits, clamps | bounded timeout |
| Interest and matching (`transport/core.c`, `node/core.c`) | topic slots, announces, verdicts, generations, rebind version, link rings, pages of interest | define, reuse, retire, set role, apply interest, ask, answer, judge, rematch | stale verdicts, reuse of a slot, order of announces, answers lost | a lane connects equal bindings only; answers have lanes before requests arrive; what fits is matched |
| Reflection (`node/core.c`) | channels and entities per peer, mesh, reflected handles | fill, walk, refresh | tables change under a cached walk, halves of a function come apart | the mesh shows what is so |
| Discovery (`discovery/*`) | records, slots, ring of departed uuids | announce, solicit, reply, fetch, judge, loan, FULL, BYE, tick, drop, gone | BYE overtaken, full tables, same endpoint with another uuid | a live match keeps its slot, a gone peer is not revived, directories agree |
| Node runtime (`node/runtime.c`) | lock, callback bracket, queue rings, groups, service thread, arena | send with backpressure, dispatch, take, poll, start, stop, retire, close | callbacks with the lock released, growth of the arena, several threads that drive the loop | no use after retire, no lost wakeup, each record once |
| Functions and tasks (`patterns/core.c`) | pending and parked calls, defer registry, callback queue rings | call (async, blocking), cancel, refresh, answer, defer, complete, progress, timeout, sever, peer lost | callbacks outside the lock, link-then-send, no deadline once RUNNING, queue overflow | one outcome, NO_PROVIDER never ran, progress only within the call, every call ends |
| Variables (`patterns/core.c`) | value, shadow, write_seq, forced, accessor caches | set, force, unforce, on_change, retire, define again | observers and publication outside the lock, two writers, successors, rivals | a force loses nothing, accessors hold the owner's last word |
| Tunnel (`tunnel/*`) | link state, sockets, session, requests under way | open, bind, join, send, close, resume, restore | a link that breaks between request and reply, a bridge that refuses, batches beside requests | client and bridge agree unless the client was told, no datagram for another's socket |
| Serialization (`serialize/*`) | schemas, messages, maps, registry | compile, match, rebase, validate, get, set, print | lengths that carry lengths, names with several spellings | one encoding per value, nothing else is valid, print inverts compile |
| Platform, common, bindings, tools | - | OS calls, helpers, wrappers | - | not modelled |

How they interact: discovery tells the node core of peers and their announces; the node
core hands the interest to the transport, which matches topics and forms lanes; the
scheduler says which lane sends; lanes deliver to topic callbacks or queue rings of the
node runtime; patterns (functions, tasks, variables) are two or three topics each with
their own handlers, and hear of matches and of lost peers as node events; reflection reads
the announces and details that matching fetched. One lock protects a node; user callbacks,
and the send of a call, run outside it. What one module leaves to another: `Calls` and
`Variables` take their channels as the lanes promise (in order while matched, an
overwritten sample is lost), `Matching` takes a peer's blob as discovery delivers it,
`NodeRuntime` takes the arrivals of a lane in order.

The hazards these parts are exposed to are listed in `PROJECT.json`, each at its line,
with the properties that cover it, or why none does.

## 2. Modules

| Module | Models |
| --- | --- |
| `History`, `WriterLane`, `ReaderLane` | the ring of samples, and what each submessage makes of `i_RantWriterProxy` and `i_RantReaderProxy` |
| `ReliableTopic` | one topic: writer process, reader processes and the datagrams between them |
| `MCReliableLive` | `ReliableTopic` with a bound on lost datagrams, and the fairness |
| `OrderedDelivery` | the abstract promise to a subscriber: deliver an own sample above the position, or pass over it and report it |
| `SharedTopic` | `ReliableTopic` with samples that go through shared memory, one action per memory step |
| `Scheduler` | which lane sends next: lists, pool, sweep, deadline |
| `MCReliableModes` | composes the three: one run over several settings of the transport |
| `Discovery`, `MCDiscovery` | the peer directories of a group of nodes |
| `Matching`, `Reflection`, `MCMatching` | which topic meets which; what a node shows of the mesh (pure operators, the state is in `Matching`) |
| `NodeRuntime`, `QueueRing`, `MCNodeRuntime` | the threads of one node, its lock and callbacks; the byte ring behind a queue |
| `Calls` | functions and tasks: caller, definitions and the channels `@req`, `@rsp`, `@prg` |
| `Variables`, `MCVariables` | owners and accessors of one variable |
| `Tunnel`, `MCTunnel` | the tunnel client, with the bridge as its protocol describes it |
| `Schema`, `MapBody`, `Message`, `SchemaText` | layout and matching of schemas, maps, messages, the schema language: pure algorithms |
| `Codec`, `MCCodec` | a program that uses them, against a second, structural definition of what a message is |
| `ReliableTopicProofs`, `AckProofs`, `SharedProofs` | proofs about the reliable lane, and about samples in shared memory |
| `CallsProofs`, `DiscoveryProofs`, `NodeRuntimeProofs`, `VariablesProofs` | proofs about calls, peer directories, the parked lanes of a node, owners and accessors |
| `SeqLemmas` | lemmas: which elements the operators on sequences keep, and induction along a run of values |

Many modules of this list take a constant `Setups` and a variable `setup` that never
changes: a setup is a program of the application together with what may go wrong, and the
MC module names the setups of the run. A property then holds over the union of them.

### The reliable lane

A seqno is the number of a fragment, as in the code; a sample is `[base, count, dest]`. The
history keeps every sample ever sealed so that properties can speak of the evicted ones;
`Cached` and `FirstSeqno` are what the ring still has. `writer[p]` and `reader[p]` live in
different processes and are matched and unmatched independently, because each side learns
of the other from its own discovery. Datagrams are a set: any one may be taken, dropped or,
with `Duplicates`, taken and kept. Times (heartbeat period, repair and ack delay,
backstop) are nondeterminism: whatever a timer may allow is enabled. `Patient` is the
backpressure wait of `rant_topic_send` that never elapses (`send_would_evict`); without
it a send overwrites the oldest sample at once, as it does when the wait times out.
`Accepts` lets a consumer refuse a sample, which parks the lane. `MemChoices` lets the
allocation of an assembly fail. The ACKNACK bitmap is a set of seqnos, its width
`NackWindow`; the reader's `lost` and `delivered` are history.

One deviation of granularity: the code sends whole submessages packed in datagrams; here
each submessage is a datagram, which allows strictly more loss and reordering.

### Shared memory

A big sample is gathered into chunk `base % KeepLast` of its class's segment and only a
descriptor `[chunk, generation]` travels. The publisher's steps are `MayStart`,
`GatherFirst`, `GatherRest`, `Stamp`; the subscriber's are look, `CopyFirst`, `CopyRest`,
verify. A payload is two halves tagged with their sample, so a torn read is a pair of
different tags. A read that cannot be resolved is retried `MaxRetry` times and then
skipped as lost, as in `i_rant_reader_shm`.

### The lane scheduler

The state is the C structure itself: `link` is the one next pointer that a record has for
both the destination list and the free list, `head` and `tail` are per destination,
`destq` the queue of destinations, `next` the armed deadline. What a lane would say is
reduced to what it owes (`new`, `repair`, `ack`, `hb`). `Release` leaves a listed record on
its list to be skipped or unlinked as `i_rant_lane_release` does, and `Grown` is the pool's growth.

### Matching and reflection

Each node has topic slots, its announce (`Blob`), its verdicts on the peer's slots, the
page it fetches and the asks it owes; `net` is the data socket's datagrams, each one a
FIFO that `lossy` setups may drop from. The announce is what discovery delivers: whole, in
version order, some versions never. A lane is a slot in `w` or `r`; data carries the
writer's slot number and is looked up by the receiver as `i_rant_transport_recv` does.
The operations of the programs are those of `rant_topic_*` and of the patterns that create
several topics under one hold. Reflection's `Tables` are the channels and entities of each
peer and of the node itself, with the dirty mark and the mesh cache of the code.

### Discovery

`dir[a]` is a node's directory, `rec[b]` a record. A blob is named by its owner and
version; a datagram carries the sender's version and how long ago it changed, which is what
lets a receiver assume that the sender has judged it. `Candidates` of an eviction are a
set: the code picks by address rank, the model any. `setup.endpoint` makes one process
another's restart.

### The node runtime

A thread is a stack of frames, a frame a call and where it is (`at`). The lock is held
from where the code takes it to where it gives it up: socket wait, condition wait,
callback, join. `QueueRing` places records in cells and wipes what a record covers, so an
overlap is visible; its loops (the walk over records, the doubling of the size) are functions over an interval. Settle waits (`settle`) are those of create, retire, set role, grow.

### Functions and tasks

`call[i]` is the `i_RantPending` entry of call `i` and what became of it: `queued` and
`sent` entries are on `fn->pending`, `parked` ones on `fn->parked` with a record on the
callback ring, and a blocking call's entry is `captured` from its outcome until the call
returns. The channels are taken from the guarantees of the reliable lane: in order and complete while
matched, but a history ring may overwrite an undelivered sample (`Evicts`), and a lost
lane loses what was under way. The lock makes handlers atomic; steps outside of it are
actions of their own: the send after a call was linked, an inline progress callback
(between `RecvRunning` or `RecvProgress` and `ProgressReturns`), a queue dispatch (between
`Dispatch...` and `DispatchDone`), the return of a blocking call after settling.
`OnePoller` says whether one thread drives the node's loop; the code allows several
(`node/runtime.c`, `rant_node_poll`), and they go on while another is in a callback.
`PeerDrop`, `PeerResume` and `PeerGone` are the three things discovery may say of a silent
peer. `Cells` are the addresses the allocator gives to deferred replies; tokens are
addresses.

### Variables

`own[o]` is a definition with its value, shadow and force; `slot` its value topic's seqno line,
from which a successor's `write_seq` is seeded; `lane` and `ops` the two channels. A write
is several steps: apply under the lock (`Set`, `OwnerApply`...), the observers' calls with the lock
released (`ObserveWrite`, `Tell`, `ObserveEnd`), publication. An update is copied under the lock but
for the bytes of the value, which it views in the store: `seen` is what was copied, and `Seen` what the
observer finds when it is called, which another write may have changed since. `out` are the calls of observers
that a remote write, a force and an unforce wait for, and a local set does not. `setup.fixed` says
that the values of the variable have one length; where they have not, a view that was overwritten
shows no value. `last` is history. `W` is the width of `write_seq`, compared modulo `W` as in the code; 16 is the
least at which the wraparound happens and half of it still exceeds the history.

### The tunnel

`link` is the client's state machine, `tx` what the TCP socket has not taken, `conn` the
two directions of the connection, `br` the bridge's end (external: from `spec/tunnel.md`
and from what the client's requests and replies expect). A datagram keeps the binding
(`life`) it was sent on, so that one which meets another binding can be told. The bridge may refuse a socket op
(`Refuses`): the few the setup allows, and any for a socket it does not have. A bind that waits takes the refusal
as its result; of any other refusal the client keeps a note, whose making is `told.noted`. `told` is history, of
the present session: `missed` is whether a request or the reply that refuses it went with a drop or a timeout.

### Serialization

A type is a tree, a cell stands for a byte of a value or a whole length word. `Schema` follows
`i_rant_rd_type`, `i_rant_emit_type` and `i_rant_schema_place`; `Message` the resolve, validate, resize and
set paths over one buffer; `MapBody` the map writer and its bounds-checked walk;
`SchemaText` the compiler over parsed texts and `rant_schema_print`. `Codec` adds `Encode`, the
reference: what the bytes of a value are, by structure over the type and without rows or
offsets. These modules use RECURSIVE operators and are left to TLC.

## 3. Runs

| Run | Question | Properties |
| --- | --- | --- |
| `RT_live` | two-fragment samples through a ring of one, loss, no backpressure | `TypeOK`, `NoSilentLoss`, `WholeSamples`, `RequestsFitWindow`, `ImplementsOrderedDelivery`, `CatchesUp` |
| `RT_modes` | five settings of the transport, see below | `InOrderOnce`, `Untorn`, `HonestEdge`, `PatientDelivers`, `NothingForgotten` |
| `Shm_torn` | violation: a send that outlasts its wait tears a read | `Untorn` |
| `Calls_task` | every end of a call against every other, queues of one record, overwritten channels | `OneOutcome`, `NoProviderNeverRan`, `ProgressWithinCall` |
| `Calls_live` | every call ends: two providers, several polling threads | `EveryCallEnds` |
| `Disc_pair` | two nodes, one with an external blob: loss, late datagrams, a live peer taken for silent or gone, a goodbye | `LeftStaysGone`, `NeverBothAssume`, `Converges` |
| `Disc_hub` | one slot between two peers, records short, slots that grow, a crash | `SlotsSound`, `NoMatchEvicted` |
| `Match` | thirteen programs of two nodes that define, retire, rebind, retype, page, lose, observe | `RightTopic`, `Answerable`, `CalmIsMatched`, `ReadyIsMatched`, `ShownTrue` |
| `Runtime` | nine programs of two application threads and the service thread | `EachOnce`, `ViewIntact`, `NoStrand`, `CallbackRules`, `ClosedAlone` |
| `Var` | ten programs of owners and accessors | `ValueTrue`, `KnownTrue` |
| `Tunnel` | seven clients: the link breaks, resumes and reopens, the bridge refuses, the numbers come round, the node closes | `Synced`, `OwnBinding`, `Reopens` |
| `Codec` | schemas, messages, maps and texts, enumerated and edited | `Canonical`, `ReadersAgree`, `ExactlyMessages`, `MapReadsBack`, `PrintInverse` |

Several properties are conjunctions of named parts, each with its own comment in the
module. `HonestEdge` is `AckedIsReceived` and `NoSilentLoss`; `PatientDelivers` is `AllDelivered` and, with
addressed samples, `OnlyOwnSamples`; `NothingForgotten` is `ListsSound`, `WorkQueued` and `TimersTracked`;
`SlotsSound` is `SlotsBounded` and `CalmIsSettled`; `ShownTrue` is `MeshCurrent` and `ReflectsTruth`; `EachOnce` is `HandedInOrder` and
`RingSound`; `ViewIntact` is `RecordIntact`, `ArenaStill` and `StoreStable`; `CallbackRules` is `StampTrue` and
`NoWaitInCallback`; `ValueTrue` is `ShadowRight` and `CalmIsCurrent`; `KnownTrue` is `StatusTrue` and `ToldIsCurrent`;
`OwnBinding` is `NoneEarly` and `OwnDatagrams`; `Canonical` is `LayoutAgrees` and `SetsAgree`. The `TypeOK` of
`Discovery`, `Matching`, `NodeRuntime`, `Variables`, `Tunnel` and `Calls` hold on these runs too; they are
left out of the configurations, which keep what can be wrong.

**Bounds.** *Lane:* one reader: lanes share only the history, and a second
reader adds to the state of the first only the foreign samples (`Dests` has
`"none"` for them) and the flow control of the writer, which is a conjunction over lanes.
A ring of one or two and two or three samples make eviction happen under every other step;
two fragments per sample are the least for a partial assembly. `RT_modes` chooses one of
five modes in its initial state: `shared` (chunks, patient sends, which write
only once no reader is owed what they overwrite), `restart` (two incarnations, dormancy,
eviction of what is owed), `addressed` (one seqno line for one, all and nobody), `late` (the
first-match window with duplicates) and `lanes` (the scheduler: two destinations, two topics,
a pool that grows from one to four, three events, a clock of three). In `shared` the network
carries one DATA at a time, since a second only reorders descriptors, which the other modes
do with samples; the others carry two. *Calls:* the ring holds one record, so that a second
outcome, RUNNING or progress record evicts or is dropped; two calls and one fault cover the
pairs of ends of a call. `Calls_live` has two providers and two faults. *Discovery:* a
node's announces and asks wait until its last datagram to that node was read or lost, solicited
replies and a goodbye do not, and so may overtake it; one fault per setup. The setup in which a live peer
is taken for silent or gone has no clock, so no header is assumed judged in it: with both, the ask that was owed is
dropped with the record or its debts (`discovery/core.c:1113`, `:1120`) while the other side may have assumed, and the
pair does not settle (`ForgottenIsMatched`, section 5). Three nodes are the least with a peer left out of a table of one. *Matching:* two
nodes, two slots, so that every rebind reuses a slot and two names can share a hash; two
datagrams to a node. *Runtime:* rings of four units that may grow to eight, records of two to
five, so that each run wraps, leaves a sentinel, parks, grows and evicts. *Variables:* a
history of four and bursts of six; a `write_seq` that begins at 14 of 16 wraps; where a local set
may overlap another write the values have one length (`fixed`), `MCResized` is one such setup without (section 5). *Tunnel:*
two slots, two faults (a break, the end of a detached session, or a bind whose reply is slower than its wait), two refusals, batches of two,
socket numbers up to four; in `Wrap` they come round while one socket stays open, with no fault. The programs close as
`rant_node_close` does, without a flush before it. *Codec:* types
four levels deep for the layout; eight types of every kind and nesting edited through every
path until a buffer of eleven cells is full; all cell strings up to length five or six as messages, up to
five as maps; two letters, a digit and the underscore up to six characters as names.
Deadlock is not checked where an application that makes no more calls stops; in `Runtime`,
`Var` and `Tunnel` it is checked, a thread or a node that is done stutters, so there a deadlock
would be a thread that waits for nobody.

**Fairness.** `MCReliableLive`: a writer lane's emit, its push of new data and a reader's
emit are strongly fair. The scheduler polls every woken lane until it has nothing to say
and the sweep wakes lanes whose timers are due (`Scheduler` checks just that); the bound on
datagrams in flight switches these steps off and on, which weak fairness would not survive.
Both sides match in the end, a datagram that is not lost arrives (at most `MaxLosses` are),
and a consumer that refused takes the sample some time. Nothing is assumed of sends.
`Calls`: the sends of a linked call, the returns of callbacks and the
definitions' handlers are weakly fair. The steps of the loop are disabled while a callback
of the same thread is out, so their fairness is strong: the loop polls again after every
callback. `Complete` is fair: an application that never completes a deferred task has
promised nothing. Losing a provider that left is noticed (`Sever` is fair only for a
definition that is gone). `EveryCallEnds` is checked where nothing is overwritten
(`Evicts`, `RingCap`), calls are not made to silent providers (`SilentCalls`), and a
definition does not come back before its loss was noticed (`Returns`); outside of these the code has no
step that ends a RUNNING call, see the hazards. `Discovery`: announces repeat with the
beacon, owed asks and replies are sent with the tick, and a datagram that is not lost
arrives; departures and losses are not fair. `Tunnel`: the polls that step the link, the
end of a bind that waits (its drive returns with the reply, when the link is not open, or with its time), and the
bridge's service of a live connection. The node's own calls are not fair.

## 4. Proofs

All are for every number of readers, providers, calls, nodes and threads, every ring depth, window, size and bound.
The assumptions are ASSUMEs of the modules on their constants, and TLC evaluates them in the runs:

- `History`, `ReaderLane`, `ReliableTopic`: types, a positive ring depth and window, and that a directed topic
  has no catch-up, which `topic_define` enforces;
- `SharedTopic` (`SharedAssumption`): only readers are on the writer's host, and a big message takes two fragments or more;
- `Calls`: types;
- `Discovery` (`DiscoveryAssumption`): a finite group of nodes, and the types of the setups;
- `QueueRing`, `NodeRuntime` (`UnitsAssumption`, `SetupAssumption`): a record's header has a size, a ring at least
  one cell, and a sample needs at least its header. Nothing is said about how a sample
  compares to the ring or to its limit.

| Theorem | Says |
| --- | --- |
| `TypeCorrect` | `Spec => []TypeOK`, among it: no heartbeat for an empty history |
| `DeliveryInOrder` | `Spec => []InOrderOnce` |
| `LossIsReported` | `Spec => []NoSilentLoss` |
| `OwnSamples` | `Spec => []OnlyOwnSamples` |
| `WindowKept` | `Spec => []RequestsFitWindow` |
| `AckIsHonest` | `Spec => []AckedIsReceived`, a conjunct of the run's `HonestEdge` |
| `PatientIsComplete` | `AllDelivered`, a conjunct of the run's `PatientDelivers`: always, if the writer is `Patient` and nobody is dormant, forgotten, out of memory or leaves |
| `Refinement` | `Spec => ImplementsOrderedDelivery` |
| `NeverTorn` | `Patient => (SharedSpec => []Untorn)`, of `SharedTopic` |
| `EndsOnce` | `Spec => []OneOutcome` of `Calls` |
| `TraceInvariance` | `Spec => []TraceInv`, the inductive invariant of the next two |
| `NeverLeft` | `Spec => []NoProviderNeverRan` of `Calls` |
| `ProgressEndsFirst` | `Spec => []ProgressWithinCall` of `Calls` |
| `DirectoryInvariance` | `Spec => []DiscoveryInv`, the inductive invariant of the next three and a part of that of the fourth |
| `LeftIsGone` | `Spec => []LeftStaysGone` of `Discovery` |
| `SlotsAreBounded` | `Spec => []SlotsBounded` of `Discovery`, one half of `SlotsSound` |
| `MatchKeepsSlot` | `Spec => NoMatchEvicted`, an action property of `Discovery` |
| `OneSideAsks` | `Roomy => (Spec => []NeverBothAssume)` of `Discovery` |
| `NeverStranded` | `Spec => []NoStrand` of `NodeRuntime` |
| `ToldTheTruth` | `[]StatusTrue` of `Variables`, and `KnownTrue` always if the setup is `Steady`: values of one length, and observers that do not force or unforce |
| `ForceKeepsSource` | `[]ShadowRight` of `Variables`, a conjunct of the run's `ValueTrue`: always, if unforces come in turn (`WritesInTurn`) |

**Reliable lane.** The inductive invariant is `IInv` of `ReliableTopicProofs`: `TopicOK`
(the samples tile the seqno line), `LanesInv` (a lane's edges lie on that line and its requests above its
base and inside the window), `ReadersInv` (a reader's position, assemblies and deliveries
are those of whole samples of this history, and its account of delivered and lost seqnos
has no hole), `NetInv` (a DATA in flight is a fragment of a sample for that lane, a
heartbeat's range lies on the line, an ACKNACK claims nothing beyond the head) and `RestInv`. None of the
properties is inductive without `NetInv`: a reader is only as good as the datagrams that
may still arrive, and those were built by lanes from an older history, so every clause is
stated so that appending a sample keeps it. The operators of `WriterLane` and `ReaderLane` have
their lemmas, one per operator, and the step lemma has one case
per action. `Refinement` reuses `IInv`: each reader step maps to a delivery, a reported
skip, a restart or a stutter.

`AckedIsReceived` is a statement about two ends of a lane and an ACKNACK may be older than either, so
`AckInv` bounds the epochs (`Epochs`: an unused one is above every epoch in sight) and says of an ACKNACK of the
current epoch that its base is not beyond what that reader has, past the join point (`Truthful`). A reader that
moves forward keeps this: `Grows` relates a reader before and after any of its steps, and the first seqno it misses
only rises along it (`FirstGrows`).

`AllDelivered` adds what is *owed*. A seqno is a reader's own when its sample is for it; an edge is `Safe` when every own
seqno below it lies below what the reader certainly has, or below its join point. `FlowInv` says that the acked edge of a lane is safe, and so are
the floor of a heartbeat and the base of an ACKNACK in flight; that what was evicted and is for the reader was acked
(`Released`), which is where `Patient` enters; and that every own seqno a reader passed was handed up (`Handed`). Then no floor makes a
reader skip anything it is owed. `FlowInv` is an invariant only under the theorem's hypotheses, and each is needed: eviction does not
wait for a reader that is dormant or forgotten; a reader without memory skips the head and says so; and a reader that leaves and
returns may meet a heartbeat of its earlier lane, whose floor passes what it is owed now (it reports these as lost). The run's modes `addressed` and `late` meet these hypotheses: with one
incarnation, a reader that matched stays.

**Shared memory.** `Untorn` is about two processes that touch one chunk in steps of their own, and the generation
alone does not keep them apart: it is bumped after the payload is written. What does is the
backpressure wait, so the invariant carries the argument from the chunk to the acks. `SharedInv` says:
a resolve in progress is of the sample the reader stands at (`SeatOK`); what a reader may still
resolve, namely a described sample at or above its position and its join point, is in the ring, not the one that is being
overwritten, and not acked (`WaitingKept`); and a sample of the ring is in its chunk, whole, unless it is being overwritten
(`ContentOK`). A patient send finds every lane acked up to the head, hence nobody waiting (`NobodyWaits`), and its chunk is
that of the oldest sample alone (`SlotTaken`, on the remainders). The rest is needed to keep
`WaitingKept`: an ACKNACK's base is not above a described sample its reader still waits for (`AckOK`), since a
head in assembly is never a sample sent by descriptor (`Tidy`: the slots only hold samples that come in fragments), and samples
do not overlap; and a descriptor in flight names a sample of this lane (`Descriptor`). `SharedNext` has
no dormancy and no unmatch, so `Patient` is the theorem's only hypothesis; without it the run `Shm_torn`
finds the torn copy.

**Calls.** `OutcomeInv` is a conjunction over the entries (`EntryInv`): besides `OneOutcome`
it says that a call whose send is still to come was made, and, if blocking, has not returned. Without the
latter, a send that fails late would turn a returned call back into a captured one.

`NoProviderNeverRan` says nothing of calls that have not ended, so it is not inductive:
a queued call that times out becomes such a call in one step. `TraceInv` adds, for every entry that was
not sent, that no trace of it exists anywhere (`CauseInv`: no request in a channel, in a provider's
queue or in a deferred reply, no run, no send under way, and nothing heard of it), and
that what a queue of the caller holds of a call agrees with its entry. `ProgressInv` is where the two
regimes of `ProgressWithinCall` differ: without a queue every callback of a single poller is inside the
receive step, so that no other step of that loop can end a call; with one, the record that is viewed pins it.

**Discovery.** `Sound` of a directory (slots fit, records fit, whoever left has no record) is inductive
only with the types of its records, where two facts matter: only a live peer is
owed something, and only a known one has a slot. Every operator on a directory is put into one of
three classes, each closed under composition: `Steady` (states and slots as they were), `Fewer`
(none gained) and `Near` (one peer may gain a slot, no other live match loses its own, what fitted still fits). A
handler is then a chain of such steps. `NoMatchEvicted` follows
for the steps that seat a peer; the one other way a seated peer loses its slot in such a step is that the newcomer is its own restart, at its endpoint.

`NeverBothAssume` rests on who changed first. A header is taken as judged, its blob unread, only when its age says that
the sender changed before the reader (`TakeVersion`), so two such records would need two nodes that both changed before the other. The
inductive invariant `AssumeInv` makes that last. Each record is `Judged`: it wants no slot, refuses nobody, is not ahead of its
peer, and if it has neither slot nor filter mark and is not behind, the peer changed first (`Elder`). A datagram under way may be
old, so it is `Dated`: it tells no more than its sender knows, and of the version the sender still has it does not
overstate the age. And the clock, the versions and the changes only move forward
(`Grows`), through crashes and restarts too, so what was `Elder` stays it or the record falls behind. The hypothesis `Roomy` (every node has a slot
and a record for each other one, and does not hear itself) is needed for the invariant: short of slots, a FULL mark cleared by an old datagram, or
a record dropped while its refetch is under way, leaves the same shape of record for another reason. `Disc_pair` meets it.

**Node runtime.** `NoStrand` needs to know that a ring which refuses a sample is not empty, and that is a
fact about the ring's arithmetic: an empty ring takes what it is large enough for, and otherwise
grows to a size that it fits in, also past the limit (`TargetFits`); what keeps a ring from growing
is a view, and that pins a record. `LanesKept` states the shape this needs (`IsRing`: sizes are numbers
and each cell a record may begin at reads as one; a view pins a record) and, per topic, that a parked lane has a sample that waits and a ring
that holds a record. A reliable ring evicts nothing, so only giving a record back (`QueueRelease`) can empty it, and that
tries the lane again in the same step; if the sample is refused once more, the ring still holds records (`RetryKeeps`).

A function that is defined along an interval has a value at each point that follows from the one
before: `Iterated` (it exists), `Climb` (what each step keeps, all values have) and `Counted`, proved from
the least element of a set of naturals. So a loop of the code can be reasoned about when it is written as such a function.

**Variables.** `KnownTrue` speaks of an observer with nothing parked, so it is not inductive: dispatching the last
parked write must end at the truth. `KnownInv` makes it a promise (`Promised`): the last write in the queue that changed
the state carries the state there is, or none of them changed it and it is the state told before. Each operator on
a variable (`Told`, `Dispatched`, `Written`, `Registered`...) keeps the promise, and `WouldChange` has to see every change
that matters: a flag it overlooks is a state nobody is told. `Showing` says of the problems of a
listed definition that they are rebuilt from its present flag and claims.
`ShadowInv` is about steps that are far apart: an unforce tests the flag, gives the lock up for the observers that run, and
takes the shadow back without a second look. So the invariant says that a waiting unforce finds a force, and that the
calls around the innermost one have an observer out; it is an invariant only
if no two unforces of one variable wait at once, and if a definition outlives its waiting writes: `WritesInTurn`, the
hypothesis. All setups of `Var` meet it and `MCUnforce` does not; there `ShadowRight` fails.

**Only model-checked.**

- Liveness: `CatchesUp`, `EveryCallEnds`, `Converges`, `Reopens`.
- True of the runs' setups and false without their bounds, so that no theorem of the whole specification exists:
  `WholeSamples`; `CallbackRules`, `ViewIntact`, `EachOnce` and `ClosedAlone` of
  `NodeRuntime`; the `Calm` half of `SlotsSound`; the `CalmIsCurrent` half of `ValueTrue`, which two writers of one
  process or a successor defeat (`MCLate`, `MCSuccessor`), and `ShadowRight` without its hypothesis;
  `Answerable`; `OwnBinding`, where a number comes round after a drop took the close of its last socket; `RightTopic`, where a generation has eight
  bits and returns after 256 reuses of a slot. Section 5 names the setups for most of them.
- RECURSIVE operators, where the prover loses its arithmetic: `Scheduler` with `MCReliableModes`, and the codec modules
  (`Canonical`, `ReadersAgree`, `ExactlyMessages`, `MapReadsBack`, `PrintInverse`). A walk over a type is an induction over data besides.
- Not attempted yet: `Synced` of `Tunnel`, the other invariants of `Matching`; `NeverBothAssume` where slots or
  records run short.

## 5. Disagreements

`Shm_torn` is the one run that expects a violation: `Untorn` holds for patient sends
(`RT_modes`) and fails for a send whose backpressure wait elapsed, because the payload is
copied into the chunk (`node/runtime.c:2895`) before the generation is bumped
(`i_rant_shm_stamp`). A reader that still resolves the old descriptor finds its generation
before and after its copy, against `spec/shm.md:75-78` and `shm/core.h:100`.

The rest are statements of the documentation that the models refute when a setup is added
or a bound dropped. They are kept as definitions, and the MC modules name the setup, so
that one can repeat them with `Setups <- ...` and the property as INVARIANT; the runs above leave
the setup or the property out.

| Definition | Setup | What the code does | What is said |
| --- | --- | --- | --- |
| `OneReceiver` | `MCTwoLoops` | the poll body settles once at its start (`node/runtime.c:2492`) and then waits on the sockets unlocked, so a second loop can enter while the first has a callback out | `spec/node.md:86-90`: a foreign poll never enters the receive path behind a paused delivery |
| `EachOnce` | `MCTwoDispatch` | `rant_queue_dispatch` tests `busy` before it waits for a record and not after (`node/runtime.c:3884-3888`), so two dispatchers that waited run one queue together | `spec/node.md:135`: `busy` refuses a concurrent dispatch |
| `StampTrue` | `MCStamp` | `callback_begin` saves the other thread's stamp as its own outer one, and restores it after that thread is back (`node/runtime.c:317-336`): the stamp outlives the callback | `spec/node.md:79-88` |
| `StoreStable` | `MCStore` | a local set writes the store without waiting for an observer that is out (`patterns/core.c:1858-1866`) | `spec/patterns.md:291-292`: a write from another thread waits for the observer to return |
| `ClosedAlone` | `MCCloseInside` | an inline callback does not hold the lock, so `rant_node_close` from it is not refused (`node/runtime.c:4147-4155`) and frees the node under the delivery | `spec/node.md:100-103`: close is refused from callbacks |
| deadlock | `MCStopStart` | a thread that waits in stop for another's join looks at `svc_running` alone (`node/runtime.c:4093`); a start in between keeps it waiting for good | - |
| `CalmIsCurrent` | `MCLate` | two local writers publish outside the lock in either order; a late accessor gets the latest sample of the history, which is the older write | `spec/patterns.md:277`: history ends on the newest write |
| `ShadowRight` | `MCUnforce` | `owner_unforce` tests `forced` before it settles and not after (`patterns/core.c:1685-1690`): the second of two takes back a write that came between | - |
| `CalmIsCurrent` | `MCSuccessor` | a successor seeds `write_seq` from the seqno line (`patterns/core.c:1773-1776`), but skipped publications (`:1874`) advanced the predecessor's past it | `spec/patterns.md:303`: its first write orders above its predecessor's last |
| `Answerable` | `MCMeet` | the gate looks at the claims of the interest applied last (`transport/core.c:463`, `:1172`), and linking re-runs the request channel (`:1880`): a handle made while its caller is already known can open before the caller's claim on its new answer channel was read, and stays open | `spec/patterns.md:109-114` |
| `HoldEnds` | `MCTyped` | a peer that already judged the slot asks for no details, so no request names the new version and the hold stays (`node/runtime.c:2411-2417`, `transport/core.c:1993`) until another change | `spec/interest.md:161-163` |
| `ObserverSeesTypes` | `MCObserve` | an observer asks for a slot only until it has a name (`node/core.c:1306`), and a slot that takes another schema keeps name and hash (`:664-671`), so the old schema stays | `spec/reflection.md:32` |
| `CalmIsSettled` | three nodes, an ask answered to one | an ONE reply satisfies the asker but not the other side's missed version (`discovery/core.c:856`) | `spec/discovery.md:168-173`: a match the peer may not know of is told |
| `ForgottenIsMatched` | `ForgottenSetups`, no goodbye, no external blob | the sweep forgets a record past the gone timeout also when its peer lives (`discovery/core.c:1110-1114`); if that peer's group header is then read before its plain copy, the first contact is judged by assumption (`:1079`, `:887-892`), nothing is fetched and the copy finds a record. The peer kept us and asks nothing, so one side holds the other for good | `spec/discovery.md:252-255`: a record lost to the gone timeout while the peer kept us is matched again |
| `ToldIsCurrent` | `MCResized` | the lock is released before an observer is called (`patterns/core.c:1616`) and `rant_variable_set` does not settle (`:1858`): a second local set overwrites, resizes or moves the store that the first one's update views, and if that observer is called last it ends with a value that is none. With values of one length the late call shows the newer bytes (`KnownTrue`) | `spec/patterns.md:291-292`: the update views the store, so a write from another thread waits for the observer to return |
| `RepeatsUnanswered` | `MCDown` | only a lost session is set up again (`tunnel/runtime.c:250`): a join, leave, option or close that went with a drop, or was made while the link was down, is never sent to a session that was taken back, and the node is not told. `Synced` leaves these out by `told.missed` | `spec/tunnel.md:72-73`: a client repeats what a dropped connection left unanswered |
| `NoneOvertaken` | `MCBye` | the close of a socket goes into tx at once while the datagrams sent on it wait in the batch (`tunnel/runtime.c:610-624`), and `rant_node_close` flushes nothing: its goodbyes reach the bridge when their socket is closed. `OwnBinding` therefore allows a datagram without a socket if its own was closed by then | `node/runtime.c:4168`: the bye and the closes go out first |
| `WaitCapped` | mode `lanes` | a migrate leaves `next_deadline_us` 0, read as none (`transport/core.c:266`, `node/runtime.c:2465`); a due heartbeat that found the datagram full is dropped from the queue and not counted (`transport/sched.c:60-71`); a resumed lane's heartbeat timer is not armed again (`core.c:645-660`) | `spec/transport.md:49-52`: the wait is capped at the earliest armed timer |
| `StartsAtJoin` | `CatchUp` 1, loss | a reader with no position takes it from the first DATA that arrives (`transport/reader.c:146`) and skips part of the replay | `docs/topics.md:43` |
| `WholeSamples` | two incarnations of a reader, two fragments | the heartbeat floor echoes the acked edge, which may be inside a sample (`reader.c:313`, `writer.c:330`) | `reader.c:80`, `spec/transport.md:99` |
| `CatchesUp` | `Directed` | an unplaced reader on a directed topic ignores floors; when its sample was evicted the lane never counts as drained (`writer.c:389`) | `spec/transport.md:203` |
| `OneExecutor` | `SilentCalls`, two providers | a task request made while every matched provider is silent is sent undirected (`patterns/core.c:905`) and can run on two nodes | `docs/tasks.md:73-77` |
| `OwnResult` | `StaleTokens` | a stale token is a safe error only until its address is reused (`patterns/core.c:1213`) | `docs/tasks.md:109` |

## 6. Not modelled

Of the modelled parts:

- *Lane and scheduler:* the byte layout of datagrams, clocks and the RTT estimate. The scheduler's
  samples have one fragment and no addressee, and what a best-effort lane renumbers is left out.
- *Shared memory:* best-effort lanes, a publisher that goes down while its segment is mapped, the geometry checks of an attach.
- *Discovery:* the UNI copies and seeds, blobs that are too big, the trouble table, the ranking of
  addresses, and the mode without an admission hook. A displaced loan is never told FULL (`discovery/core.c:770`);
  if all asks of a match are lost the two sides differ until the next change.
- *Matching and reflection:* a peer's interest epoch is not bumped when a judged slot changes
  (`transport/core.c:1595-1598`); pages built during a hold carry the old version (`node/core.c:1746-1770`);
  two names of one hash within a reflection slot (`node/core.c:688`); an iterator of the mesh across a rebuild;
  attributes, recency, the arena of names.
- *Node runtime:* the waker and its coalescing, the event ring, `rant_node_lock` of the user (which
  a settle releases), the timing of waits, the depth of nested calls in callbacks, status, problems, snapshots.
- *Functions and tasks:* observers, `@rant/meta`, retire of the calling handle (`Refresh`
  reaps the same way), the retire window of a definition, allocation failure of an
  entry (the call is then refused before anything happened), redelivery of a delivered but
  unacked request to a returned definition, and the function shape with several providers
  (`IsTask` FALSE is in the model, not in a run).
- *Variables:* refresh and retype, backpressure, `variable_wait`, allocation failure, late values of rival
  owners, a retire while the receive thread settles in a write (`patterns/core.c:1878`).
- *Tunnel:* frames, JSON and the proof of the handshake, pings, backoff clocks, the text of notes, the limit
  of eight groups, a descriptor reused between poll and read (`tunnel/runtime.c:741`).
- *Serialization:* doc comments, byte order and widths of scalars, the wording of refusals, tokens; enum values at
  the end of the integer range (`serialize/text.c:584`), a print of more than 48 definitions (`:282`), a peer's
  schema with one name in two shapes.

The RTT estimator is plain arithmetic whose result only sets intervals the lanes take as
nondeterminism; platform, common, bindings and tools are operating-system calls, helpers
and wrappers without protocol state of their own.

## 7. Plan

What is left is proof. In order:

1. `Synced` of `Tunnel`: what the bridge knows of a group plus the requests still under way is what the client wants,
   folded over the connection in order.
2. `NeverBothAssume` of `Discovery` without `Roomy`: first by TLC, which so far has a run with room only.
3. `CallbackRules` of `NodeRuntime` under the condition that one thread at a time is in a callback: the bracket as an
   invariant over frames; and that no two records of a `QueueRing` overlap.
