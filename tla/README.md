# Verification of the network programming framework

TLA+ models of the framework's server side, the TLC configurations that check
them on small instances, and TLAPS proofs for every instance.  All line numbers
are those of the source files at this commit.  `PROJECT.json` is the index: the
components, the runs with their properties and mutants, the source lines behind
every definition, the hazards and the theorems.

```
tlc -workers 2 -config Combat.cfg MCCombat.tla        # one run
tlapm NetworkThreadProofs.tla                         # the proofs of one module
```

## 1. The system

A game server built from libraries: `Connection` (framing, queues, network
threads, used by both ends), `BaseServer` (acceptor and connection manager),
`Connector` (the client's end), `Database` (asynchronous and synchronous access to
MySQL), and `GameServer`, the game.  The threads are: the *main* thread, which
runs `Game::Update` in a loop and shuts everything down; the *acceptor* thread,
in `Acceptor::Start`; a pool of *network* threads, each with an `io_service` and
a 1 ms timer; one *worker* thread per asynchronous database connection.

```
 peer <-> Connection (network thread) --received--> LockedQueue --> GameSession / MatchSession
            ^                                                          (main thread)
            |                                                             |
            +------ MPSCQueue <-- Send --------------------------- Game, Match
 Acceptor --> NetworkThread::AddConnection                                |
 Acceptor --> observers --> Game::NotifySession     DatabaseProcessor <-- statements
                                                        | futures            |
                                                     DatabaseWorker <-- ProducerConsumerQueue
```

| component | state | operations | who meets there | what is hard | correct when |
|---|---|---|---|---|---|
| Message queue (`MPSCQueue.h`) | `m_Head`, `m_Tail`, links in the messages, the dummy | `Enqueue`, `Dequeue` | any sender, one network thread | lock-free; the list is cut between exchange and link; consumer deletes messages | FIFO, nothing lost, no write into a deleted message |
| Connection, sending (`Connection.h`, `NetworkByteBuffer.h`) | queue, batch, buffers, `m_ProcessingQueue`, `m_Closed` | `Send`, `EndSendings`, `WriteHandler`, `Close` | game threads, network thread, socket | partial writes, messages that do not fit, close at any moment | the byte stream is what was sent, and goes on |
| Connection, receiving | buffer with two positions, `m_ExtractedMessage` | `AsyncReadSome`, `HandleRead`, `ExtractMessages` | network thread, peer | frames cut anywhere, a full buffer | the frames delivered are the frames sent |
| Network threads (`NetworkThread.h`) | `m_Connections`, `m_NewConnections`, `m_ConnectionsCount` | `AddConnection`, `Update` | acceptor, network threads | a static lambda that keeps one thread's `this`; closed before attached | one owner, counts that mean something, closed ones leave |
| Acceptor (`Acceptor.h`, `Main.cpp`) | `m_Mutex`, `m_Closed`, sockets, threads | `Start`, `Accept`, `HandleAccept`, `Close` | acceptor and main thread | shutdown inside `Start`, a macro that unlocks after its action | no thread outlives `Close`, shutdown ends |
| Asynchronous database | `m_Queue`, futures, callbacks | `ExecuteStatement`, `Work`, `Close`, `TryProccess`, `ProcessEverithing` | main thread, workers | sleeping workers, cancel, answers at any time | order, nothing done twice or lost when drained |
| Synchronous database | a pool of connections, their statements, `m_Working` | `Open`, `ExecuteStatement`, `Wait`, `Close` | main thread | every one of many steps of `Open` may fail | whatever failed, nothing is left behind |
| Game and accounts (`Game.h`, `AccountManager.h`) | sessions, signed-in accounts, matches | sign-in, load, add to match, end | main, network, worker threads | same account twice, save and load race, shutdown | one session per account, loads read the last save |
| Match (`Match.h` and what it calls) | sessions, attacks, jumps, collections, transfers, spawners | `Update` and the messages of sessions | main thread; NPC callbacks inside loops | pointers to sessions that go; entries erased inside loops; a message on every path | no use after delete, spawners keep their numbers, clients know what is so |
| NPC behaviour (two AIs) | state, enemy, target, timers | `Update`, `SomeoneAttacks`, `SomeoneDisappear`, ... | called back from Match | raw pointers, seven states | never follows null, never stuck |
| Session pairing (`SessionBuilder`, `Main.cpp`) | one extension waiting for its connection; who is subscribed | the two notifications of one accept | acceptor and main thread | subscribed and unsubscribed while accepts run | no session with the extension of another |
| Auras and areas | auras with timers, who is in which area | `OnAreaEnter`, `OnAreaExit`, `Update`, the copy in a jump | main thread | overlap, jumps, attacks already begun | protected where and only where it should be |
| Connector client (`ConnectionManager.cpp`) | connections by index, network threads | `Start`, `AsyncConnect`, `CloseConnection`, `Stop` | application thread, network threads | the index is read and the vector appended to without a mutex | an identifier names its connection, connects are answered |
| Hooks, TLS, serialization, geometry, settings, locked queue | none to speak of | | | | left out, see section 7 |

There is no persistence besides the database and no retry of a message or
statement, so there is nothing to model about either.

## 2. Modules and the code

| module | models | composed with |
|---|---|---|
| `MessageQueue` | what the queue of outgoing messages promises | |
| `MPSCQueue`, `NetworkThreadProofs` | `MPSCQueue.h`, one action per shared access | refines `MessageQueue` |
| `ConnectionState` | `m_Closed` and `Close`, which both directions share | |
| `ConnectionSend`, `ConnectionProofs` | `Connection` from `Send` to the socket | instantiates `MessageQueue` |
| `ConnectionReceive`, `ConnectionProofs` | `Connection` from the socket to `HandleMessage` | |
| `NetworkPool`, `NetworkThreadProofs` | `NetworkThread`, choice of a thread by the acceptor | |
| `Acceptor` | `Acceptor`, the start and end of the network threads | |
| `SessionPairing`, `SessionProofs` | `SessionBuilder`, the subjects, the subscriptions of `main` and its end | extends `Acceptor` |
| `StatementQueue` | what a database with one connection promises | |
| `AsynchronousDatabase`, `DatabaseProofs` | `AsynchronousDatabase`, worker, queue, processor | refines `StatementQueue` |
| `Database`, `DatabaseProofs` | the synchronous pool; opening, using and closing both | extends `AsynchronousDatabase` |
| `Accounts`, `SessionProofs` | `Game`, `AccountManager`, players in `Match`, shutdown | uses `StatementQueue`'s database |
| `Match`, `MatchProofs` | attacks, jumps, NPCs and NPC spawners of one `Match`: who points to whom | |
| `WorldView` (`MCWorldView`), `WorldViewProofs` | what the messages of one `Match` tell its clients; collections, collectables | |
| `Combat` (`MCCombat`), `CombatProofs` | hp, shield, regeneration, auras and areas of one `Match` | |
| `NPCBehaviour`, `CombatProofs` | the states of `DefensiveNPCAI`, `FullAggresiveNPCAI` | |
| `Connector`, `ConnectorProofs` | `ConnectionManager` of the client library | |

A module of proofs may hold those of two components (`CombatProofs` extends `Combat`
and `NPCBehaviour`, `SessionProofs` `SessionPairing` and `Accounts`, and so on); the
second then names its specification for itself (`GameSpec`, `BehaviourSpec`, `PoolSpec`,
`ReceiveSpec`).

`Accounts`, `Match`, `WorldView` and `Combat` are four models of the same loops of
`Match::Update`, each with the state its properties need; together they would be
out of reach.  What one of them leaves open (whether a hit kills, whether a
session is within range) is a choice there, so that each allows every behaviour
of the others.

Variables are commented with the field they stand for, actions have the name
of the function, or the name of the function with the branch.  What is atomic
follows the threads:

* In `MPSCQueue` an action is one atomic operation.  The interleaving is
  sequentially consistent; the code uses acquire/release, and every value that
  is read through a link was written before the release store of that link
  or exchange of the head, so nothing the algorithm reads can be older than the
  model says.  `chain` (the nodes in exchange order) and `overlap` (an enqueue
  ran during this dequeue) are history variables.
* In `ConnectionSend`, a sender is inside `Send` between its test of `m_Closed`,
  its enqueue and its return; the network thread yields between messages of a
  batch.  `WriteHandler` and `EndSendings` run on the same network thread.
  Bytes are numbered in the order of the enqueues.
* In `ConnectionReceive` one loop turn of `ExtractMessages` is an action and a
  read delivers any number of bytes.  A byte is (frame, position).
* In `NetworkPool` one `Update`, which holds the connections alone, is an action;
  the acceptor's choice is one instant, although it reads the counts one by one.
* In `Acceptor`, lock, critical section and unlock are separate actions.
* In `AsynchronousDatabase`, the queue's critical sections are atomic; a worker
  waits, checks `m_Closed` and does the work in separate actions.
* In `Database` every connect, every prepared statement and every worker is a
  step of `Open` that may fail; a query is asked in one step and answered in another.
* In `SessionPairing` a subscription or a notification is a step, for each
  holds a mutex; an accept notifies twice, and `main` goes on in between.
* In `Connector` the read of the size, the beginning and the end of the append and
  the callback are four steps of a network thread.
* In `Accounts`, `Match`, `WorldView` and `Combat` the main thread runs alone, and an action is one
  turn of one of its loops over sessions, attacks, jumps or callbacks.  Loops
  over unordered maps take any order.  Sessions announced by the acceptor and
  statements executed by the worker come between any two.
* In `NPCBehaviour` a turn has two steps, `Detect` and the state's function.

Data that no property tells apart is left open: positions and distances are
choices, timers are "due or not", a player is its map and its progress, a message
is its size.  Damage is "dies or not" but in `Combat`, where it is a number.
Clients are not part of the repository's server: in `WorldView` a client does
what the messages say, and drops the attacks by and on a session that has gone.

## 3. What the runs check

Each property has a mutant in `PROJECT.json`: the definition changed as a
plausible bug would, under which TLC finds that property violated.  The `TypeOK`
of a module documents its variables; it is a part of the invariants that are proved.

| run | bounds | what it shows |
|---|---|---|
| `MPSCQueue` | 3 producers, 3 messages, deadlock checked | `ListIsInOrder`: each node is linked to the next or somebody is about to; `NoWriteToDeleted`; `ImplementsMessageQueue`: first in, first out, "empty" only when it is or an enqueue ran meanwhile; `EventuallyDequeued` |
| `ConnectionSend` | 2 senders, sizes 1-3, buffer of 2, 5 bytes | `StreamIntact`: socket, buffers, batch and queue together are the bytes in order; `EventuallyWritten`; `EventuallyDetached` |
| `ConnectionReceive` | sizes 0, 1, 2, 3, 6, buffers of 2 and 5, 3 frames | `DeliveredAreTheFrames`; `EventuallyDelivered`, although a full buffer asks for zero bytes once, unless the connection was never read (`OnStart` failed) or was closed; a short frame counts once the bytes of a header are there, be they the next frame's |
| `NetworkPool` | 3 threads, 3 connections, counts modulo 5 | `CountsAddUp` over the pool; `OnlyCounterUndercounts`: only the thread whose `this` was captured; `EventuallyRemoved` |
| `Acceptor` (module `SessionPairing`) | 2 threads, 2 accepts | `NoThreadOutlivesClose`; `SessionsArePaired`: a session has its own extension, or none if its hook was made before the builder listened; `ShutdownTerminates` unless `Start` leaked the mutex |
| `Database` | 1 or 2 workers, 3 works, 2 connections, 2 statements, 2 queries | `WorkIsSomewhereOnce`; `NothingLostAtClose` when drained; `NothingLeftBehind` after a close or a failed open; `ImplementsStatementQueue` with one worker; `EventuallyProcessed`; `CloseTerminates` |
| `Accounts` | 1 account, 2 sessions, 2 maps | `OneSessionPerAccount`, `LoadsLatest`, `SavesSurviveShutdown`, `SilentPlayersLeave` |
| `Match` | 4 identifiers given by the counter, 2 players, 1 aggressive and 1 defensive NPC, deadlock checked | `NoUseAfterDelete`, `NPCsKnowWhoIsThere`, `PursuerAttacks`, `PopulationKept` |
| `WorldView` | 4 identifiers, 2 players, 1 NPC, 2 collectables of a spawner of 1, symmetric, deadlock checked | `ViewsAgree`: sessions, attacks and collectables as the clients know them; `CollectingIsAnswered`; `CollectablesKept` |
| `Combat` | 2 sessions, 2 areas, damage 5 against a shield of 7 and 1 against none, deadlock checked | `ProtectionMatchesAreas`, `SafeInAreas`, `HitsAddUp`, `StatusKnown` |
| `NPCBehaviour` | 2 others, pause up to 2, deadlock checked | `FollowsSomebody`, `WalksAgain` |
| `Connector` | 3 connects, 2 threads, 2 addresses, 2 starts | `IdentifierNamesItsConnection` but for those that overlapped another or a close; `EveryConnectIsAnswered` unless the manager was ever stopped |

Why the bounds are enough.  Three producers allow one to be cut off between two
others that have gone on, and three messages allow the dummy to be queued again
behind one of them.  A buffer of two bytes is overflowed, filled exactly,
flushed empty and bypassed by messages of 1 to 3 bytes.  A header has four
bytes, so a buffer of five cuts headers and bodies at every place and one of two
must grow before it makes progress.  Three threads make the one that is counted
down wrap below zero while two others are unaffected; the modulus is above the
number of connections as 2^32 is.  Two accepts let the second be hooked while the
session of the first is given away.  Two connections and two statements let `Open` fail with
none, one or all of those before it open, and in the middle of one; two workers
let one fail after another has started.  In `Accounts` two sessions ask for the
same account one after the other or at once, and two maps allow jumps in both
directions of the order in which matches are updated; accounts share only
the order of the statements, and a second one multiplies the states beyond the
time of a run.  In `Match` both NPCs and two players attack each other in any shape;
identifiers come from the counter of the code (`nextID`), and the four let one who
died or left be followed by another while entries that name it are still listed.
In `WorldView` the fourth does the same; there the second collectable is spawned
while a collection of the first is still listed, and `NewIDs` takes any identifier
that nothing refers to: identifiers count upwards, so reuse while referred to
cannot happen (what that is worth is a matter of `Match`, which has the counter), and
this keeps the state space finite.  In `Combat` a session enters with any hp and shield it may
have been saved with, so that a hit of 5 finds a shield that holds it, breaks, or is used up exactly (4);
two areas overlap or not as the choices have it.  Three connects let two overlap while
the third is closed; a fourth may be given an identifier again that was closed, which the proof covers.  Symmetry is used for invariants only.

`CHECK_DEADLOCK FALSE` stands where the system may stop: connections that are
gone, a shut-down server, a bounded number of statements or connects.

### Fairness

| specification | assumed | because |
|---|---|---|
| `MPSCQueue` | a thread inside `Enqueue` goes on, the network thread polls | threads are scheduled; the timer is rearmed for ever |
| `ConnectionSend` | `EndSendings`, sockets answer, weak; completion handlers, strong | the timer is always due, and the `io_service` alternates with it |
| `ConnectionReceive` | reads and their handlers, weak | the peer's bytes arrive while the connection lives |
| `NetworkPool` | every thread's `Update` | 1 ms timer |
| `SessionPairing` | the threads run | nothing forces a peer, an error or the shutdown |
| `Database` | workers, polling, an `Open`, a query and a `Close` that have begun, weak | threads are scheduled, the server answers or fails, the main loop polls |
| `Accounts` | the main loop, the shutdown once begun, the database answers | |
| `Connector` | handlers, and the join in `Stop`, weak | a connect ends with success or an error while the threads run |
| `NPCBehaviour` | turns, weak; arriving, strong | `Entity::Update` moves the player each turn, but arriving is not possible inside the AI's update |

No fairness is assumed of clients, of peers that open connections or of errors.

## 4. What is proved

Every invariant that a run checks is a theorem, for every value of the constants that
the module's assumption allows, and so are the two refinements, the pairing's, and the three action
properties of `Match` and `Combat`.

**The lock-free queue** (`NetworkThreadProofs`), for any set of producers and of
messages.  Assumption `DistinctNodes` of `MPSCQueue`: the dummy and null are
neither messages nor each other.  The safety properties are not inductive: whether a
link written late lands in the right place depends on what the other threads
are about to write.  The invariant `IInv` adds

* `EnqueuesAreSeparate`: a message being enqueued belongs to one `Enqueue`, and
  before its exchange it is outside the list without a successor;
* `PendingAreNeighbours`: a link that is about to be written joins two neighbours
  of `chain` that are not joined yet;
* `DummyIsQueuedOnce`: in the list are live messages and the dummy, which `Dequeue`
  enqueues only when it is out of the list.

One lemma per action; those that move the tail share `AdvanceTail`, and
`SuccessorOfTail` says that the link of the tail, once there, is the second node.
`Inductive`, `TypeCorrect`, `InOrder` (`ListIsInOrder`) and `NoUseAfterDelete`
(`NoWriteToDeleted`) follow.

**The AIs** (`CombatProofs`), for any number of other sessions and any
pause: `BehaviourTypeCorrect` and `NeverFollowsNobody` (`FollowsSomebody`).  The
strengthening is `InMindIsThere`: enemy and target are in the match or null.
Three lemmas give the transitions by what they ask for, a fourth shows that each
state has looked before it asks.

**Combat** (`CombatProofs`), for any sessions, areas, amounts of hp, shield and
damage.  Assumption `CombatAssumption`: amounts are naturals and citizens are
sessions.  `IInv` has three parts: `AmountsOK`, the types; `AurasMatch`,
`ProtectionMatchesAreas` for everyone, those that are in a jump too, and that
those are in no area; `ClientsKnow`, `StatusKnown`.  The
arithmetic of a hit is in `SharesAddUp`, `HitTakes` and `MissTakesNothing`; `OnlyHits` says that while attacks are
updated nothing else changes a session.  `ProtectionIsRight`, `ClientsAreTold`,
`AreasAreSafe` (`SafeInAreas`) and `HitsTakeTheirDamage` (`HitsAddUp`) follow.

**The queue is a queue.**  `IsMessageQueue` shows, in the same module, that `MPSCQueue`
implements `MessageQueue`: the abstract queue is `WithoutDummy(chain)`, so an
enqueue happens at its exchange, and every other access is a stutter.  The lemmas
`AppendMessage`, `AppendDummy`, `SkipDummy` and `TakeMessage` say what becomes of
the list without its dummy when a node is put behind it or taken from its front.
`OverlapIsKnown` adds to `IInv` what allows "empty" while a message is queued: when a
link is missing during a dequeue, that dequeue knows of an enqueue under way.

**Who points to whom** (`MatchProofs`), for any number of players and NPCs and any
sizes of the spawners.  Assumption `MatchAssumption`: sizes and bounds are naturals,
the NPCs fit into the identifiers, null is none of them.  `NoUseAfterDelete` is about steps:
a turn that uses the pointers of an attack or a jump uses no dangling one.  It needs that an entry
whose identifiers are all found does not dangle (`FoundAreAlive`), which a newcomer with the
identifier of one that went would break: `Numbered` says that sessions and entries
are below the counter.  `Safety` is these, `NPCsKnowWhoIsThere` and
`PursuerAttacks` with the types and

* `SessionsApart`: an identifier is of a player, or of an NPC of one spawner, and
  NPCs do not jump, so that the entries of a session are found by its identifier;
* `OneAttackEach`: an attacker has one entry, so a cancelled attack is the one that
  the attacker follows;
* `DanglingAreEntries`, `MindsAreOfNPCs`: what may dangle is still listed, and
  only NPCs have somebody in mind.

The end of a jump needs in addition that the loops walk over entries that are
listed (`TodoIsListed`).  A session goes on three paths, which share one lemma about
entries, minds and attacks; an attack begins on two, which share
`StartAttackSafety`.  `NoneIsUsedAfterDelete`, `NPCsAreTold`, `PursuersAttack` and
`PopulationStays` follow, the last by counting with `FiniteSetTheorems`.

**What clients know** (`WorldViewProofs`), for any number of players, NPCs and
collectables.  Assumption `WorldViewAssumption`: collectables are finitely many and the
numbers are naturals.  `IInv` is `ViewTypes`, `ViewsCorrect` (`ViewsAgree`, client by client),
`CollectingIsAnswered` and `OneAttackEach`, which makes "attacks no more" a
sufficient message: it names the attacker only.  `SessionMessages` and its
neighbours say what each message does to a view (`Shows`); a lemma per action
compares that with what the action does to the match.  `SpawnerInv`, about the
numbers, is inductive by itself.  `ClientsAgree` (`ViewsAgree`), `CollectorsAreAnswered`
(`CollectingIsAnswered`) and `SpawnerKeepsItsNumber` (`CollectablesKept`) follow.

**Shutdown and pairing** (`SessionProofs`), for any number of network threads and
accepts; the assumption used is that "no one" is not a thread that may hold the mutex.
`PairingImplementsAcceptor` shows that the builder only watches, so what is proved of
`Acceptor` holds of the composition.  `NoThreadIsLeft` (`NoThreadOutlivesClose`)
needs who is where with the mutex (`MutexIsHeld`): `Start` is past its look at
`m_Closed` only until `Close` has got it.  `SessionsGetTheirs` (`SessionsArePaired`)
needs that numbers of connections grow (`NumbersGrow`) and that the builder holds
the extension of the connection that is under way, or none (`HoldsThePending`).

**Identifiers** (`ConnectorProofs`), for any number of connects, threads and
addresses.  The connections that did not overlap and are placed have their identifier
to themselves: they are in the vector (`PlacedAreThere`), and any append that was begun
and not ended has copied them (`PlacedAreFound`); a handler that did not overlap is
alone, and the place it has read is still the end (`HandlesAlone`, `PlaceIsFree`).
`IdentifiersHold` (`IdentifierNamesItsConnection`) follows.

**Counts of the threads** (`NetworkThreadProofs`), for any number of threads and
connections below the modulus of the counts.  All threads but the counted-down one
count at least what they have, and at most what was opened so far, so none wraps
(`CountsAreBetween`); `OthersNeverUndercount` (`OnlyCounterUndercounts`) follows.
`PoolCountsAddUp` (`CountsAddUp`) is about the whole pool: a connection is fresh, added
or attached and nothing twice (`ConnectionsApart`), so that each `Update` takes from
one count, modulo its width, as many as it takes from one load.  `SumRemove` and
`SumChange` say what becomes of a sum over threads when one addend changes,
`WrapCongruent` and `WrapTurns` what becomes of it modulo the width.

**The bytes sent** (`ConnectionProofs`), for any senders, sizes of messages above zero
and size of the buffer.  `SendInv` is `TypeOK`, `StreamIntact`, that a write is that of
the front buffer while the connection is processing (`WriteHasBuffer`), and that
nothing is batched between two runs of `EndSendings` (`BatchIsSent`): a batch that
stayed behind would be overtaken by a message too large for it.  One lemma per
action compares the four parts of the stream before and after.  What is between socket
and queue is a sequence of sequences; `FlattenAppend`, `FlattenCons` and
`FlattenConcat` say how flattening meets the changes of it.
`SendTypeCorrect` and `StreamStaysIntact` follow.

**The frames received** (`ConnectionProofs`), for frames of any sizes, empty ones and those
shorter than a header included, any initial size of the buffer and any growth factor above one
(`ReceiveAssumption`).  `DeliveredAreTheFrames` looks at what was delivered only; the invariant
`ReceiveInv` says where all other bytes are.  Unread bytes are those
behind the read position and those in the stream: they are whole frames but for the first
(`FramesWhole`), and the first is the one the extraction waits for (`ReadOn`), given how
much of a message it has (`ExtractedInv`).  A header that is rejected puts the
extraction out of step, and `StreamInv` claims nothing from there, for the
connection closes.  `ReceiveTypeCorrect` includes that no copy leaves its buffer.

**The databases** (`DatabaseProofs`), for any number of workers, works, synchronous
connections and statements.  `DatabaseInv` is the types and

* `ClientInv`: where `Open`, its undoing and `Close` are determines which connections
  are linked and prepared, and which workers have been started and have ended;
* `WorksInv`: a work is in the queue, with a worker, executed, or broken, and its
  future tells which; no place has it twice;
* `CallbacksInv`: a work has its callback until that was run or dropped for an
  error; who has drained has none left and issues nothing any more.

`DatabaseTypeCorrect`, `DatabaseLeavesNothingBehind` (`NothingLeftBehind`),
`WorksAreDoneOnce` (`WorkIsSomewhereOnce`, by `PlacesOfAWork`, which turns the places
into the numbers of the property) and `DrainedCloseLosesNothing` (`NothingLostAtClose`) follow.

`DatabaseIsStatementQueue` (`ImplementsStatementQueue`): with one worker the statements
that are pending are the one in the worker's hands, if any, and those in the queue.  `ExecuteStatement` issues
(`ExecuteStatementIssues`), the end of the work executes (`DoExecutes`), the processor
collects (`InvokeCollects`), a cancel or a worker that ends drops (`CancelDrops`), and taking a
work from the queue is a stutter (`WaitAndPopStutters`), since a worker takes only with empty hands.

**Accounts** (`SessionProofs`), for any accounts, sessions and maps.  The assumption is that there
is a map and that "no account" is none.  `PlaceInv` says where sessions are:

* `PlacesApart`: a session waits, is in the game, is being loaded, or plays, and
  that in one match or transfer; `TodoInv`: what a loop has still to visit is where the loop runs;
* `AccountsApart`: no two of those that play or are being loaded have one account, nor
  one that is stranded, and all these are signed in; `SignedInIsUsed`: whoever is
  signed in has one of them;
* `LoadedOnce`: a load is pending or answered, once; `ShutdownInv`: what statements the
  end of the game leaves.

`GameTypeCorrect` and `AccountsAreApart` (`OneSessionPerAccount`) follow.  `SavesInv` adds what a
row means while saves are on their way: the last save of an account that waits is the player that left
(`LastSaveIsLatest`), without one the row is (`RowIsLatest`), and no save waits behind a load of its
account, answered or not (`SavesBeforeLoads`, `AnsweredLoads`) - since a player
in the game excludes a load, a save is never queued behind one.  `LoginsFindTheSave` (`LoadsLatest`) and
`ShutdownSaves` (`SavesSurviveShutdown`) follow.

**Induction over data.**  The sum over the pool (`MapThenSumSet`) and the flattening of
buffers (`FlattenSeq`) are folds.  Theorems of the library that take a predicate
cannot be used, so the lemma `Induction` is about a set: a set that has
0 and with each number the next has all of Nat, since otherwise there is a least
number that it misses (`LeastNumber`, from the well-foundedness of Nat).  What `f[n]`
is for all `n` is then proved for the set of the `n` for which it holds.

Only model-checked: the liveness properties under their fairness (`EventuallyDequeued`,
`EventuallyWritten`, `EventuallyDetached`, `EventuallyDelivered`, `EventuallyRemoved`,
`ShutdownTerminates`, `EventuallyProcessed`, `CloseTerminates`, `SilentPlayersLeave`,
`WalksAgain`, `EveryConnectIsAnswered`), which are out of the prover's reach.  None of
the provable modules has a RECURSIVE operator.

## 5. What was noticed in the code

The models have all of this as it is; a property is weakened by exactly the case
named and by nothing else.  No doc or test of the repository says otherwise.

* `NetworkThread.h:106`: the removal lambda is a function-local static and keeps
  the first thread's `this`; all removals count that thread down
  (`OnlyCounterUndercounts`), and the unsigned count may wrap.
* `Acceptor.h:65`: an early return inside the critical-section macro leaves the
  mutex locked, and `Close` then never gets it (`MutexLeaked`).
* `Acceptor.h:173`: a failed accept ends the accepting.
* `Connection.h:75`: when `OnStart` fails, `Start` returns: the connection stays attached and open
  and is never read (`refused`).
* `SessionHook.cpp:17`: sizes 0 and 1 are valid.  The opcode of such a frame is read out of the next
  one, a last one waits at `Connection.h:206` for bytes that are not its own, and
  `ProcessReceivedMessage` reads an opcode that the message does not have.
* `Game.h:200`: a result without a row has a value all the same, and `rows().at(0)` throws.
* `Connection.h:83`, `:133`: what is queued when the connection closes is not sent.
* `DatabaseWorker.h:48`: a worker closed with a work in hand drops it, unexecuted;
  draining first avoids that.
* `Match.h:335`: a player that dies is deleted without a save, without signing
  out its account and without closing its connection.
* `DatabaseCallback.h:22`: after a failed SELECT, `EndLoadPlayer` is not called,
  the session is forgotten and its account stays signed in (`stranded`).
* Players that are in a match at the shutdown are not saved.
* `FullAggresiveNPCAI.h:61`: `IsAttacking` asks whether, not whom; an NPC whose last
  attack is still listed takes the new one for started and may follow an enemy
  for ever that it does not attack (`distracted`).
* `DefensiveNPCAI.h:235`: running away never ends.
* `Match.h:130`, `:333`: nothing keeps a player from attacking itself.  When it kills itself, its attack
  is erased by its key and then through the iterator that pointed to it: undefined behaviour.
  The models reach that step (`KillsItself`) and end in a state of its own (`Undefined`), of
  which nothing is claimed.  NPCs attack other factions only.
* `Match.h:512`: `SendWorldState` may list attacks of sessions that have gone, and
  entries that are erased without a message stay in the views (`KnowsTheAttacks`
  compares those whose parties are there).
* `Collection.cpp:19`: a collector that was told that it collects and is found
  walking away out of reach gets no result (`walkedOff`); its timer runs while it
  is still on its way.  A `Collect` that is ignored is not answered.
* `Attack.cpp:52`: a hit that a shield exactly holds takes the shield and the
  whole damage besides (`HitsAddUp`).  A miss counts as an attack.
* `DemilitarizedArea.h:20`: protection is lost on leaving one of two overlapping
  areas (`stripped`); `MatchSession.h:59`: it is kept when jumping out of one
  (`carried`).
* `ShieldRegeneratorAura.h:56`: a `MaxShield` below 25 regenerates by zero, and the
  status is sent at every pause for ever.
* `Main.cpp:180`: an accept before the builder listens to the extensions may give a
  session without extension to the game (`early`).
* `Main.cpp:187`: when one database opens and the other does not, neither is closed,
  and the threads of the first still run when `main` returns.
* A connection whose statement fails to prepare stays connected until its destructor.
* `ConnectionManager.cpp:194`: connects that overlap may get one identifier, and one
  of two appends, or a close, may be lost (`overlapped`); the vector is shorter then,
  and identifiers that were given or closed before are given again.
* `ConnectionManager.cpp:66`: after `Stop` the threads stay stopped; a manager that is
  started again accepts connects that it never answers.
* `Acceptor.h:135`: the static lambda of `UnsubscribeObserver` keeps a reference to
  the first call's parameter; `main` calls it once.
* `DatabaseProcessor.h:23`: callbacks are polled in list order, so that a later one
  may run before an earlier one with several workers.

## 6. Plan

Done: every component with a life of its own has a module, and every invariant and
refinement that a run checks is proved.  Next, in this order:

1. Theorems about whole steps: what one end of `Match::Update` may change of the sessions it
   does not concern, and that `Accounts`' database is `StatementQueue`'s.
2. That the queue inside `ConnectionSend` is `MessageQueue`, so that with
   `IsMessageQueue` the proof of `StreamIntact` rests on the lock-free queue.
3. A life of `GameSession` and `SessionWrapper` of their own, from the pairing to the
   match, where `Accounts` begins with a session that is there.
4. The queue of received messages (`LockedQueue`) between `ConnectionReceive` and
   the sessions.

## 7. What is not modelled

* What the loaders of `Game` and `Match` build from their rows, and the geometry of maps,
  areas, jumps and movement: floating point, without control flow that
  the properties tell apart.  The loaders' statements are in `Database`.
* TLS handshake and hooks (OpenSSL's), `StreamReader`/`StreamWriter` (byte copies),
  the locked queue (a mutex around `std::queue`), settings (constants), build files,
  the vendored libraries.
* The exported C wrappers of the connector, which forward.
* Memory exhaustion and exceptions.  Crashes: nothing is recovered after one.
* `Game::StartLoadPlayer`'s answer without a row: every account of the model has one; without
  it the exception of `Game.h:200` leaves `main`.
* The values of the bytes that `ProcessReceivedMessage` reads behind a message of less than two.
