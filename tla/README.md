# LNUnit in TLA+

LNUnit builds Lightning networks in Docker for tests and drives them through
gRPC. This directory models the parts of it that run concurrently and keep
state, checks them with TLC on small instances and proves the main theorems
about them with TLAPS for every instance. `PROJECT.json` lists the components,
the runs, which source lines each definition stands for, the hazards and the
theorems.

Paths below are relative to the repository (`src/` in `PROJECT.json`).

## 1. Inventory

### LNUnit.LND: connections, pool, rebalancer, streams

| component | state | operations | interacts with |
|---|---|---|---|
| `LNDNodeConnection` | a gRPC channel, public key, alias | constructor (`GetInfo`, no deadline), `GetState` (2 s deadline in the pool), `Dispose`, `Clone`, `KeysendPayment` | pool, stream handlers, builder |
| `LNDNodePool`, membership | `_lndNodesNotYetInitialized`, `_nodes`, `ReadyNodes`, `_isDisposed`, the timer | constructors, the monitoring task `UpdateReadyStates`, `AddNode`, `RemoveNode`, `Dispose` | reads every connection; the builder and the tests read `ReadyNodes` |
| `LNDNodePool`, rebalancer | the task list of a call, the statistics, the caller's save action | `RebalanceNodePool`, `GetInteralNodeEvenBalaceTasks`, `AdjustLimits`, `InvoicePayRebalance` | reads `ReadyNodes` while the monitoring task writes it; LND's channels |
| stream handlers (seven classes) | `Running`, `_task`, a token source, `InterceptCount`, the stream | constructor, reading loop, `Cancel`, `Dispose` | own the connection they were given, except the acceptor; callbacks of the user |
| `LNDCustomMessageHandler`, `LNDChannelInterceptorHandler` | none | a reading loop | callbacks of the user |
| pool configuration and builder | two lists, a period | `AddNode`, `AddConnectionSettings`, `UpdateReadyStatesPeriod` | constructor of the pool |
| `LoopConnection`, extension methods | none | create a channel; cast and copy | |

Nothing in `LNDNodePool` takes a lock. What is hard: the monitoring task
enumerates `_nodes` while callers modify it, decides on an element that may be
gone by then, and calls RPCs that may hang in between. The rebalancer computes
payments from balances that are one await per member old. The handlers wait for
a `Task` that is not the loop's, and share flags between threads.

What makes them correct: settings become connections once each and nothing is
listed twice; active servers end up listed and inactive ones leave the list;
what is removed stays removed; the task outlives what callers do; `Dispose`
stops it. One task per channel, no payment widens a gap, what was paid is saved
and counted. A stream is released by a `Cancel` or `Dispose` that returns,
messages are taken one at a time and none after that, `Running` tells no lies,
and nobody waits for ever.

### LNUnit: the network builder

| component | state | operations | interacts with |
|---|---|---|---|
| interceptor registry (`LNUnitBuilder.cs:814-897`) | `InterceptorHandlers`, by alias | `DelayAllHTLCsOnAlias`, `CancelInterceptorOnAlias`, `CancelAllInterceptors`, `GetInterceptor`, `IsInterceptorActiveForAlias` | the HTLC interceptor, `ReadyNodes` |
| life cycle (`:74-417`, `:419-715`, `:766-803`) | `IsBuilt`, `IsDestoryed`, container ids, channel points | `Build`, `Destroy`, `ShutdownByAlias`, `RestartByAlias`, and the waits `WaitUntilSyncedToChain`, `WaitUntilAliasIsServerReady`, `ConnectPeers`, `WaitGraphReady` | Docker, bitcoind, LND, the pool |
| convenience calls, `Add...` extensions (`:717-1288`) | the network definition | one RPC or one list addition each | |
| `LNUnitNetworkDefinition` | nodes, channels, ids found while building | none | |
| `DockerHelper` | none | pull, remove, create | Docker |

`Build` is a chain of some forty calls to three kinds of servers; any can throw,
and the waits between them read lists that the pool's task changes. What is
hard: checks before an await that are used after it, partial failures that leave
containers or registrations behind, loops without a limit, and two connections
of one alias after a restart. A network should be built as configured or not at
all, for a reason outside of `Build`; `Destroy` should leave nothing; a node that
is restarted should be listed once under its alias; operations should end. An
alias should have at most one interceptor, reachable until it is cancelled.

### LNBolt: encodings

`BigSize`, `TLV`, big-endian trimming (BOLT 1), `HopPayload` and `OnionBlob`
(BOLT 4), `Bech32` (BOLT 11), the packing of short channel ids and keys in
`LNTools`. Pure functions but for `OnionBlob.Peel`, which also assigns to the
object it peels. What makes them correct: parsing inverts encoding, what is not
canonical is refused, a checksum finds what it promises to find, each hop peels
exactly the payload that was put in and finds the next layer.

### The rest

Protocol definitions (copied from LND), images of third-party daemons, the
tests and a console program that is commented out. They have no logic of their
own. `LNUnit.Tests/bolt.js` is a third-party library, minified to one line, that
no code of the repository calls.

## 2. The modules

| module | what it models |
|---|---|
| `NodePool` | membership and health monitoring of `LNDNodePool` |
| `NodePoolProofs` | theorems about it |
| `Rebalance` | `RebalanceNodePool` and what it calls |
| `RebalanceProofs` | theorems about it |
| `Subscription` | abstract: what the user of a stream handler relies on |
| `StreamHandler` | the seven stream handlers; implements `Subscription` |
| `StreamHandlerProofs` | theorems about it, the refinement among them |
| `Interceptors` | the registry of HTLC interceptors, above the handlers |
| `InterceptorsProofs` | theorems about it |
| `Builder` | `Build`, `ShutdownByAlias`, `RestartByAlias`, `Destroy`, with Docker, bitcoind, LND and the pool around them |
| `BuilderProofs` | theorems about it: what `Destroy` leaves, one connection per alias |
| `BuildProofs` | more theorems about it: its types, what `Build` delivers and throws for |
| `Codecs` | BigSize, TLV and hop payloads, as operators |
| `Bech32` | Bech32, as operators |
| `Onion` | `ConstructOnion` and `Peel` |
| `EncodingsProofs` | theorems about `Onion` and `Bech32`, and the lemmas about sequences they share |
| `CodecsProofs` | theorems about `Codecs` |
| `MCNodePool`, `MCRebalance`, `MCStreamHandler`, `MCInterceptors`, `MCBuilder`, `MCEncodings` | instances for TLC |

The levels fit together as follows. `Interceptors` keeps of a handler what
`StreamHandler` establishes: a `Cancel` that is not the first throws, the first
ends the stream, and a constructor that misses its stream never returns.
`Builder` keeps of the pool what `NodePool` establishes: settings become
connections, nodes are listed before they are probed and dropped while they are
not ready, a `RemoveNode` or an `AddNode` can end the monitoring task, and a
removed connection may stay listed then. `Onion` keeps of a payload two sizes,
the one on the wire and the one that `SphinxSize` of the parsed object has;
`SizeOfWhatIsCarried` of `Codecs` says when they are equal.

### NodePool

`notYetInitialized`, `nodes`, `readyNodes` are the three lists,
`isDisposed` and `quickStartupMode` the fields of that name. A connection is a
reference, the number of its creation; `conns` gives its endpoint. A settings
object is a reference too, the number of its submission; `given` gives its
endpoint, since the code finds settings by host and may find another object than
it means. `version` is the `_version` of `List<T>`: an enumeration compares it at
every `MoveNext` and throws when it has changed; the list of settings only grows
while it is copied, so that the number of submissions is its version.

The monitoring task is a process with the program counter `mpc`. `Tick` and
`Stop` are the wait for the timer; `CopyNext`, `CopyEnds`, `CopyThrows` the
enumeration of the settings in `CreateCopy`, which is outside of the `try`;
`Connect`, `ConnectFails`, `Forget` are the rest of
`SetupNotYetInitializedNodes`, where `Forget` takes out the first object with the
endpoint; `BeginScan`, `ScanNext`, `ScanThrows`,
`ScanEnds` the foreach over `_nodes`, `JudgeReady`, `Probe`, `Admit`, `Keep`,
`Drop` its body, `Pace` the change of period. While a server hangs neither
`Connect` nor `ConnectFails` is enabled: the task is blocked, as the code is.
`AddNode`, `RemoveNode`/`RemoveReady` (one method, two statements) and
`Dispose`/`DisposeNext`/`DisposeReturns` (the method and its `ForEach`) are the
callers' steps. The servers change as they like. Three histories serve the
properties: from which settings a connection was made (`source`), the endpoints
of which a pass tried a second object after a first had failed (`mixed`), and
whether settings were added while the list was copied (`struck`).

**One operation on one `List<T>` is atomic.** .NET does not promise that: two
unsynchronised additions may lose one of the two. The model assumes that they
do not, and takes everything coarser apart. A second `Dispose` returns at once
and is a step that changes nothing.

### Rebalance

One call at a time: `Call`, `Snapshot`, `ListChannels` per member, `ListDone`,
then `Execute`, `Pay`, `CountTask`, `Save` per task, `Return`. `ListFails`,
`EndpointGone`, `PayThrows`, `SaveFails` are the ways out or past; where the code
lets an exception through, the call ends in `faulted`. `InvoicePayRebalance` is
written in line. `Task`, `Excess`, `Ceiling`, `Floor`, `Clamped`, `Worthwhile`
are the arithmetic of lines 330 to 384, in satoshi with limits in millisatoshi.
The commitment fee is kept apart from both balances, since it is what makes half
of the capacity differ from half of what the ends own.

The environment moves nodes in and out of `ReadyNodes`, takes peers offline,
lets RPCs, payments and saves fail and lets others pay over the same channels
(`crossed` remembers the tasks this makes stale); `Disturbances` chooses which. LND is modelled by what it requires to send a payment over one
channel (`Payable`) and by its books (`Transfer`).

### StreamHandler

Seven classes share one shape. `kind` is a record of the points in which they
differ (which calls take the token, whether LND waits for an answer, whether
there is a `Cancel`, what `Dispose` does, whether the callback is optional), and
one model runs them all. The state monitor's callback is assigned after its loop
has begun (`Hook`), and a message that finds none is dropped (`Drop`). The three
sides are the constructor (`Assign`, `Poll`), the loop (`Open`, `Take`, `Handle`,
`Answer`, `Count`, `Leave`, `Lower` and their failures) and the callers (`Begin`
to `Spin`). `_task` is the task that `Task.Factory.StartNew` returns for an async
lambda, complete once the loop has reached its first pending await; `Yield` is
that moment. A `Dispose` before it throws from `Task.Dispose` and ends in `threw`. A second
`Dispose` of the acceptor finds `_disposed` and returns at once, while the first
may still be waiting for the loop; it ends in `skipped`, and counts as a
return (`Released`) from when the first has cancelled the token.

`Subscription` is the promise: open, take a message, deal with it, take the
next, and close for good. A message that is taken is dealt with (`heard`) or, of a
handler without a callback, lost (`lost`). `Promise` maps the loop to it.

### Interceptors

`registry` is `InterceptorHandlers`; `stream` and `source` are what is left of
each handler. A call `c` is at `at[c]`, and every access of the dictionary is a
step: `Check` (`ContainsKey`), `Find` (the wait for the node, `FindThrows` if the
pool changes the list meanwhile), `Clone` (`GetInfo`, which may fail or stay
`silent`, and the constructor starts its loop), `Constructed`, `Add`, `Index`,
`CancelToken` and `Dispose` (the two halves of `Cancel`), `Remove`, `Enumerate`
(one element of the foreach), `Clear`. In .NET since version 3 an addition
invalidates an enumeration of a `Dictionary` and a removal does not; `stale` is
that. A handler that is disposed and in nobody's hands can be created again, so
that histories of any length are covered by few handlers.

Calls overlap as they like. Three histories say which did: `raced`, the aliases
for which a call that adds met another that adds or removes (`Races`), `clashed`,
whether calls that cancel met each other, or a user cancelled a handler that
`GetInterceptor` gave him (`Clashes`), and `home`, the alias a handler was made for.

### Builder

One operation at a time, `op`, with a label `at` and the loop variables of the
code (`i`, `k`, `local`, `remote`, `retryCount`). One call to Docker or a server
is one step, named for what it does: `Create`, `Start`, `Files`, `MakePool`,
`WaitListed`, `CopyListed`, `Connect`, `ConnectAgain`, `Fund`, `Open`,
`SetPolicy`, ... The waits that several operations share are one action with the
label as a parameter (`WaitSynced`, `WaitGraph`). The servers are external: LND
becomes active in two steps and only with its miner, blocks have to be caught up
with (`Mine`, `CatchesUp`), by both ends before a channel is opened; a peer that
is asked for is connected when both nodes are up (`asked`, `Meet`), at once or
later; a container may die, a call may throw (`CallFails`). The fixtures remove
all containers by name between two networks (`CleanUp`). Addresses count the
starts of a stopped container, so that a connection to an old address can be told
from the new one. The server of Loop is optional, as in the code.

The pool is `NodePool` in few steps: `Join`, `List` and `Drop` of the task while
it is alive (`monitored`). A `Remove` or `Settings` under its enumerations ends it,
and so does, as a fault, a server that never answers (`MonitorHangs`). The other
way round, an enumeration of `ReadyNodes` by an operation throws when the task
changes the list (`Enumerates`, `Monitor`).

### Codecs, Bech32 and Onion

`Codecs` writes what returns `null` or throws as the empty set and a result `x`
as `{x}`. The base of BOLT 1 and 4 is a constant, 256 in the code, so that a
`ulong` of eight digits is an integer that TLC has; the markers `0xfd` to `0xff`
are `Base - 3` to `Base - 1`, and the cast to `int` keeps four digits and a sign.
`input` is one call: a byte string to parse, a record or a payload to write and
read back, or the records some other node wrote. `Inputs` are all such calls.

`Bech32` has the real alphabet and generator. A number that the code shifts, masks
or XORs is the set of its bits, so that XOR is the symmetric difference. A
character is its code in ASCII. `invoice` is one call, of `Encode` or of `Decode`,
`Invoices` are all of them.

A payload may carry payment data, metadata and other records, which a caller can
set and a parser sets for what LND sends. `Carried` is what `ToDataBuffer` writes
of them.

`Onion` computes with symbols instead of bytes: a byte is what it was made from
and the set of stream bytes it has been XORed with, an HMAC names all that it was
computed over. `ConstructOnion`, `GenerateFiller` and `Peel` are then about
positions, which is what an onion gets wrong by one byte. `route[h]` is the size
of hop `h`'s payload on the wire, `readSize[h]` what `SphinxSize` makes of it
(`OnionBlob.cs:153`), which is less if the payload carries more than amount,
expiry and channel. `Peel` then looks for the next HMAC inside the payload, finds
bytes that are not zero and overwrites the blob (`Spoiled`). `sender` tells the
onions of LND, for which the tests have vectors, from those of `ConstructOnion`,
whose payloads have no prefix: `Peel` throws, or takes one for a legacy payload by
chance.

## 3. The runs

| run | states | question |
|---|---|---|
| `pool_safety` | 2.6 M | what can kill the task, what happens to a connection removed under it, are settings conserved, is anything listed twice |
| `pool_live` | 250 144 | do active servers get listed, inactive ones leave, quick polling and the disposed task end |
| `pool_removed` | violation | `RemoveNode` "Removes from both [...] lists" (`LLM_DOCUMENTATION.md:358`) |
| `pool_hung` | violation | "Individual node failures don't prevent pool from operating" (`:655`) |
| `rebalance` | 4.7 M | one task per channel though its ends report it differently; what was paid is saved and no payment widens a gap, whatever fails or is paid in between; nothing left to pay for a second call |
| `rebalance_counted` | violation | "Number of successful rebalances" (`:371`) |
| `stream` | 171 902 | releases, flags, message order, refinement of `Subscription`, and that nobody waits for ever |
| `interceptors` | 531 440 | in which overlaps is a handler lost or an alias left registered, do calls end |
| `builder` | 245 473 | is a network built as configured, why does `Build` fail, what does `Destroy` leave, which connection has an alias, do operations end |
| `builder_synced` | violation | "Wait until we are synced to the chain" (`LNUnitBuilder.cs:650`) |
| `encodings` | 8604 | do the encodings round-trip and refuse what is not canonical, do the layers of an onion fit, how far does `Peel` get |
| `encodings_last` | violation | onion decoding "works on last hop" (`LNBolt/README.md:11`) |

### Bounds

* `pool_safety`: one endpoint, given up to two settings besides an enlisted
  connection, two callers. One endpoint and several settings is the hard case of
  the lookups by endpoint; two callers are enough for a removal to overlap a
  removal, an addition and a disposal. Every server is down or active: the other
  two conditions differ only in what `Connect` waits for.
* `pool_live`, `pool_hung`: two endpoints, so that one can be in the way of the
  other, all four conditions of a server, one caller (no liveness property
  depends on two callers at once). `pool_removed`: two endpoints that answer or
  do not.
* `rebalance`: the line a - b - c with one channel to a node outside, an
  even and an odd capacity, with and without a commitment fee, one channel with
  wide limits and one with limits that cut amounts and differ by end. Every
  division of each channel is an initial state. Two disturbances of any kind at any
  two places of two calls, and failures anywhere. `rebalance_counted` has none.
* `stream`: two threads that each call once, two messages: enough for a call to
  overlap another and for a message to be in hand while another waits.
* `interceptors`: two calls at once, two aliases, of which one may leave the pool,
  two handlers that are not disposed at any moment (`Begin` admits no third). Two
  calls are enough for each pair of accesses to be in either order, two aliases
  for a foreach that dies half-way.
* `builder`: the miner and two nodes with a channel to each other, so that one is
  local and one remote in both directions, without Loop, as the fixtures; one
  fault at any call (or a container that dies, or a server that never answers the
  pool) and one restart, after which nodes can be shut down and the network
  destroyed or cleaned up and built again. `builder_synced` lets users restart
  nodes that run.
* `encodings`: base 6 keeps all of the four forms of a BigSize apart and their
  boundaries within reach; all strings of up to five digits that matter (0, 2 and
  the markers' ends), all eight-digit ones of zeros and ones; payloads with and
  without payment data, metadata and other records. Onions of up to three hops
  with payloads of two and four bytes, in 16 bytes with HMACs of two: sizes of hops
  differ, the last hop may fill the packet, and there is one hop in the middle,
  whose filler is both read and written; every size that `SphinxSize` may make of
  them. Four calls of `Peel`, one more than hops, with right and wrong secrets,
  keys and associated data.

### Fairness

* `NodePool`: weak fairness of the task (it is on the thread pool and its timer
  keeps firing), of a method already entered, and of the ten seconds of start-up.
  Callers need not call and servers need not change or answer. A hung server
  disables the task, so fairness says nothing of it.
* `StreamHandler`: weak fairness of the constructor, the loop and each caller.
  That a callback ends is part of the loop's fairness and an assumption about
  user code. LND need not send, end or break anything.
* `Interceptors`: weak fairness of each call and of the loop that opens a
  stream. LND may refuse and break streams and need not answer `GetInfo`, which has
  no deadline; the pool may drop nodes. `CallsEnd` excepts a node that is out of the
  pool, one that stays silent and a constructor that has missed its stream.
* `Builder`: weak fairness of the operation, of LND starting and catching up while
  its container and the miner run, and of the pool connecting and listing. The
  first assumes that every call is answered or broken off in the end, the last is
  fairness of the task only while it is alive: it is not once a removal, an addition
  or a server that never answers has stopped it, which `OperationsEnd` excepts.
  Peers need not meet and faults need not happen.
* `Onion`, `Codecs` and `Bech32` have no liveness.

Deadlock is checked for `NodePool` (servers and callers can always go on) and
not for the others, where a run that has made its calls is over.

## 4. What the code does

The five violation runs show where the code and its documentation differ:

* **A removed connection comes back** (`pool_removed`). `RemoveNode` takes it out
  of `_nodes` and of `ReadyNodes` while the foreach holds it; the task then finds
  it not listed and lists it. `GhostsHaveNoMonitor` says what then holds: the same
  task throws at its next `MoveNext`, so that nobody takes it out again.
* **One server that never answers stops the pool** (`pool_hung`): the
  constructor's `GetInfo` has no deadline and runs on the task.
* **Failed payments count** (`rebalance_counted`): only the hash of the first
  update is looked at, and a failed payment has one.
* **A restarted node opens channels before it has the chain** (`builder_synced`):
  the loop below "Wait until we are synced to the chain so we know we have funds
  secured to send" (`LNUnitBuilder.cs:650`) ends as soon as the node has the
  graph *or* the chain.
* **The last hop of an onion does not peel** if its payload has more in it than
  amount, expiry and channel (`encodings_last`), as LND's final payloads have:
  `Peel` goes by `SphinxSize`, which is computed from these three alone, takes
  payload bytes for the next HMAC and overwrites the blob.

Further observations, each an execution of the models without a run of its own.
Of the pool:

* the monitoring task ends silently if any `RemoveNode` falls into its foreach, or
  an `AddNode` into the copy of the settings (`LNDNodePool.cs:111`, outside of the
  `try`); `OnlyModificationKillsMonitor` says that nothing else has this effect;
* of several settings objects with one endpoint the first is taken off the list,
  whichever was connected (`:121-122`): if the first has failed in that pass, it is
  lost and the other is connected once more (`SettingsConserved` excepts these
  endpoints);
* a connection is listed ready without ever having been probed, and a dead one
  alternates between listed and not listed (`InactiveIsDropped` is what remains);
* a connection made while `Dispose` runs is never disposed; `TotalNodes` keeps the
  value of the constructor;
* `AdjustLimits` takes the larger maximum and the smaller minimum of the two ends,
  so an end may refuse the amount (`NothingLeftToPay` excepts such channels); a
  task whose channel others have paid over in the meantime is paid as it is and may
  widen the gap (`PaymentsNarrowGaps` excepts it).

Of the stream handlers: a constructor waits for ever if its stream breaks
between two looks at `Running` (`ConstructorReturns` excepts such streams); the
state monitor drops messages that come before its callback is assigned; a second
`Dispose` of the acceptor returns while the loop still takes messages, until the
first has cancelled the token (`NothingTakenAfterRelease`).

Of the builder:

* a `DelayAllHTLCsOnAlias` that meets another for the same alias, or a call that
  removes there, may leave a handler that nobody can cancel any more: both pass
  `ContainsKey` and the `Add` of the second throws, or `RemoveKey` takes the key of
  the new handler. `NoneLost` says that no other overlap loses one;
* calls that cancel and meet each other, or a handler the user has cancelled
  himself, make `Cancel` throw: `CancelInterceptorOnAlias` swallows that and keeps
  the key, `CancelAllInterceptors` stops half-way and so fails the set-up of
  every later test. `CancelFrees` says that only these overlaps do that, and an
  addition during the foreach;
* `DelayAllHTLCsOnAlias` waits for ever for a node that does not answer
  `GetInfo` (an exit of `CallsEnd`);
* `IsBuilt` stays true after `Destroy`, so that one builder builds one network;
  after a `Build` that failed, `Destroy` throws and what was created stays, which
  a second `Build` then meets as taken names (an exit of `BuildFailsForAReason`);
  with the containers removed by hand it goes through, except where there is a
  Loop, whose containers nobody removes and which are dependent under the id of
  their node (`:220`);
* nothing excludes a node that is configured with a channel to itself; `Build`
  then throws when it connects the node to itself (another exit);
* the waiting of `Build` has three gaps, through which it throws though no call
  has failed (the other exits): an enumeration of `ReadyNodes` meets the pool's
  task (`:334`); a node that was listed unprobed is dropped before `First` looks for
  it (`:347`); and only the node that funds a channel is waited for, so that the
  other end may be behind the blocks `Build` has mined, or not be connected yet,
  since `ConnectPeer` is asked to keep trying (`:551`) and returns before;
* the `RemoveNode` of `ShutdownByAlias` and the `AddNode` of `RestartByAlias` can
  end the monitoring task, after which `RestartByAlias` waits for ever, for a
  connection nobody makes (`:780-784`) or for the old one that was listed again
  (`:786`), though no call has failed. `OperationsEnd` and `OneConnection` speak of a
  pool whose task lives;
* `RestartByAlias` of a node that was not shut down adds its settings a second
  time; the pool then has two connections, one of them to an address that is gone,
  and the wait for the alias may wait for that one (`OneConnection` and
  `OperationsEnd` say `Careful`).

Of the encodings: `ConstructOnion` counts the length prefix of a payload and does
not write it, so that its layers nest (`LayersNest`) and `Peel` cannot read them,
or reads something else by chance; the tests that would show it are commented out
(`LNBolt.Tests/OnionTests.cs`). `ToDataBuffer` drops payment data, metadata and
other records that a caller has set or a parser has read (`PayloadsRead` speaks of
what is `Carried`). `Peel` derives the next ephemeral key from the shared secret
alone, so that from the second hop on a private key no longer helps and only shared
secrets do, as `LNBolt/README.md:11` partly admits; `EveryHopPeels` is about those,
and says that after a payload with more in it than `SphinxSize` counts nobody gets
anything more out of the blob. A TLV whose length does not fit an `int` is read with
the length it is cast to (`RecordsFramed` excepts it).

### Hazards without a property

`PROJECT.json` lists the hazards that matter most. Known beside them, and not
covered: `Dispose` of the pool racing the connecting task, and its `ForEach`
throwing half-way (`LNDNodePool.cs:102`), which leaves connections open;
sequences of `RemoveNode` and `AddNode` after which `AllReady` can never hold
(`:410`); `Dispose` directly after a handler's constructor, whose `Task.Dispose`
throws (`LNDSimpleHtlcInterceptorHandler.cs:38`, an outcome of `CallsEnd`);
`GetNodeFromAlias`, which polls with no limit (`LNUnitBuilder.cs:770`, excepted in
`CallsEnd`); a policy that LND always refuses, which `Build` repeats for ever
(`:390`); `WaitGraphReady` for nodes that have no channel (`:665`); the end of an
image pull, which is recognised by the wording of a message (`DockerHelper.cs:42`).

## 5. Proofs

All theorems hold for every value of the constants that satisfies the named
assumptions: `EndpointsAssumption`, `ServerStatesAssumption`, `BoundAssumption`
(`NodePool`); `NetworkAssumption` (two different ends per channel, fee at most
the capacity, finitely many channels and members), `ParameterAssumption`
(`Rebalance`); `KindsAssumption`, `BoundAssumption` (`StreamHandler`);
`HandlersAssumption`, `AliasesAssumption` (`Interceptors`); `NetworkAssumption`,
`BoundAssumption`, `SwitchAssumption` (`Builder`: there is a node, the nodes have
channels to nodes of the network, and "none" is no container); `LengthsAssumption`, `SizesAssumption`,
`BoundsAssumption` (`Onion`: an HMAC has a byte at least, a payload has two at
least and fits a packet beside its HMAC); `BaseAssumption` (`Codecs`: an even base
of at least 4, so that there are three markers and another digit, and that half of
the values of an `int` are negative; the code has 256). `Bech32` has no constants.
TLC evaluates the assumptions in the runs, and `SomeAreGiven` of `MCEncodings`, that
the inputs it enumerates are among those the theorems speak of.

* `NodePoolProofs`. `TypeInv` is `TypeOK` and what makes it inductive: the
  settings just connected are at the head of the copy, and inside the foreach the
  loop variable is a connection. `SafeInv` is the conjunction of the
  three safety properties with `EnumerationInv`, without which they are not
  inductive: an enumeration never runs ahead of the list, and the element it has
  yielded is still in `_nodes` unless the version has changed since the foreach
  began. `Connect` changes the version too, but never during a foreach; a ghost
  can therefore only be listed by an enumeration that is about to throw.
  From the two follow `TypeCorrect`, `NeverListedTwice`,
  `ModificationAloneKillsMonitor` and `GhostsAreUnmonitored`. `NoSettingsLost` rests
  on order: settings are waiting in the order in which they were given, and so is
  the rest of the task's copy (`CopyInv`); an object of an endpoint that is not
  `mixed` and is connected is the oldest of its endpoint that waits (`Oldest`), so that
  the first with its endpoint, which is taken off, is it. `SourceInv` adds that no
  connection is made from settings that still wait, or twice from the same.
* `RebalanceProofs`. `OneTask` follows from `ListInv`: the tasks have different
  channels, and one listing adds only channels without a task. `PaymentsNarrow`
  assumes `DeltaThreshold >= 2`: in an odd capacity a gap of one satoshi would only
  change sides. Its invariant adds `FreshInv`, that a task not yet paid was computed
  from the balances its channel still has, unless others have paid over that channel
  since, which rests on tasks of different channels not disturbing each other,
  `BalanceInv` and `InHandInv`. The arithmetic is one
  lemma, `ExcessNarrows`, for any capacity, fee and limits. `TypeCorrect` needs
  that a payment never exceeds what the ends own (`BalanceInv`), and
  `SavesWhatItPaid` that a paid task that is not saved is the one in hand
  (`SavedInv`). `NothingLeft` is about a call that nothing disturbs, again with
  `DeltaThreshold >= 2`. `UndisturbedInv` follows the reason why a channel is left
  uneven through the call: a member that has been listed has judged each of its
  channels (`Judged`: a task, or too little in excess), a task that waits has the
  amount its channel needs (`Exact`), and one that is over has evened its channel,
  was cut to the limits or was refused (`Settled`).
* `StreamHandlerProofs`. `Inv` relates the loop, the stream, the message in hand
  and how far each caller is. From it `Releases`, `TakesNothing`,
  `NeverRunsAgain`, and `Implements`: every step of a handler, a dropped message
  of the state monitor among them, is a step of `Subscription` or leaves it alone.
  `TypeCorrect` rests on `CountInv` (nothing is answered or counted that was not
  taken before), `AcceptorWaits` on `WaitInv`: without a `Cancel`, only the end of
  the loop lowers `Running`, so that a `Dispose` that waited for it returns after
  that. The one that set the flag at which another `Dispose` was turned away has
  waited too, or is at work, or has thrown.
* `InterceptorsProofs`, for any overlap of any number of calls. `TypeInv` says at
  which labels each operation can be, `OverlapInv` that calls under way which may
  be in each other's way have been recorded in `raced` and `clashed`. `KeyInv` is
  inductive: no handler has two keys (`OneKey`); what a call has made and not yet
  added is in no other hands (`FreshInv`) and was made for its alias (`HomeInv`); a
  call about to add finds no key unless it is `raced` (`AddInv`); what a call has
  found under a key it is to remove is still there, or nothing is, unless the alias
  is `raced` (`FoundInv`), and a handler with a key is still in front of
  `CancelAllInterceptors`, in its hand or disposed, with the same exception
  (`ClearInv`). From it `NeverLost`. As long as nothing has `clashed`, `QuietInv` holds too: a
  call that cancels has a handler whose alias it found and that is not disposed
  (`CancelInv`), and a disposed handler with a key belongs to a call about to remove
  that key (`DisposedInv`). From it `CancelAlwaysFrees`.
* `BuilderProofs`. `PlaceInv` says at which labels each operation can be, and that
  `Build` is over for good once the network is built. `DestroyInv` adds that the
  containers up to the loop variable have ids, and that `Destroy` leaves those
  before it absent; from it `DestroyLeaves`. `OneEach` is about careful users while
  the task is alive: a node that was shut down has no connection, listed or not
  (`DownInv`, `UniqueInv`), a container that is stopped, and may come back with
  another address, is that of such a node (`StoppedInv`, `AddressInv`), which is why
  `ShutdownByAlias` must take the node out of the pool before it stops the
  container, and the connection in hand is one of the pool's (`ConnectionInv`).
  Steps that leave Docker alone (`Quiet`), or only move connections within the
  pool (`Calm`), are dealt with together.
* `BuildProofs` builds on it, with and without Loop. `TypeInv` adds what the loop
  variables of the channels are at each label, without which `TypeOK`
  (`BuilderTypes`) is not inductive. `BuildDelivers` states `BuiltAsConfigured`: in
  `ConfiguredInv`, `CreatedInv` counts the containers created before the loop
  variable, and `ChannelsInv` the channels opened and given a policy before the
  position of the two nested loops (`Before`), each exactly once. That a second
  `Build` after a failed one does not count channels twice rests on the name of the
  miner: it is taken until a clean-up has removed the containers, and their channels
  with them (`MinerLeft`, `FirstInv`).
  `BuildThrowsForAReason` states `BuildFailsForAReason`, one call at a time:
  without a fault bitcoind runs (`MinerInv`), no address has changed before the
  network is built (`AddressesInv`), nodes that are connected are active (`PeersInv`),
  and by the time a channel is opened the funder is active and has the chain
  (`PairInv`); what is left are the exits the property lists.
* `EncodingsProofs`, for packets, payloads and HMACs of any size and routes of any
  length that fit. `LayersAlwaysNest`: when a hop XORs its stream over the packet
  and the zeros behind it, it has the packet of the next layer where its payload
  and the next HMAC end. What is hard is the end of the packet,
  where the filler has to be what the hops before leave of the zeros they append:
  `EndsWithRemnant` says, for the last bytes of each layer, which hops' streams
  are still on them, by induction from the last layer back. Over a route the
  definitions are recursive functions, whose equations (`TrailingEquations`,
  `RoundsEquations`) come from `Recurrence`, that such a function exists; the
  induction over hops shows that a set of naturals contains 0 and with each
  number the next (`Counting`, from the well-foundedness of `<`).
  `EveryHopAlwaysPeels` is about the decoder, for any number of calls with right
  and wrong secrets, keys and data, and any size `SphinxSize` may make of each
  payload: `PeelInv` says that the blob is the layer of the hop whose turn it is, so
  that `Peel` accepts that hop alone, hands out its payload and assigns the next
  layer, until a payload comes whose size is wrong. Then what `Peel` takes for the
  HMAC are bytes of the payload (`HmacIsPayload`), which is no HMAC of any packet, and
  nobody gets anything more.
  The theorems about `Bech32` are for texts and data of any length.
  `Bech32AlwaysDetects`: the loop of the checksum is linear in its state
  (`XorJoins`), and `RestTells` shows that two states never have one successor,
  because the five bits that are fed back can be told from the lowest bits of the
  result (`GeneratorLow`, a fact about the five constants). Two texts that differ
  in a symbol are in different states after it, and so at the end (`RunsDiffer`).
  `Bech32IsInverse` needs that six symbols have the bits that a checksum has for
  one choice of them only (`ChecksumTells`); that regrouping bits by eight and by
  five is undone by the converse, where the acceptance test of the padding is what
  leaves one text for one meaning (`SquashedBack`, `UnsquashedBack`); and
  that the last separator of a text that `Encode` wrote is the one it wrote, whatever
  the human readable part contains (`SplitIs`).
* `CodecsProofs`, for any base, strings and records. `RecordsAlwaysFramed`: a
  BigSize that stands anywhere in a string is read as the number it encodes
  (`BigSizeReads`) and what is read as a number is its encoding, so that each number
  has one form (`BigSizeIsRead`); a value behind its length follows, with the cast
  of the length (`DelimitedReads`, `DelimitedIsRead`), and so does a record.
  `PayloadsAlwaysRead`: `LaidOut` says where each of several records ends in what was
  written; the loop that reads them is a recursive function over the places of the
  stream, which exists because a record takes a byte at least and ends within the
  stream (`Advances`), and an induction from the end back shows that from the end of record `i` it makes the
  records behind it (`RecordsAreRead`). `HasRead` is the invariant of the loop that
  fills the payload: the records of unknown type so far, in order, and payment data
  exactly if there was a record of it. A payload that the library itself writes,
  whatever other fields it has, is read as what it carries: it has
  two or three records, whose numbers have lost their leading zeros and get them
  back (`TrimmedReads`); whether it is read as a legacy payload is decided by its
  first byte, which is never 0 because its length is not (`NotLegacy`).

Only model-checked: the liveness properties, since temporal reasoning with
fairness is out of the prover's reach, and so is ENABLED (`ActiveIsServed`,
`InactiveIsDropped`, `QuickStartupEnds`, `DisposeStopsMonitor`,
`ConstructorReturns`, the two `CallsEnd`, `EndIsNoticed`, `OperationsEnd`). Of the
others only `SizeOfWhatIsCarried` is without a theorem: every other property of a
passing run has one. The library's induction theorems take an
operator as a parameter, which the prover cannot instantiate; where an induction
over data is needed, a set of naturals is shown to have all of them (`Counting`).

## 6. Not modelled

* Of the builder: the creation and deletion of the Docker network, image pulls,
  the pool that a failed `Build` leaves undisposed, the convenience calls of one
  RPC and the `Add...` extensions; `Build` does nothing for Eclair and CLN nodes.
* Of `Onion`: the two exceptions of `Peel` about which key was given, and
  payloads longer together than the packet (`ConstructOnion` has no check and
  overwrites; `Init` has the sum fit). The packing of short channel ids
  (`LNTools.cs:134-154`); texts with characters outside ASCII in `Bech32`; `PayReq`
  throws `NotImplementedException`.
* Certificates, macaroons, elliptic curves and ciphers (libraries), fire-and-forget
  listeners and `LoopConnection` (no state), logging.
* `LNUnit.Tests/bolt.js`: vendored, minified and unused.
* Memory-model effects finer than one list operation or one assignment.

## 7. Plan

Done, in this order: `NodePool`, `NodePoolProofs`, `Rebalance`,
`RebalanceProofs`, `Subscription`, `StreamHandler`, `StreamHandlerProofs`,
`Interceptors`, `Builder`, `Codecs`, `Onion`, `InterceptorsProofs`,
`BuilderProofs`, `BuildProofs`, `EncodingsProofs`, `Bech32` (split off `Codecs`),
`CodecsProofs`.

What is left is in section 6, and of the hazards those in section 4 without a
property. Of the properties that runs
check, liveness and `SizeOfWhatIsCarried` are without a theorem.
