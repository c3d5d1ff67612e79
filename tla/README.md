# Verification of wallet-platform-mpc-go

TLA+ modules, TLC configurations and TLAPS proofs for the MPC wallet node in
`src/`: the sessions in which several nodes generate a key, sign or reshare, what a
node stores of a wallet, and how a message gets from the network to its handler.
The repository has no tests; the code itself is the reference, and a source
position below is given as `file.go:line`.

## 1. The system

Every node runs the same program (`cmd/node/main.go`). Nodes are connected by libp2p
gossip; each has an HTTP API, a LevelDB and a directory of encrypted key shares. A
request arrives at one node, the *initiator*, which opens a session with the other
parties; the cryptography is the external `tss-lib`.

| Component | State it keeps | Operations | What makes it correct |
|---|---|---|---|
| Session coordination: `tss/coordinator.go`, `keygen.go`, `signing.go` | `pendingSessions` with `ReadyNodes`; per session its status, `startChan`, `outChan`, `endChan`, the TSS party | `InitiateKeygen`/`InitiateSign` (init, prepare, ready, wait, start), six message handlers, the `run` goroutine with its `select` | no party runs the rounds before all have prepared; no round message comes before its session exists; nobody is told of a success that is none; every call and every session ends |
| Session routing: `p2p/message.go` | `sessions` with a `MsgChan` of 100 messages each | `CreateSession`, `SendToSession`, `BroadcastToParties…`, `RegisterHandler` | a message is dropped only if it has no session or its channel is full |
| Session records: `storage/session_repo.go` | one `SessionState` per session in LevelDB | `SaveSession`, `UpdateSessionStatus`, `UpdateSessionError` | a record never claims more than the session did |
| Shares and wallets: `storage/keyshare_repo.go`, `wallet_repo.go`, `wallet/manager.go` | share file, share metadata, wallet record | `SaveKeyShare`, `SaveWallet`, `CreateWallet`, `DeleteWallet` | what is recorded as stored is stored; what was deleted stays deleted |
| Resharing: `tss/resharing.go`, `manager.go:385-458` | session status, TSS party, the same stores | `StartResharing`, `JoinResharing`, `run`, `handleSuccess` | share and wallet record belong to the same resharing; a failed one leaves the old share alone; it completes |
| Message path: `p2p/host.go`, `pubsub.go` | subscriptions, `incomingChan`, `msgChan`, `msgHandlers` | `readLoop` (one goroutine per topic), `handlePubSubMessages`, `handleMessages`, `Stop` | order per topic, at most once, loss only under backlog, a clean stop |
| Node manager and peers: `p2p/node.go`, `host.go:490-520` | node table, peer table, `eventChan` | connection callbacks, `Stop`; the registry functions have no caller | no send on a closed channel; no callback blocks; the peer table lists nobody who has left |
| Discovery: `p2p/discovery.go` | `peerChan`, `foundPeers` | `addPeer` from the mDNS callbacks and the DHT loop, bootstrap, `Stop` | every goroutine ends; no send on the closed `peerChan` |
| Transactions and signatures: `tss/party.go`, `manager.go:196-371` | the result of a signing session | hashing, `r\|\|s\|\|v` encoding and parsing, party ids | the caller and the transaction get the signature that was made, byte for byte |
| HTTP API: `api/server.go` | none | one handler per route | the request context ends with the request |
| LevelDB wrapper, configuration, types | — | single puts and gets; loading; records | — |

**How they interact.** The HTTP handler calls the wallet manager, which calls the
coordinator and then polls `WaitForCompletion`. The coordinator publishes Init, Ready
and Start messages; the other nodes' coordinators handle them in the goroutine of
`handleMessages`, one at a time. A session goroutine takes messages from its
`MsgChan`, hands them to the TSS party and publishes what the party puts into
`outChan`. On success it writes share file, metadata, wallet and session record, with
no transaction, while the HTTP handler may already be answering. The initiator's
session lives under the HTTP request's context, the others' under the node's.

**Hard behaviours.** Goroutines meet in `select`s whose choice is arbitrary; publishes
may be lost and are never repeated; timers (60 s to sign, 300 s to generate, 600 s to
reshare) race late answers; the status `completed` is visible before anything is
stored; files are overwritten in place; a process may die between any two writes, and
nothing recovers sessions after a restart; channels are closed while others still send.
`PROJECT.json` lists each such place as a hazard with the properties that cover it.

## 2. Modules

| Module | Models | Composes / refines |
|---|---|---|
| `SessionBarrier` | abstract: a party's part of a session, which begins only after all have prepared, and ends once | — |
| `Coordinator` | the session protocol for keygen and signing | implements `SessionBarrier` under `phase <- status` |
| `CoordinatorProofs` | its theorems about the barrier | |
| `ContributionProofs` | its theorems about contributions, records, `MsgChan` and `outChan` | extends `CoordinatorProofs` |
| `WalletStore` | what one node stores of a wallet and who writes it | |
| `WalletStoreProofs` | its theorems | |
| `OrderedDelivery` | abstract: lossy, in order per topic, at most once | — |
| `P2PHost` | the message path of one node, start and stop | implements `OrderedDelivery` under `queue <- Queue` (what lies in the channels and goroutines between network and handler, of one topic) |
| `P2PHostProofs` | its theorems | |
| `Peers` | discovery, connections, the peer table and `eventChan` of one node, start and stop | |
| `PeersProofs` | its theorems | |
| `NodeLife` | one process from start to stop | composes `P2PHost` and `Peers`, which share `main`, the context and the crash |
| `NodeLifeProofs` | that it runs both parts, and what can kill it | implements `P2PHost` and `Peers` |
| `Resharing` | resharing and refreshing one wallet's key | |
| `ResharingProofs` | its theorems | |
| `Signatures` | a signature's way from tss-lib to the API's answer and into a transaction | |
| `SignaturesProofs` | its theorems | |
| `MCCoordinator`, `MCWalletStore`, `MCP2PHost`, `MCPeers`, `MCNodeLife`, `MCResharing`, `MCSignatures` | values for the constants | |

Actions carry the names of the functions they translate. Operators whose comment starts
with "Mutant" are altered copies of the definition that follows them. They show what
a plausible bug would look like and which property notices it; no specification uses
them.

### Coordinator

A session is identified with the request that opens it: ids are fresh UUIDs on every
path. `call[r]` is the program counter of the initiator's HTTP goroutine, cut at each
place where another goroutine can see the difference: `Register` (pending entry),
`BroadcastInit`, `PrepareLocal`, `MarkSelfReady`, `waitForReady`, `BroadcastStart`,
`StartLocal`, `WaitForCompletion`. The handlers are one action each, because
`handleMessages` runs them one after the other; the body of a handler never blocks.
The session goroutine is `RunSteps`: `BeginRounds`, `sendMessage`, `handleMessage`,
`handleSuccess`, `handleError` and `UpdateSession`, any enabled alternative of the `select`
being possible. Keygen and signing share these steps; where they differ (`Prepared`) each
has its own operator. The TSS party is abstracted to rounds: it
advances when it has the messages of its round from all other parties, its last
outgoing message and its result become available together, and a repeated message
changes nothing. What a party sends in a round is the constant `Sends`: point-to-point messages
(`"p2p"`), one to each other party, a broadcast (`"cast"`), or both. Each is published on its own and
takes a place of its own in the receiver's `MsgChan` (`message.go:145`); a round is complete with
all of them. `outChan` is what the party has made and the goroutine has not yet
published, by rounds. Network messages are a set: gossip may reorder, lose (`"loss"`) and
redeliver (`"dup"`).

`UpdateSession` is the goroutine's last step and its one attempt at the record. A failing save
(`"save"`) is only logged, and a keygen without a recoverable key (`"result"`) returns before it
(`keygen.go:405`): the record is then `"stale"`, which on disk is `pending`, for ever. `RecoverPublicKey` never
returns an error as it is written today (`party.go:132-142`); the caller's branch is modelled all the same.

Faults are chosen per instance by `Faults`: loss, repetition, failing publishes and
saves, a keyless result, timers, a disconnecting client, a TSS error, and death and restart of a process.

### WalletStore

One node, one wallet: `file` (absent, torn while `os.WriteFile` is at work, whole),
`meta`, `wallet`, `record`; the session goroutine's next write is `saving`, the waiting
`CreateWallet` is `create` (or none on the other parties), and each `DeleteWallet` call has
its own program counter. Write errors are logged and skipped as in the code, also
those of a half-written file. A crash leaves the stores as they are.

`clean` is a history variable: the deletions that began when every write of the session
was done and that have met no error. It is what separates a deletion that must last from
one that a late save may undo.

### P2PHost

`sub`, `reader`, `incoming`, `pump`, `msgChan` are the places a message passes.
`readLoop` offers to `incomingChan` and drops when it is full; `handlePubSubMessages`
blocks on `msgChan`; `handleMessages` looks the handler up in a map that `main` is still
filling (`main = "p2p"` and `"manager"`). The unsynchronised read of that map is a
nondeterministic choice: handler found or not, or the run-time's abort. Stopping cancels the context and closes
`incomingChan`, then `msgChan`; a goroutine whose `select` has both a cancelled context
and a closed channel may choose either, and a send on a closed channel kills the process.

### Peers

`conn[c]` is what libp2p knows of a connection, `told[s][c]` what the subscriber `s` (`P2PHost`
or `NodeManager`) has been told of it. libp2p tells the two subscribers in no order, of
the end of a connection only after both were told of its beginning, and orders nothing
between connections; both sides may open, either may close. `addPeer` runs in the mDNS
callbacks and in the DHT loop (`Finders`): the entry in `foundPeers` is one action, under the lock; the
start of the dialling goroutine and the announcement on `peerChan` are another, after the unlock
(`announce`), so that a stop may come between the two. Bootstrap peers are dialled twice, as in the code (once when
the DHT is set up, once by `Start`). `main` is the stage of start and stop: every close in
`P2PHost.Stop` is a step of its own, `libp2p`'s the last.
`handleDiscoveredPeers` only logs what it takes, so the channels are counters.

### NodeLife

`P2PHost` and `Peers` are instantiated with variables of their own. What one process shares is
composed: `Shutdown` is one step of both, `Stop` goes through the channels in the order of
`host.go:230-250`, the message path runs only after `P2PHost.Start`, and a panic in either ends both.

### Resharing

`StartResharing` runs on one node; `JoinResharing` is translated too, and enabled by the
constant `Joining`, although nothing in the repository calls it: with `Joining = TRUE` the
module says what the code would guarantee once it were called, with `FALSE` what the
program does today. There is no ready/start barrier, so a round message that comes
before the receiver's session is dropped. `share[n]` and `wallet[n]` say of which
resharing the share file and the wallet record of node `n` are. Only new members write;
a leaving member keeps its old file, a new member without a wallet record gets none.

Overwriting the share file is two writes, and on a `Fragile` node each may fail, which is logged and
passed over, and the process may die between any two and come back. `Crash` ends the node's
sessions and their goroutines: what was still to be written is `"lost"` and no session is in its
writes any more. The stores stay; an old member whose share is torn can take
part in no later resharing (`CanTakePart`).
`last` and `spoiled` are history variables: which resharing came last to its writes on a node, and which
had a write that failed or began its own while another was still at it.

`MsgChan` and the party's own store are one set, `got`: a session takes at most one message
per other party and round, and whether the channel's 100 places suffice is a question for `Coordinator`, which has
the kinds of messages. A refresh (`RefreshKeyShares`) is a
request whose old and new parties are the same.

### Signatures

A sequential pipeline with a panic: `handleSuccess` reads tss-lib's byte strings into big integers,
`GetResult` writes the 65 bytes and, separately, each number as text, `ParseResult` and
`WithSignature` (the latter go-ethereum's, external) turn the texts into a transaction's
signature. Numbers, bytes and digits are modelled by what the conversions do: `big.Int.Bytes` and
`Text(16)` drop leading zeros, `copy` into a zeroed buffer restores them,
`append(r.Bytes(), s.Bytes()...)` does not. The base (`Nibble`) and the width are constants;
powers and values are recursive functions, which TLC evaluates and the proofs can reason about.

## 3. What TLC checks

| Run | Instance | Shows |
|---|---|---|
| `coordinator_keygen` | 3 nodes, keygen of 3, a round of point-to-point messages and one of broadcasts, no fault | the barrier, no dropped round message, completion only with everybody's messages, and the barrier opens |
| `coordinator_crash` | 2 nodes, signing, messages repeated, timers, failing saves, each node may die and come back once | the inductive invariants of the barrier and of the contributions, no false success for the caller, records never ahead of sessions, settled sessions stay so, refinement of `SessionBarrier` |
| `coordinator_settle` | 2 nodes, keygen with tss-lib's three rounds (broadcast; both kinds; broadcast), loss, failing publishes, saves, record updates and TSS parties, a keyless result, timers, client gone | `MsgChan` and `outChan` hold at most the messages of two successive rounds; every call answered; every prepared session ends, and its record says how unless its one update failed |
| `coordinator_last_message` | 2 nodes, no fault | **violation** of `AllPartiesComplete`, see findings |
| `walletstore` | one node, two deletions, all faults | metadata and record tell the truth, the share follows the answer, and a deletion begun after the last save lasts unless it logged an error |
| `p2phost` | 2 topics, 4 messages, `incomingChan` of 2, `msgChan` of 1 | order and at-most-once (`OrderedDelivery`), loss only under backlog, accepted messages handled, stop ends every goroutine |
| `peers` | two remote peers, one with two connections of which one may come before the callbacks are registered, two finders, channels of one place, stop at any time | the peer table lists nobody without a connection and misses somebody only after a second connection closed; no callback and no goroutine stays blocked |
| `node_shutdown` | the whole process, one message, one connection | **violation** of `StopDoesNotPanic` |
| `resharing_change` | 3 nodes, one member replaced, 1 round, failing save, keyless result, deadlines | a failed resharing leaves share and wallet alone; success means everybody sent all rounds, and the share gets stored; sessions end |
| `resharing_overlap` | 2 nodes, 2 refreshes of a wallet; on one node writes may fail and the process may die between any two and come back | the last resharing to write, unless its own writes failed or overlapped, never leaves its wallet record beside another share, and leaves both of one resharing unless its process died on the way, also after a death, a failed write or an overlap before it |
| `resharing_alone` | 2 nodes, nobody joins, no fault | **violation** of `ReshareCompletes` |
| `signatures` | digits of one bit, bytes of two digits, numbers of three bytes: every pair (r, s) | the answer is the signature made, in both of its forms; a transaction carries that signature or the call panics, and it panics only where r or s begins with a zero byte |

**Bounds.** Three nodes are the least with two that are not the initiator, so that one
may be ahead of the other; two rounds, so that messages of two rounds lie in one channel. The
three rounds and the message kinds of tss-lib's keygen are in `coordinator_settle`. Where faults multiply the
states, two nodes and one or two rounds remain: the fault is then at the initiator or
at the party, which are the only two roles. Requests are one at a time in
`Coordinator` because sessions share nothing but the handler goroutine; two requests of
one wallet meet in the store, and are modelled there (`WalletStore`, `Resharing`). Each process
dies at most once. No instance has a node that is no party of the session; the theorems admit it. In
`resharing_overlap` one node is fragile: what befalls it depends on the other only through
messages. The channels of `P2PHost` have capacity 1 and 2 instead of 1000, so that
full, empty and in between occur with four messages; those of `Peers` have one place instead
of 100, so that an announcement and an event are dropped. Two connections to one peer are the least with
which the peer table can go wrong. Three bytes of four values are the least in which a number can
have none, one or several leading zero bytes and a text an odd length. In
`coordinator_crash` a session is refused by a failing save; refusal for want of a key share
(`Prepared`) takes the same branch and is covered for all requests by the theorems. No
state constraint is used.

**Deadlock** is not checked (`CHECK_DEADLOCK FALSE`): the system really stops when all
requests have been answered, all sessions settled or the node stopped. What must not
hang is stated as liveness instead.

**Fairness.** `FairSpec` gives each goroutine weak fairness: a goroutine that can run
gets the processor, which the Go scheduler grants, a timer that runs fires, and
gossip delivers what it does not lose. Nothing is fair that depends on a user or on a fault: no
request has to be made, no client to leave, no process to die or return. In `Resharing`
nobody has to join; in `Peers` no peer has to be found, no connection to come or go and no signal to be
sent. libp2p is taken to call its callbacks for every connection sooner or later, as its swarm does.
`coordinator_crash`, `resharing_overlap`, `node_shutdown` and `signatures` check no liveness and state no fairness.

## 4. What TLAPS proves

The theorems hold for any nodes, requests, rounds, capacities and fault sets that
satisfy the named assumptions in the modules, which state only types, nonzero
capacities and rounds, and the shape of a request.

* `CoordinatorProofs`: `TypeCorrect`; `BarrierHolds`, the invariant `BarrierInv`; from it
  `StartAfterAllPrepared`, `RoundMessagesFindSessions`, `Implementation` (refinement of
  `SessionBarrier`) and `SettledSessionsStay`. That a party runs only after all have prepared is
  not inductive alone: a Start in the network, a signal in `startChan` or the
  initiator past `waitForReady` each cause it later. `BarrierInv` says what each stands for (a
  Ready: its sender has prepared; a Start, a round message, a signal: all have) and the proof
  rests on the lemma that preparation is never undone (`PreparationStays`): a
  crash turns it into `killed`, never into `none`.
* `ContributionProofs`: `ContributionHolds`, the invariant `ContributionInv`, which follows a round message
  from its publication to the place where it is used: wherever it lies (`net`, `inbox`, `got`) its
  sender has sent it or died since, a party past a round has everybody's message of it, and
  `ok` was told only then. From it `CompletionIsJoint` and `CallerSuccessHolds`. `RecordHolds` says that a
  record in LevelDB is never ahead of its session, through crashes. `MsgChanSuffices` is about
  instances without repeated messages and without crashes (an assumption of the theorem): each
  message is in exactly one place (`EachOnce`), and those that wait are of
  the receiver's own round or of the next, so a `MsgChan` never holds more than the messages of two
  successive rounds. In tss-lib's keygen (broadcast; both kinds; broadcast) and signing (both kinds, then point to point, then
  broadcasts) that is three of every other party: 100 places are enough for 34 parties whatever the
  number of rounds. `OutChanSuffices` says the same of `outChan`, repeated messages allowed: a party in round k has
  everybody's messages of round k-1, and nobody made those without this party's messages of round k-2, so none
  of these is still in its `outChan`. In signing that is
  2n-1 messages of n parties: 100 places are enough for 50.
* `WalletStoreProofs`: `StoreTypeCorrect`; `StoreHolds`, the invariant `StoreInv` of the order file,
  metadata, wallet, record; from it `MetadataTellsTheTruth` and `CompletedTellsTheTruth`.
  `CleanDeletionHolds` rests on `CleanInv`: a deletion that began after the last save
  removes file, metadata and wallet in turn, and nobody is left who could write them again.
* `P2PHostProofs`: `HostTypeCorrect` (no channel exceeds its capacity, a goroutine holds at most one message) and
  `LossNeedsBacklog` (a serving node loses a message only in front of a full `incomingChan`, never behind it), an
  action property from the type invariant and lemmas about the elements of sequences.
  `DeliveryImplemented` is the refinement of `OrderedDelivery`: mapped by `Queue`, every step of the host is a
  stutter or one abstract `Arrive`, `Lose` or `Deliver`. What needs an invariant (`Placed`) is that a message
  never changes its topic on the way: a `readLoop` holds only messages of its own topic and lets only
  others' pass. The rest is how the selection of a topic distributes over the queues. `NoMessageHandledTwice` is proved over the
  abstract steps (`Once`: what is handled, queued and still to come are disjoint) and so holds of the host.
* `PeersProofs`: `PeersTypeCorrect`; `PeerTableHolds`, whose property is inductive with the types. A peer
  can be missing from the table only next to a connection that closed, because nothing else
  removes it; it is listed only with a connection, because each closing removes it.
* `NodeLifeProofs`: `NodeRunsMessagePath` and `NodeRunsLinks`: every behaviour of the composed process is one of
  `P2PHost` and one of `Peers`. What is proved of the parts therefore holds of the whole, and a
  step of `main` that the composition shares is a step or a stutter of each. What neither part can say alone is
  what kills the process, and when: the invariant `LifeInv` relates the two parts' stages (`StagesAgree`) and gives
  each death its time (`DeathHasCause`): the handler map while handlers are being registered, a channel once `Stop` has
  closed it and those before it (`NodeDiesOfKnownCauses`). So a serving node is killed neither by a message
  nor by a connection (`ServingNodeIsSafe`), and the panics of finding 2 are all `Stop`'s own.
* `ResharingProofs`: `ReshareTypeCorrect`; `ReshareHolds`, the invariant `WritesInv`
  that ties each step of `handleSuccess` to the session's status, the share and the
  wallet record; from it `FailureReplacesNothing` (what replaces a share or a wallet record is of a resharing that
  has completed on this node as a new member, so a failed session and a leaving member write nothing)
  and `RecordAndShareAgree`. For the latter, the last resharing to come to its writes, if unspoiled, is alone at them
  (`LastAlone`): the record is not its own before it has its share on disk, and a death turns its writes
  into `lost`. The property excuses neither earlier deaths and failures nor earlier overlaps. `JointSuccess` rests on
  `JointInv`, the counterpart of `ContributionInv`.
* `SignaturesProofs`: for every base and width, `SignatureBytesExact` (the 65 bytes are r's digits, s's digits and v) and
  `TransactionHolds`: dropping leading zeros on both sides leaves a string of full length only if
  nothing was dropped, so a byte of r never moves into s. `SignatureTypeCorrect` and `AnswerHolds` follow from
  `SignatureInv`, by which every stage holds what was made of the one signature, and from four facts about
  numbers: the digits of a number that fits give it back (`ValueOfDigits`), also without
  leading zeros (`ValueOfTrimmed`), the text of a nonzero number is not empty (`TrimmedLength`), and
  hexadecimal text gives the bytes back (`HexRoundTrip`).

**Induction.** The library's induction theorems take an operator as parameter, which the installed
provers cannot instantiate. `SetInduction` (and `SeqInduction`, on the length of a sequence) states induction
for a *set* instead and follows from the well-foundedness of `<` on the naturals. `OfTopic`, `Power` and
`Value` are recursive functions; that such a function exists is proved by the same induction, so its equations
may be used. No operator of a module with theorems is `RECURSIVE`.

The strengthenings not named in a `.cfg` were checked by TLC before they were proved: `JointInv` on
`resharing_change`, `CleanInv` on `walletstore`, `Placed` on `p2phost`, `SignatureInv` on `signatures`,
`StagesAgree`, `DeathHasCause` and `ServingNodeLives` on the instance of `node_shutdown`.

Only model-checked: all liveness (`CallsReturn`, `PreparedSessionsSettle`, `StartedCompletes`, `CreatedGetsShare`,
`AcceptedGetsHandled`, `StopEndsGoroutines`, `CallbacksReturn`, `SuccessGetsStored`, `SessionsSettle`), which is out of the
prover's reach. Every invariant and every action property of a passing run is a theorem.

## 5. Findings

1. **The last message may stay unsent** (`coordinator_last_message`, `keygen.go:301`). A
   party whose result is ready while its last outgoing message still lies in `outChan`
   may take the result first and return. It completes; the others time out.
2. **Stopping may panic** (`node_shutdown`, `host.go:230`). `Stop` closes `peerChan`, `incomingChan`,
   `eventChan` and `msgChan` without waiting for their senders. For `eventChan` it takes no
   race: the libp2p host is closed last, and closing it calls `NodeManager`'s disconnect callback for every open
   connection, which sends on the closed channel.
3. **Resharing never completes** (`resharing_alone`, `resharing.go:149`). The session id is
   told to nobody and `JoinResharing` has no caller.

Also visible in the models, without a document that promises otherwise:

* Two resharings of one wallet may interleave their writes and leave the wallet record of one
  with the share of the other; the next one that writes alone mends it.
* A death or a failed write in the middle of overwriting the share file leaves it torn; the node is then refused
  as an old member of every later resharing, so only one that takes it in as a new member alone can mend it.
* A share whose write failed is only logged while the session counts as completed.
* Session records stay `pending` for ever after a crash, after a failed update (`keygen.go:446`, `signing.go:426`), and
  after the return at `keygen.go:405`; nobody reads them at start.
* A deleted wallet comes back if the deletion was answered while a save of its keygen was still to
  come; `CleanDeletionLasts` says that nothing else brings it back.
* `SignTransaction` panics when r or s begins with a zero byte (about one call in a hundred), because
  `manager.go:352` joins unpadded bytes; gin's Recovery answers with an error, no wrong transaction is made.
* The peer table misses a connected peer once a second connection to it has closed (`host.go:510`).
* The README's example of a signing answer (`README.md:197-200`) shows a `0x` prefix and `v` 27; the code gives no
  prefix and a `v` of 0 or 1.
* A found peer is dialled once and never again, also when that attempt fails or the connection is lost.

## 6. Not modelled

* The cryptography, libp2p, LevelDB, go-ethereum: external; modelled only as used.
* Code without a caller: direct streams, session topics, `CleanupSession`,
  `CleanupExpiredSessions`, Join messages, `PrepareKeysForSigning`, `GetOriginalIndex`, `BuildSigningPartyIDs`,
  and the node registry (`RegisterNode`, announcements, heartbeats), whose table stays empty, so that
  `nodeStatusLoop` goes over nothing.
* Party ids (`party.go`): the Keccak hash of a node id, sorted by tss-lib; every node computes
  the same list from the same names, so there is no state that could disagree. The model takes a party to be its node.
* Building and hashing of transactions and addresses: go-ethereum's, one call each.
* HTTP API (`server.go`): stateless handlers that bind a request, call the wallet manager and
  write the answer. The life of the request context is in `Coordinator`.
* LevelDB wrapper: single puts and deletes under one lock; each is one atomic write in `WalletStore`.
* Configuration, logging, type declarations: no behaviour of their own.

## 7. Plan

In order of weight; all but the last are done.

1. `Coordinator` with `SessionBarrier` and its proofs.
2. `WalletStore` and its proofs.
3. `P2PHost` with `OrderedDelivery`, and its type and loss proofs.
4. `Resharing` and its proofs.
5. `Peers` and its proofs; `NodeLife`, which composes it with `P2PHost`.
6. `Signatures` and its proofs.
7. `ContributionProofs` and `JointSuccess`: no success without everybody.
8. The refinement of `OrderedDelivery` and the answer of `Signatures` as theorems, with the induction they need.
9. Left: `DeleteWallet` against resharing on one store, that is `WalletStore` with the writes of
   `Resharing`'s `handleSuccess` as a second writer.
