# A TLA+ verification of pion/stun

This directory models the STUN library at `src/` in TLA+: its transaction agent,
its client, its message codec, its typed attributes and URIs, and three of its programs.
Small instances are checked with TLC; central results about eight of the parts are proved
with TLAPS for every size.

`PROJECT.json` lists the components, the runs, the mutants that show each property
can fail, the source lines behind every definition, the disagreements found, the
hazards and the theorems.

## 1. Survey of the system

| part | state | operations | what is hard about it |
|---|---|---|---|
| `Agent` (agent.go) | map of id to deadline, `closed`, `handler`, `mux` | `Start`, `StopWithError`, `Process`, `Collect`, `SetHandler`, `Close` | methods race for one registration; handlers run outside `mux`, but inside it in `Close` |
| `Client` (client.go) | map `t` of pooled `clientTransaction`s, `closed`, connection | `Start`, `Do`, `Indicate`, `handleAgentCallback`, `Close`, options | four kinds of goroutine; the client's map and the agent's map are updated separately; structs are recycled |
| retransmission timing | `rto`, `maxAttempts`, `attempt`, deadlines | options, `SetRTO`, `nextTimeout`, ticks | the deadline is only noticed at a tick; `SetRTO` in between |
| `callbackWaitHandler` | `callback`, `processed`, condition variable | `setCallback`, `HandleEvent`, `wait`, pool | lost wake-ups, state left over from an earlier use |
| `Message` (message.go) | `Raw`, `Length`, `Type`, `TransactionID`, `Attributes` | `Build`, `Add`, `Encode`, `Decode`, setters | attribute values are slices of `Raw`; length and padding live in two places |
| MESSAGE-INTEGRITY, FINGERPRINT | none of their own | `AddTo`, `Check` | both change the length in the header while they compute |
| message type | 16 bits | `Value`, `ReadValue` | bits of method and class are interleaved |
| addresses (addr.go, xoraddr.go) | receiver with an `IP` slice | `AddToAs`, `GetFromAs` | the receiver's slice is used again |
| HMAC pool (internal/hmac) | inner and outer hash, pads, `marshaled` | `Acquire`, `Write`, `Sum`, `Reset`, `Put` | reuse across keys and goroutines |
| stun-nat-behaviour | round, listener, channel | `mappingTests`, `filteringTests`, `roundTrip`, `listen` | a network that loses, repeats and delays |
| stun-traversal | addresses, `keepaliveMsg`, `gotPong`, `sentPong`, `quit` | `main`'s select, `listen`, `getPeerAddr` | two programs that must not stop before the other has finished |
| stun-multiplex | socket, pipe, channel | `demultiplex`, `multiplex`, `keepAlive`, `main` | goroutines that block each other at a pipe and an unbuffered channel |
| text, error-code, unknown attributes | byte slices | `AddTo`, `GetFrom` | limits and truncation |
| URI (uri.go), `DialURI` | none | `ParseURI`, `String`, `DialURI` | parsing and printing should be inverse; `ParseURI` calls itself |
| `Dial`, other programs, debug builds, test support | | | mostly calls into other libraries |

The parts interact as follows. A client owns an agent and is its handler: the agent
reports each transaction's end to `handleAgentCallback`, on whatever goroutine caused
it. The collector goroutine calls `Agent.Collect`; the reader decodes packets into a
`Message` and calls `Agent.Process`; users call `Start`, or `Do`, which blocks on a
`callbackWaitHandler`. `MessageIntegrity` takes its hash from the HMAC pool. `DialURI`
makes the connection of a client from what `ParseURI` returns. stun-multiplex puts a pipe
between a client and a socket that also carries other data.

Correctness, per part:

- agent: each registration is ended by exactly one handler call, a time-out only after
  the deadline, nothing is registered after `Close`;
- client: a handler is called at most once and only with events of its own transaction,
  a transaction that was accepted is eventually handled, `Close` returns and afterwards
  nothing is called;
- codec: fields and `Raw` describe the same message after any sequence of calls, and
  checks accept what was signed;
- attributes and URIs: what is read is what was written, for every value;
- programs: what they conclude or report is so, and they end.

## 2. Modules

| module | models | notes |
|---|---|---|
| `Ledger` | the promise | requests are opened and settled at most once, none after shutting |
| `AgentCore` | the agent's map and critical sections | shared by `Agent` and `Client` |
| `Agent`, `AgentProofs` | `Agent` under arbitrary callers | implements `Ledger`, one request per registration |
| `Client`, `ClientProofs` | `Start`, callback, collector, reader, `Close`, also by handlers, over `AgentCore` | implements `Ledger`, one request per call of `Start` |
| `Retransmission` | options and timing of one transaction | discrete time |
| `CallbackWait`, `CallbackWaitProofs` | `Do` and its pooled wait handlers | `stray` records that an event came for a `Start` that had failed |
| `Message` | codec, integrity, fingerprint, `ReadFrom`, `Get`, `ForEach`, `Equal`, `CloneTo`, with slices and arrays | |
| `Attributes`, `AttributesProofs` | values of the text, error-code and unknown attributes | proved, not run |
| `URI`, `URIProofs` | `ParseURI`, `String`, `DialURI` on the parts of a URI | proved, not run |
| `MessageType`, `MessageTypeProofs` | `Value`, `ReadValue` | a module without state, used by `Message` |
| `Address` | `MappedAddress`, `XORMappedAddress` | |
| `HMACPool`, `HMACPoolProofs` | internal/hmac | proved, not run |
| `NatBehaviour` | stun-nat-behaviour; NAT, server and network are external | |
| `Traversal` | two stun-traversal programs; NATs, server, network and users are external | |
| `Multiplex`, `MultiplexProofs` | stun-multiplex; the client is reduced to what `Do` promises | |

`MC*.tla` and `MC*.cfg` give the constants of the instances; `Traversal`, `Multiplex` and
`NatBehaviour` are run as they are. Definitions whose name has an underscore and a suffix
(`Collect_Keeps`, `Pad_Stale`) are faulty variants of the definition before the underscore; no
specification uses them.

**Granularity.** What runs under a mutex without calling out is one step. A handler call, a
connection read or write, and each lock or unlock between which something else can happen, are
steps of their own. In `Client` so are the accesses to the fields of a pooled struct outside
the mutex, where another goroutine may have the struct: a retransmission counts the attempt and
copies the bytes, reads the id, and registers the struct in three steps, and
`putClientTransaction` takes three. What `Start` assigns to a struct it takes from the pool is
one step: it assigns the fields in the order opposite to that in which the others reset and
read them, so that those see and leave the same. In `Client` each goroutine has a stack of
`handleAgentCallback` activations, because a failed write calls `Stop`, which calls the
callback again on the same goroutine. A handler that calls `Close` hands the call to one of the
closers and waits for it, which is what its goroutine does. Calls that return an error without
changing anything are left out of `Agent` and are steps in `Client`, where the caller reacts.

**Data.** A message is its transaction id and a length in `Client`; time there is whether a
deadline has passed. In `Message` a header field is one cell and digests name their input, so
that they are equal exactly when the inputs are. In `Address` a cell is four bytes; of a value
shorter than family and port, the family is what `value[0:2]` finds behind it in `Raw`, or
nothing when the capacity ends there, where the code panics. In `HMACPool` a hash is the
sequence of what was written. In `URI` a raw URI is what is written in it, as far as
`url.Parse`, `SplitHostPort`, `Atoi` and `ParseQuery` tell it apart; of a host that is whether
it begins with a slash and whether it has a colon. In `Traversal` an address is the number of a
mapping.

**Network.** In `Client` the reader may receive an answer to anything that was sent, at
any time and any number of times, or never: loss, duplication, delay and reordering are
all included.

## 3. Runs

| run | shows | states |
|---|---|---|
| agent | two goroutines, two ids, two registrations each: none is lost, time-outs are due, the ledger is kept, and every registration's handler is called | 107,458 |
| client_safety | two users, a retransmission each, one `Close`, maybe by a handler, no write errors while open: own events only, one holder per struct, none stranded, order of `Close`, silence after `Close`, ledger | 544,791 |
| client_faults | one transaction, write errors, two `Close` calls, maybe by handlers, failing collector, owner closing the agent: ledger, the transaction is handled unless something is closed, `Client.Close` returns except where it waits for itself, silence after `Close` but for one case | 194,060 |
| retransmission | linear backoff within one tick, for all options, with `SetRTO`; the request times out | 5,151 |
| callback_wait | `Do` returns after its own callback | 28,532 |
| message | any five calls, other packets and lengths beyond the width of the field included: round trip, zero padding, signature, fingerprint, values that were got stay, all ways of reading agree | 515,972 |
| address | three decodings into one receiver | 58,596 |
| nat | every server, NAT and kind of network: the tests end, and do not conclude wrongly unless packets are duplicated or, for filtering, lost or late | 37,598 |
| traversal | two programs, NATs that filter or change a mapping, a network that loses packets, and faults: success is mutual, without faults a program ends only after success, both succeed without loss and one with it | 323,998 |
| multiplex | server and client, with loss, delay and faults or without: every `Do` ends, everything is echoed, the client ends, transactions fail only for the named reasons | 141,116 |

Two runs end in a counterexample, each the trace of a disagreement between the code and
what its comments say (quoted under "findings" in `PROJECT.json`):

| run | what happens |
|---|---|
| client_mixup | a failed retransmission racing a late answer calls another transaction's handler |
| client_late_call | the handler is called after `Start` returned an error |

**What the passing runs leave out.** A property that is known to fail in some situation
is checked outside it, so that the run shows it fails for no other reason:

- Write errors with more than one transaction (client_mixup); `client_safety` has none,
  `client_faults` has one transaction. What `OneHolder`, `OwnEventOnly` and `NoneStranded` say
  is therefore said of connections whose writes succeed until they are closed.
- A handler called after `Close` has returned. When the write of a `Start` fails after the
  collector has registered the transaction again, `Stop` takes it from the agent and the
  callback from the map, on the user's goroutine; `Close` may set `closed`, and return, before
  that callback calls the handler. `Close` waits for collector and reader, not for users.
  `NoCallbackAfterClose` names this call, of a `Start` that is about to return an error, and
  `client_faults`, where it happens, shows that there is no other.
- Using an id again while the first transaction with it may be running (`ReuseIDs`).
  `c.delete(id)` on a failing path of a retransmission then removes the new transaction's
  entry, and `OneHolder` fails.
- An event for a `Start` that had returned an error (client_late_call). `Do` has put its
  wait handler back by then. The next `Do` to take it may be woken by that event, and
  its own event then finds no callback and panics. The properties of `CallbackWait` say
  what holds until the first such event, and that nothing else leads to the panic.
- A message longer than the pooled buffer is retransmitted cut off at the buffer's
  capacity; `RetransmitsWhole` allows exactly this.
- `Client.Close` sets `closed` before it closes the agent, so the callback drops the
  `ErrAgentClosed` events and handlers still pending are never called, although
  client.go:302 says "If transaction is succeed or failed, f will be called" and
  client.go:583 that `Do` "waits until callback is called". `HandledUnlessClosed` asks for
  the call only until then.
- `Agent.Close` calls the handler with `mux` locked, although agent.go:32 says "all calls are
  goroutine-safe". An owner that closes an agent given by `WithAgent` waits for itself when
  the client's callback comes back to the agent. The model has such owners; nothing is claimed
  of their `Close`, and `CloseReturns` leaves a `Client.Close` beside one of them out.
- A handler that calls `Client.Close` on the collector's or the reader's goroutine waits for
  that goroutine; `CloseReturns` names this case. On a user's goroutine it returns.
- When the collector's `Close` fails, `Client.Close` returns with the agent and the
  connection open and a second `Close` is refused. `client_faults` includes the failure.
- `WithNoRetransmit` alone leaves the default RTO: `NewClient` presets it, so the test for
  zero never holds. `Retransmission` has the option as the code has it.
- `Encode` of a message that has lost all its attributes writes the old length. In
  `Message` the header of such a message counts as out of date (`header`).
- A signature or fingerprint added while `Raw` holds bytes after the message covers them;
  the two properties ask for messages signed without such bytes (`Exact`).
- Nothing in `Add` stops a message from growing past its 16-bit length. Such a message
  (`Overlong`) keeps its fields but its `Raw` is not expected to decode.
- `Equal` distinguishes a message without attributes whose slice is nil from one whose slice
  is empty, and does not count how often an attribute occurs; `ReadersAgree` leaves the
  first out.
- In stun-multiplex, application data that arrives before the first answer keeps
  `demultiplex` from passing that answer on, until the transaction fails and the program
  panics. `FailsOnlyBehindData` names this case and says that without loss and delay
  transactions fail in no other. The program also panics when reading or writing the socket
  fails, when the first answer has no XOR-MAPPED-ADDRESS and when the peer's address does not
  resolve; these are steps of the model (`Fault`) that may happen on networks with "faults".
- stun-traversal panics on a failed send, on a message it does not know and on an address that
  does not resolve, and returns when a read fails. On networks with "faults" these happen at any
  time, and `EndsAfterSuccess` and `ProgramsSucceed` leave those out; `SuccessIsMutual` holds
  there too. Without faults one panic remains: a tick of `keepalive` that meets the connection
  `quit` has closed, after success; `EndsAfterSuccess` counts it as an end. After a mapping has
  changed, the user's line may go to a `getPeerAddr` nobody listens to, and nothing is
  promised about success.
- `roundTrip` of stun-nat-behaviour takes any message for the answer to its request, so
  `ConclusionIsRight` leaves out networks that duplicate packets. Silence counts as filtering,
  so with loss or delay the filtering found may be stricter than it is. Without a NAT the
  program does not say "(no NAT)" (main.go:113): it compares the mapped address with that of a
  socket bound to 0.0.0.0, and goes on to "endpoint independent". A server that leaves
  XOR-MAPPED-ADDRESS out of a later answer makes it panic.
- No value in `message` is so long that the length field of its own attribute would wrap.

**Bounds.** Two ids and two structs are the least with which events and structs can be mixed
up; `MaxAttempts = 1` has a first write, a retransmission and a final time-out. In `agent`,
`Start` and `SetHandler` are single steps of any caller, so two goroutines inside `Stop`,
`Process`, `Collect` or `Close` already race with a third. In `client_safety` one message fits
the buffer of two cells and one does not. In `message`, capacity 12 makes `Raw` move to a new
array on some calls and not on others, and values of 0, 1 and 4 cells cover no, some and exact
padding. `retransmission` has a collector period of 2 and RTOs that are multiples of it and
not, and 0. `address` decodes into receivers whose slice is empty, too short and long enough.
In `traversal` each program may be told two addresses, the least with which a stale one exists.
`multiplex` has two retransmissions, three calls of `Do` and three packets, so that data is
ahead of, between and behind answers. In `message` the length field wraps within `MaxAttrs`
attributes. Deadlock is checked in `traversal` and `multiplex`, whose end is a step of its own.
Elsewhere it is not: every other run ends where its bounds on calls, time or rounds do, and a
wait that never ends shows in the liveness properties. Symmetry (`Symm`, of users with users
and structs with structs) is used only where no liveness is checked.

**Fairness.** Goroutines that can run do (weak fairness per goroutine, as the Go scheduler
gives), time passes and the ticker ticks. `Agent` has strong fairness of `Collect`, because a
collection can be disabled for a while by another holder of `mux` and is attempted at every
tick. A blocked read ends only when the connection is closed. No fairness is assumed of users
or the network, and in `CallbackWait` the client's promise to call a handler is fairness of
`HandleEvent`; the client keeps it while it is open (`HandledUnlessClosed`), and a `Do` that
waits when it is closed waits for ever. In `NatBehaviour` packets reach the listener only on a network without delay,
where the time-out is later than the answer. In `Traversal` timers fire, goroutines run, users
type, a read of a closed connection fails, and a packet that is sent again and again arrives in
the end (strong fairness of reading it): the programs send at every tick. In `Multiplex` a
request times out while its answer is under way only on a network with delay, and a greeting
that is not lost is echoed by the peer; other data, signals and faults have no fairness.

## 4. Proofs

Every theorem holds for all values of the constants that satisfy the named assumptions of
the module it is about.

**`AgentProofs`**, for any sets of ids, goroutines, handlers and deadlines:

- `Invariance`: `Spec => []IInv`;
- `TypeCorrect`: `[]TypeOK`, including that no nil handler is called;
- `NothingLost`, `EndedOnce`: `[]NotLost` and `[]NotTwice`;
- `TimeoutsAreDue`: `TimeoutOnlyWhenDue`;
- `Refinement`: `ImplementsLedger`, where a registration is settled when its handler calls,
  which the model counts, are one, and two are no status of the ledger.

The assumptions are those named in `AgentCore` and `Agent`: `Absent` is no deadline, `Free`
no goroutine, `NilHandler` no handler, deadlines are numbers.

`NotLost` and `NotTwice` are not inductive. `Close` holds `mux` while it empties its list
of events, with the registrations still in the map; whether a registered id is waiting or
being ended depends on who holds `mux`. `IInv` therefore adds that an idle goroutine owes
nothing, that only registrations that were made are owed or delivered and none has more than
one call, that a registered id's latest registration is not delivered while nobody closes,
that `mux` is held exactly by the goroutine in `Close`, that this goroutine owes or has
delivered every registered id, and that a closed agent's map is empty. Each action is then one step of the proof.

**`ClientProofs`**, for any users, closers and owners, which are disjoint
(`ThreadAssumption`), and any ids, structs, message lengths and numbers of failures:

- `ClosesInOrder`: `[]CloseOrder`. The invariant `CloseInv` adds that the goroutines are
  at places of their own kind, that at most one closer is past the test of `closed`
  (`OnePasses`), and that the connection is as `Close` leaves it from the step after closing
  it (`ConnDone`). A handler that closes hands its call to a closer, so it is covered.
- `WritesWhole`: `[]OneHolder => []RetransmitsWhole`, with write errors, reused ids and failing
  collectors. The premise is needed: a struct with two holders may be recycled between the
  copying of its bytes and the reading of its id, and the write then has neither message. The
  invariant `SizeInv` says who may rely on a struct holding the message of its id: the map, a
  `Start` about to register it and a retransmission up to its own registration; once this one
  has read bytes and id it carries them itself. Each step that resets or refills a struct
  then has to show that nobody else holds it (`PutterAlone`, `PooledAlone`).

**`CallbackWaitProofs`**, for any users, wait handlers and number of calls: `TypeCorrect`,
`CallbackFound` (`CallbackIsSet`), `CallbackIsOwn` (`OwnCallback`) and `WaitsForCallback`
(`ReturnsAfterCallback`). The invariant adds that a struct in use is used by one call
(`Apart`), that each pending event belongs to a call that waits for it (`Owed`) and that
`processed` is only set for a call that waits and whose callback has run (`Flagged`). The last
two hold until the first event for a `Start` that had failed.

**`MultiplexProofs`**, for any bounds: `TypeCorrect` and `FailsBehindData`
(`FailsOnlyBehindData`). The invariant adds where the current request is (`InFlight`): without
loss and delay it or its answer is always in the pipe, in `multiplex`, in the socket or in
`demultiplex`, so that a time-out finds it blocked.

**`MessageTypeProofs`** proves about `Value` and `ReadValue`, for every method, class and
16-bit field: the bits are where the figure in message.go has them (`Layout`), reading
gives back what was set (`ReadsWhatWasSet`), and setting gives back the lower 14 bits of
what was read (`WritesWhatWasRead`). The argument splits a method into its parts A, B and
D and the class into two bits; every mask and shift then is arithmetic on a sum of parts
in disjoint positions.

**`AttributesProofs`**: an error code comes back with its reason, modulo 25600
(`ErrorCodeRoundTrip`), every code with a default reason comes back as it is
(`DefaultCodesRoundTrip`), lists of unknown attributes of any length come back
(`UnknownRoundTrip`), and a text that is accepted is written as it is (`TextLimits`).

**`URIProofs`**: `ParseURI` calls itself a second time exactly when more than a port follows a
bracketed host, and then without end (`ParseEnds`); unless one of its calls fails, `DialURI`
returns a client for every URI that `ParseURI` returns, with the network of its protocol and
TLS or DTLS exactly for the secure schemes (`DialSupportsParsed`); parsing what `String` writes
gives the same URI, except for a host such as `/foo` in `stun:[/foo]:80`, which is written
without its brackets, read as a path, and refused (`StringRoundTrip`).

**`HMACPoolProofs`** proves `PoolCorrect`, `Spec => [](SumIsHMAC /\ OneUser)`, for any
goroutines, keys, states and number of writes, and for hashes that can and that cannot be
marshalled. It assumes nothing of the constants. `SumIsHMAC` is not inductive: the
invariant says of a state in use that its inner hash holds the padded key followed by the
text, and that its pads are those of the key or, once `Reset` has marshalled them, the
states of hashes that hold them.

Proved and not also run: `TypeOK` of `Agent`, `CallbackWait` and `Multiplex`, `NotTwice`,
`OwnCallback`, `RetransmitsWhole`, and the four modules without a run.

Only model-checked: the client's handling of events and structs, timing, the codec,
addresses, stun-nat-behaviour and stun-traversal; liveness, which TLAPS cannot handle under
fairness; and what recursive functions compute (`WriteAttributes`, `DecodeAttrs`), which
would need induction over data.

Comments the proofs and models disagree with, beside the findings: textattrs.go:114 says "If
maxLen is less than 0, no check is performed", but `CheckOverflow` then refuses every value
(second part of `TextLimits`); textattrs.go:125 says that `GetFromAs` "appends its value to
reseted v", but `v` becomes a slice of the message; uattrs.go:29 says "type size is 16 bit",
but an entry has four bytes.

## 5. Not modelled

- `Indicate` (it only checks and writes) and handlers that start transactions.
- `WithNoConnClose` as a run: `CloseConn` is a constant of `Client` and `ClosesInOrder` holds
  for both values, but without closing the connection nothing ends the reader's `Read`, and
  `Close` waits as long as that.
- `IsMessage`, `WriteTo`, `MarshalBinary`, `GobEncode` and `String` of a message: they test or
  copy `Raw`. Framing on stream connections.
- `Dial`, the sockets behind `DialURI` and the finalizer: calls into network libraries and a
  last `Close`. When `dtls.Client` fails, `DialURI` does not close the socket under it.
- stun-bench, stun-client, stun-decode, e2e: straight-line use of the library.
- What stun-multiplex does before socket, pipe and client exist, and errors of its pipe, which
  nobody closes.
- Errors' texts, logging, debug builds, test support.

## 6. Plan

1. Handlers that call `Start`; ids used again (`ReuseIDs`) with a statement of what still holds.
2. Framing of messages on stream connections.
3. Proofs: `LinearBackoff`, and the client's ledger without write errors.
