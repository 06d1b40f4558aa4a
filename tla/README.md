# TLA+ models of chops net_ip

This directory holds TLA+ models of the parts of the chops `net_ip` library
that are present in `src/`, together with the test drivers and mocks that
exercise them. It also models the library pieces those tests depend on, from
`spec.md`.

## The system

The source tree contains:

- `src/include/net_ip/component/send_to_all.hpp`: the aggregator. It is a
  mutex-protected `std::vector` of `basic_io_interface` handles, with
  `add_io_interface`, `remove_io_interface`, broadcast `send`, `size` and
  `get_total_output_queue_stats`.
- `src/test/include/net_ip/shared_utility_test.hpp` and
  `src/test/net_ip/detail/shared_utility_test.cpp`: the test utilities.
  - Message construction: `make_variable_len_msg`, `make_cr_lf_text_msg`,
    `make_lf_text_msg`, `make_empty_body_msg` and `make_msg_vec`.
  - Header decoding: `decode_variable_len_msg_hdr` and
    `variable_len_msg_frame`.
  - The message handler `msg_hdlr` and `tcp_start_io`.
  - The mocks `io_handler_mock` and `net_entity_mock`.
- `src/test/net_ip/detail/tcp_acceptor_test.cpp`: the acceptor test.
  Connector threads run `connector_func` over blocking sockets against a
  `tcp_acceptor`, whose callbacks `start_cb` and `shut_cb` start io and
  record the handler count. The main thread waits for all connectors, stops
  the acceptor and checks the results.
- `src/test/net_ip/basic_io_interface_test.cpp`: the handle tests. They cover
  validity, delegation, equality, and ordering inside a `std::multiset`.
- `src/test/utility/repeat_test.cpp`: a counted-loop helper.

The library proper (`basic_io_interface`, `tcp_io`, `tcp_acceptor`, the
output queue, the worker, UDP) is not under `src/`. Where a test depends on
it, its behaviour is taken from `spec.md` §3–§5, and those definitions are
marked `spec_modelled` in `PROJECT.json`.

### How the parts interact

- User threads call `send_to_all`, which holds weak handles.
- Each handle locks to an io handler on every call, or fails if the handler
  is gone.
- The reactor runs each handler's read loop. The loop frames the TCP byte
  stream and calls the message handler with each frame; a false return closes
  the connection. Spec 4.3 says the pending writes drain first. The comment
  of `msg_hdlr` says the echoed empty message may not make it back, so the
  model lets the close either drain or discard them.
- The acceptor creates handlers, reports them through the start callback,
  erases them on close, and cancels the remaining ones on `stop()`.

## Modules

| Module | Models | State | Actions |
|---|---|---|---|
| `SendToAll` | `send_to_all.hpp`, plus the handler lifecycle from the spec | `intfs` (`m_io_intfs`), `mutex` (`m_mutex`), per-thread `pc`/`arg`/`idx`/`tot`; per handler `hstate`, `outq`, `enq` (history of accepted buffers) | `add_io_interface`, `remove_io_interface`; `SendLock`/`SendStep`/`SendUnlock` (one loop element per step); `StatsLock`/`StatsStep`/`StatsUnlock`; handler `StartIo`, `StopIo`, `Destroy`, `WritePump` |
| `TcpIoRead` | the read path: message makers, header decoding, `msg_hdlr`, and the two-phase / read-until framing | `framing`, `sent`, `wire`, `rbuf`, `phase`, `need`, `delivered`, `cnt` (test_counter), `io` | `PeerSend`, `PeerSendEmpty`, `Arrive(k)` (a TCP segment of k bytes), `ReadHeader`, `ReadBody`, `ReadUntil` |
| `TcpAcceptor` | `acceptor_test` with `connector_func`, `start_cb`, `shut_cb`, and the acceptor/handlers from the spec | per connection `conn` (connector pc), `cnt`, `toAcc`/`toConn` (the two directions), `fin`, `hs`, `outq`; `active`, `acc`, `vb`, `startNum`, `shutNum`, `shutErr`, `main`, `crashed` | connector `Connect`, `WriteMsg`, `ReadReply`, `WriteEmpty`, `ReadEmpty`; reactor `Accept`, `HandlerRead`, `HandlerWrite`, `HandlerClose`, `CancelHandler`, `AcceptorStopped`; main `MainStop`, `MainCheck` |
| `IoInterface` | handle validity, `==` and `<`; `start_io`/`stop_io`/`send` through a handle onto `io_handler_mock`; insertion into the test's `std::multiset` | `alive`, `started`, `sendCalled`, `mset`, `last` (last call and its result) | `Insert`, `start_io`, `stop_io`, `send`, `Destroy` |
| `SendToAllSpec` | what `send_to_all` promises (spec §4.8), without vector, mutex or threads | `members` (a set of handles), `cur` (the broadcast in progress), `done`; the handler state as in `SendToAll` | `Add`, `Remove`, `Begin`, `Deliver`, `End`, `HandlerStep` |
| `NetEntityMock` | `net_entity_mock` start/stop and its callback thread | `started`, `thr`, `tpc`, `upc`, `starts`, `log`, `terminated` | `start`, `stop`, `join_thr`, `ThreadCallback` |

Notes on the modules:

- **Data is abstract.**
  - In `SendToAll`, buffers are model values.
  - In `TcpAcceptor`, a message is `"D"` (data) or `"E"` (empty body). That
    bytes frame into such messages is what `TcpIoRead` checks, over real
    byte sequences: bytes 0..255, bodies of `Q` (81), the real header
    encoding and real CR/LF bytes.
- **Loops are split.** A loop that runs while other actors move is split
  into one step per element. This applies to the `send` and stats loops of
  `send_to_all`, and to the connector's loop over `in_msg_set`. Everything
  else in a call is one atomic action, because it runs under `m_mutex` or on
  the single reactor thread.
- **Process termination** is a variable (`terminated`, `crashed`), and
  `Next` stops once it is set.
  - In `send_to_all`, the exception escapes a `noexcept` function.
  - In `connector_func`, a `read` throws in a thread that catches nothing.
  - In `net_entity_mock`, a joinable `std::thread` is move-assigned over.

## Runs

`MC_*` modules instantiate the specifications; the `.cfg` files give the
constants. Each run's purpose and result:

| Run | Config | Expect | Shows |
|---|---|---|---|
| `send_to_all` | `SendToAll.cfg` | pass | Two threads making two calls each, and two handlers: broadcasts are seen in one order by every handler (`BroadcastOrderConsistent`). No removed handler receives a later broadcast (`NoDeliveryAfterRemove`). Every call returns (`CallsReturn`). The aggregator implements `SendToAllSpec` (`ImplementsSendToAllSpec`). |
| `send_to_all_stats` | `SendToAllStats.cfg` | violation | An expired handle in the vector makes `get_total_output_queue_stats` throw out of `noexcept`. |
| `tcp_read` | `TcpIoRead.cfg` | pass | Variable-length and CR/LF framing (the framing is chosen in `Init`). Any segmentation delivers exactly the sent messages (`FramesAreMessages`), including bytes after a delimiter kept for the next frame. Only the empty message stops the handler, and it always does. Every length that the assert of `make_variable_len_msg` admits round-trips through the 16-bit header: 0, 1, 23, 255, 256, 513 and 65534 do; 65535 and 65536 are rejected by the assert. So does the header of every message sent (`HeaderRoundTrip`). The mutant with the assert compiled out (an NDEBUG build) wraps 65536 to 0. |
| `tcp_read_lf` | `TcpIoRead_lf.cfg` | violation | With LF framing, a one-byte body makes a two-byte frame, which `msg_hdlr` takes as end of flow. |
| `acceptor_two_way` | `TcpAcceptor.cfg` | pass | With three connectors and two messages each, in every interleaving: whenever the checks run, the final REQUIREs hold (`TestRequiresHold`), and the test always ends, by its checks or by a connector failure (`TestTerminates`). |
| `acceptor_one_way` | `TcpAcceptorOneWay.cfg` | violation | With reply false, the connector's read-back of the empty message meets end of file. |
| `acceptor_lost_echo` | `TcpAcceptorLostEcho.cfg` | violation | Two-way, one connector: a handler that closes before writing its echo of the empty message leaves the connector's read-back at end of file, and the read throws (`NoConnectorFailure`). |
| `acceptor_start_num` | `TcpAcceptorStartNum.cfg` | violation | `REQUIRE(start_callback.num == num_conns)` fails when a connection closes before the last accept. |
| `io_interface` | `IoInterface.cfg` | pass | `<` is a strict weak ordering with `==` as its equivalence in every liveness state. |
| `io_interface_sorted` | `IoInterfaceSorted.cfg` | violation | A multiset of handles becomes unsorted when a handler dies. |
| `io_interface_start_once` | `IoInterfaceStartOnce.cfg` | violation | A second `start_io` through a valid handle onto `io_handler_mock` returns true; spec 4.5 says only the first call succeeds (`StartIoFirstOnly`). |
| `net_entity_mock` | `NetEntityMock.cfg` | pass | Stop joins the callback thread, so nothing arrives after it returns and a restart never overwrites a joinable thread (`QuietAfterStop`). |

Every property of a passing run has a mutant in `PROJECT.json`: a variant of
a mapped definition that a plausible bug would produce, such as a dropped
lock, an unreleased lock, erasing only the first match, an off-by-one, a
missed end-of-file, an assert compiled out, or a closed handler left in the set. TLC finds the property
violated under each mutant.

### Refinement

`SendToAll` declares `ABS == INSTANCE SendToAllSpec WITH ...` and checks
`ImplementsSendToAllSpec == ABS!Spec` as a PROPERTY of the `send_to_all` run.
The refinement mapping:

- `members` is `Range(intfs)`, the handles in the vector.
- `cur` (`SendingBuf`) is the buffer of the thread that holds `m_mutex` in
  its send loop.
- `done` (`SentBufs`) is the set of buffers whose `send` call has returned.

Under this mapping, `SendLock` is `Begin` and `SendUnlock` is `End`. A
`SendStep` to a started handler is `Deliver`. `add_io_interface` and
`remove_io_interface` are `Add` and `Remove`. Every other aggregator step
(issuing a call, the stats loop, a `SendStep` to a stopped or dead handler)
is a stutter. The check shows two things. A broadcast reaches only handles in
the vector. No add, remove or other broadcast happens inside a send loop,
even though the loop runs element by element while handlers die. The abstract
spec has no fairness: a stats call that terminates the process can stop a
broadcast from ending.

### Bounds

- **`SendToAll`** (about 780k states, under a minute):
  - Two handlers and two threads: the fewest that can disagree on order.
  - `MaxIntfs = 3` lets a handle be stored twice beside another one.
  - `MaxCalls = 2` per thread lets one thread remove while the other
    broadcasts.
- **`TcpIoRead`**:
  - Bodies of one and two bytes, with up to three data messages and the
    empty one.
  - Every split of the stream into segments is explored, so a header, a
    delimiter and the bytes after it can all straddle segments.
  - The header lengths cover both bytes of the 16-bit field.
- **`TcpAcceptor`**:
  - Three connectors with two messages each (15k states): enough for
    connections to open and close in any order relative to each other and
    to `stop()`.
  - The violation runs need only two connectors, and the lost echo needs one.
- **`IoInterface`**: two handlers (three handles, counting the empty one)
  and a multiset of three, the smallest setting in which a death reorders
  stored elements.
- **`NetEntityMock`**: up to twelve start/stop rounds of one user thread.
  Two rounds already show every case; the extra rounds only lengthen the
  callback log.

### Fairness

- **Weak fairness** is assumed only for steps the code's threads take by
  themselves:
  - a thread already inside a `send_to_all` call;
  - the reactor completing reads, writes, accepts and closes;
  - connector threads blocked on a socket that has data;
  - the main thread once all futures are ready.
- **Not assumed:** no fairness is put on a user issuing new calls. A user
  may stop calling.
- **Deadlock checking** is off in every run (`CHECK_DEADLOCK FALSE`). Each
  modelled program legitimately comes to rest: the test ends, or the bounded
  user stops calling. Being stuck too early is what the liveness properties
  (`CallsReturn`, `EndOfFlowStops`, `TestTerminates`) check. `NetEntityMock`
  has no liveness property. Its callback thread is three straight-line calls,
  so under fairness the join would return whatever the code did.

## Findings

Details are in `PROJECT.json` under `findings`.

1. `get_total_output_queue_stats` (`send_to_all.hpp:80`) terminates the
   process when the vector holds a handle whose handler is gone.
2. `msg_hdlr` (`shared_utility_test.hpp:134`) takes a two-byte LF frame (a
   one-byte body) for end of flow.
3. The one-way acceptor tests fail in `connector_func`, whose read-back of
   the empty message (`tcp_acceptor_test.cpp:80`) meets end of file.
4. `REQUIRE(start_callback.num == num_conns)` (`tcp_acceptor_test.cpp:188`)
   is racy.
5. Handle ordering changes when a handler dies, so the spec's "safe to store
   in associative containers" does not hold for sorted containers.
6. `io_handler_mock::start_io` (`shared_utility_test.hpp:206`) always
   returns true, because of comma-operator precedence, so a repeated
   `start_io` succeeds. `basic_io_interface_test` cannot see this: it uses its
   own mock and REQUIREs true for six `start_io` calls in a row.
7. The two-way acceptor tests also depend on the echo of the empty message.
   `msg_hdlr`'s comment (`shared_utility_test.hpp:142`, and lines 17-20)
   says the echo may not arrive. If the handler's close discards it,
   `connector_func`'s read at `tcp_acceptor_test.cpp:80` throws. That makes
   finding 3 possible in every acceptor test, not only the one-way ones.

The repository's own files disagree on `msg_hdlr`, but no model run is
needed to see it.
- `shared_utility_test.cpp:214-218` expects `msg_hdlr` with reply to return
  true on the empty message. The header returns false on any frame of at
  most two bytes, whatever `reply` is.
- `tcp_acceptor_test.cpp` and `shared_utility_test.cpp` construct `msg_hdlr`
  as `msg_hdlr(vb, reply)` and `msg_hdlr(true)`. Neither matches the header's
  `(bool, test_counter&)` constructor.

The models follow the header.

## Not modelled, and the plan

Not modelled:

- **The TCP connector** (connect with retry and backoff), **the UDP handler
  and entity**, and **the worker**. None of their code is under `src/` and no
  test here drives them.
- **The output queue's byte accounting** (spec §4.2 and property 5). The
  queue is modelled only as an ordered sequence.
- **The delimiter framer's buffer bound** (`framing_buffer_overflow`).
- **Write errors.**
- **Read-only accessors** (`size`, `is_io_started`, `get_socket`).
- **`repeat`**: a loop helper with no shared state.

Why the rest stays out: the connector, the UDP handler and entity, the
worker, the output queue's internals, the framer's buffer bound and write
errors are library code outside `src/`. No test under `src/` drives them
except through the acceptor test, which is modelled. A module for any of them
would translate only the spec's prose, and could not be checked against this
repository's code. Everything in `src/` that changes state is an action of a
module:

- every member function of `send_to_all`;
- the test utilities and both mocks;
- the acceptor test's threads and callbacks.

`size()` only reads the vector under the lock, so it is left out of
`SendToAll`.
