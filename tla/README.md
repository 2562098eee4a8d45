# Verification of the MirageOS libraries

This directory holds TLA+ models of the concurrent and stateful code in this
repository, the TLC configurations that check them on small instances, and
proofs that TLAPS checks for every value of the constants.

The repository is a duniverse: one tree with MirageOS's own libraries and all
the libraries they depend on, in OCaml and C. The project is about the code with
state, concurrency or algorithms of its own. It has three subjects:

- **TCP** in OCaml: the connection of `ocaml_modules/tcpip/src/tcp`;
- **Lwt's system threads** in C and OCaml: blocking calls on a pool of threads and
  the notifications by which they report, `ocaml_modules/lwt/src/unix`;
- **RE2** in C++: `ocaml_modules/re2/src/re2_c/libre2/re2`, from the parser of
  patterns through syntax trees to programs, the four engines, the cache of the DFA that threads share, `Match`,
  and the filter over many expressions.

In the sections on TCP, paths are relative to its directory.

## The system

### TCP

A TCP connection (a *pcb*) is a record of components that communicate through
`Lwt_mvar` mailboxes and three long-running Lwt threads. Lwt is cooperative: a
thread runs until it meets a promise that is pending, so the interleavings are
those of the points where a promise may be pending (a put into a full mailbox,
a take from an empty one, a full buffer, the network device, a timer).

    network -> Flow.input -> Segment.Rx.input -> rx_data -> Flow.Rx.thread -> User_buffer.Rx -> read
                     |                                        |
                  tx_ack                                  Ack.Immediate
                     |                                        |
                     v                                     send_ack
               Segment.Tx.rto_t -> tx_wnd_update              |
                     |                 |                      v
              retransmission      Wnd.thread            Flow.Tx.thread -> network
                                       |                      ^
                                       v                      |
           write -> User_buffer.Tx -> Segment.Tx.output -> rx_ack

### Lwt's system threads

    run_job_aux -> start_job -> (none)   the call itself
                             -> (detach) pool_queue -> worker_loop -> execute_job
                             -> (switch) altstack_worker: the call on another stack,
                                         and a worker goes on with the OCaml code
    execute_job -> send_notification -> eventfd or pipe -> recv_notifications -> result, free
    run_job_aux -> pause -> check_job -> result, free

OCaml code runs on one thread at a time, `main_thread`, which changes hands with
the switch method. Two mutexes (pool, notifications), one for each job, a
condition variable, and counts that `start_job` reads with no mutex held.

### RE2

    Parse -> FactorAlternation -> RequiredPrefix -> Simplify -> Compile -> Prog (forwards, backwards)
    Match -> DFA forwards -> DFA backwards -> OnePass | BitState | NFA -> groups
               |  out of memory  |
               +-----------------+----------> OnePass | BitState | NFA
    FilteredRE2: Prefilter of each expression -> PrefilterTree -> Match of those let through

An RE2 object is shared by threads: programs are constant, the cache of the DFA
is not. It is filled while searches run, without a lock for arrows that are
there, and emptied when its memory is used up.

### Inventory

| Component | State | Operations | What is hard | What makes it correct |
|---|---|---|---|---|
| Sequence numbers (`sequence.ml`) | none | comparisons and sums on int32 | wrap-around; two different orders | the two orders agree on what is in the window |
| `Lwt_mvar` (lwt) | contents, blocked writers, blocked reader | put, take | writers come and go in queue order | no value is lost, repeated or overtaken |
| Reassembly (`segment.ml`, Rx) | the set of waiting segments | input: insert, walk, pass on; reset; challenge ACK | reordering, duplicates, overlaps, FIN; concurrent inputs blocked on rx_data | the payloads passed on are the peer's stream; every byte advances rx_nxt once; the FIN is told |
| Application buffer (`user_buffer.ml`, Rx) | queue, size, blocked writers and readers | add_r, take_l, cancel | two writers, wake-up by size | bounded; never stalls |
| Acknowledgement (`ack.ml`, Immediate; `flow.ml`, Tx.thread) | pushpending, send_ack | receive, pushack, transmit | ACKs that leave with data race requests for ACKs | every advance is acknowledged |
| Window (`window.ml`) | rx_nxt, rx_nxt_inseq, rx_wnd; tx_nxt, snd_una, cwnd | valid, advance, set | two receive pointers, advanced at different times | the difference is what is on its way |
| Transmission (`segment.ml`, Tx; `user_buffer.ml`, Tx; `tcptimer.ml`) | unacknowledged segments, buffer, waiters, timer | write, output, ACK, timeout, fast retransmit | retransmission of the right bytes, wake-ups, a closed window | what is sent under a sequence number never changes; writers get on |
| State machine (`state.ml`) | the RFC 793 state | tick, two timers | timers that race segments | every connection is removed exactly once |
| Connection tables (`flow.ml`) | listens, connects, channels | SYN, SYN-ACK, ACK, RST, connect, timers, clearpcb | duplicate SYNs, late timers | an entry is removed only by its own connection |
| Keepalive (`keepalive.ml`) | probes sent, timer | refresh, probe, close | fires at any moment | data before the end of the stream |
| Notifications (`lwt_unix_stubs.c`) | buffer of ids, its size, descriptor | send, recv, fork | sends coalesce; recv gives up the mutex half way; signal handlers send | an id in the buffer has a wake-up |
| Job pool (`lwt_unix_stubs.c`, `lwt_unix.cppo.ml`) | queue, threads, counts, jobs, checkpoints | start_job, worker_loop, execute_job, altstack_worker, check_job | three methods, unlocked reads, main thread changes hands, who frees a job | every job runs once, is freed once, by nobody early |
| DFA cache (`dfa.cc`) | states, arrows, start states, budget; two locks | search, analysis, reset, restore | lock-free reads, reset while others search, memory that ends | a search finds what it would find alone |
| Parser, printer (`parse.cc`, `tostring.cc`) | a stack, flags, a count of groups | one operation per token | flags that end with their group, literals joined late, alternatives merged early | the tree means what the pattern says |
| Factoring, simplification (`parse.cc`, `simplify.cc`, `regexp.cc`) | none | rewriting of trees | the order of alternatives | same matches, same preferences |
| Compiler, engines (`compile.cc`, `prog.cc`, `nfa.cc`, `bitstate.cc`, `onepass.cc`, `dfa.cc`) | programs | compile, search | priority encoded four times; shortcuts | all engines agree |
| `RE2::Match` (`re2.cc`) | one call | refusal, DFA, DFA back, groups | fallbacks, limits, anchors, prefixes | leftmost, and first or longest |
| Prefilter, `FilteredRE2` (`prefilter*.cc`, `filtered_re2.cc`) | formulas, a tree, counts | Add, Compile, FirstMatch, AllMatches | simplified sets, pruning | no match is lost |
| IPv4 fragments (`tcpip/src/ipv4/fragments.ml`) | LRU cache of partial datagrams | process | order, overlap, limits | a datagram is rebuilt from its own bytes |
| Shared-memory rings (`shared-memory-ring`) | shared and private indices, event indices, waiters | push, poll, ack | two domains, wake-up suppression, index width | no request lost, no wake-up lost |
| Vchan (`vchan/lib/endpoint.ml`) | a shared page of two rings | read, write, close | two domains, notification bits, close | the byte stream survives a close |
| Event channels (`xen-evtchn`) | a counter per port | after, wake | an event between two calls | no event lost |

Also in the tree, and not modelled: `ndpv6.ml`, `mirage-channel`, the xenstore
client, TLS, DNS, HTTP, 9P, the `mirage` tool, ciphers, the stubs of system
calls, RE2's lexer, its Unicode tables and `RE2::Set`, and the vendored
libraries of other projects.

## Modules

| Module | Models |
|---|---|
| `Sequence` | `sequence.ml` |
| `LwtMvar` | `lwt/src/core/lwt_mvar.ml`, for mailboxes with one reading thread |
| `TcpReceive` | the receiving half of an open connection: `Segment.Rx`, `Flow.Rx.thread`, `Ack.Immediate`, `Flow.Tx.thread`, `User_buffer.Rx`, the receive fields of `Window`, keepalive's `Close` |
| `ByteStream` | abstract: what a reader of a connection is promised |
| `MCTcpReceive` | instances for TLC |
| `TcpState` | `state.ml`: `State.tick`, as tables of moves |
| `TcpTransmit` | the transmitting half of an open connection and its closing: `Segment.Tx`, `User_buffer.Tx`, the transmit fields of `Window`, `Tcptimer`, `Flow.Wnd.thread`, `Flow.write`, `Flow.close`, the two timers of `State` |
| `ByteSource` | abstract: what goes out of the bytes that are written to a connection |
| `MCTcpTransmit` | instances for TLC |
| `LwtNotify` | the notification buffer of `lwt_unix_stubs.c`, as operations for `LwtJobs` to compose |
| `LwtJobs` | the job pool: `start_job`, `worker_loop`, `execute_job`, `altstack_worker`, `check_job`, signals, `run_job_aux`, `handle_notifications`, fork; extends `LwtNotify` |
| `MCLwtJobs` | instances, and a program that forks |
| `ReDfaCache` | `dfa.cc` as a cache shared by threads, over an automaton given as a constant |
| `MCReDfaCache` | an automaton and searches for it |
| `ReSyntax` | syntax trees, `FactorAlternation`, `Simplify`, `RequiredPrefix`; two reference meanings of an expression |
| `ReParse` | `parse.cc`: the stack of the parser; `tostring.cc`; the meaning of a pattern by its grammar |
| `ReProg` | `compile.cc` and the optimizer and byte classes of `prog.cc`, in Latin-1 |
| `ReEngines` | `nfa.cc`, `bitstate.cc`, `onepass.cc` |
| `ReDfa` | `dfa.cc` as a function of what it reads, and `PossibleMatchRange` |
| `ReMatch` | `re2.cc`: `RE2::Init`, `Match`, `PossibleMatchRange`, over the four engines; parses with `ReParse` |
| `RePrefilter` | `prefilter.cc` and `prefilter_tree.cc` |
| `FilteredRE2` | `filtered_re2.cc`, over `ReMatch` and `RePrefilter` |
| `MCReMatch` | patterns, texts and limits for TLC |
| `NaturalSets` | the least element of a set of naturals, induction with a set, and the functions that loops over numbers and over sets define |
| `LwtMvarProofs`, `TcpReceiveProofs`, `TcpDeliverProofs`, `TcpTransmitProofs`, `TcpStreamProofs`, `LwtJobsProofs`, `ReDfaCacheProofs` | lemmas and theorems |

### Sequence numbers

A model keeps the unbounded number a sequence number stands for and compares it
through `Wrap`, the value its int32 holds. `Lt`, `Between` and the others are the
sign of the wrapped difference (`sequence.ml:23-35`); `Compare` is
`Int32.compare`, the order of the two values (`sequence.ml:49`). Both are
translated, because the code uses both: the window check goes by the first, the
reassembly set and its walk by the second. `HalfRange` is 2^31 in the code, a
parameter here.

### TcpReceive

One variable for each mutable field or mailbox (listed in the module), one
action for each run of a thread from one possibly pending promise to the next.
Where the code would go on at once because a promise happens to be resolved, the
model lets other threads in between: a superset of the code's interleavings.

| Action | Code |
|---|---|
| `InputOk`, `InputChallenge`, `InputReset` | the branches of `Segment.Rx.input`, from `Flow.input` |
| `PutEof` | the rest of an input whose put, or whose alert to the transmit side, has returned |
| `RxData`, `RxQueue`, `RxLoop`, `RxEof` | `Flow.Rx.thread` |
| `SendEmptyAck`, `EmptyAckSent`, `Notify` | `Flow.Tx.thread` |
| `Output`, `OutputSent`, `Retransmit` | the other transmissions, each of which carries `rx_nxt` |
| `ReadWaits`, `ReadTakes`, `CancelRead` | `User_buffer.Rx.take_l` and its `on_cancel` |
| `KeepaliveClose` | `keepalive_cb` with `` `Close`` |

A payload is its place in the peer's stream, `[seq, len]`, so what the
application reads says which bytes it got. The walk of `Segment.Rx.input` over
the ordered set is stated declaratively, by `IsReady`, `Waiting` and `Advances`;
`Walk` is the code's fold, one `WalkStep` for each segment, and `InputIsWalk` says
that the two agree in every reachable state, for every segment that may come next. The peer sends
slices of one stream (`PeerAssumption`) as often and in any order it likes.

### TcpTransmit

The application's threads, `Flow.Wnd.thread` and `Segment.Tx.rto_t` all run
`Segment.Tx.output` or wait for each other. `pc` says where each thread is:
`waiting` in `User_buffer.Tx.writers`, `woken` and not yet run, `direct`,
`clearing` or `fin` while the device takes a segment it has sent.

| Action | Code |
|---|---|
| `Write`, `WriteWaits`, `WriteFails` | one turn of `Flow.writefn`, with all of `User_buffer.Tx.write` or `write_nodelay` up to the transmission |
| `CloseWaits`, `CloseSends` | `Flow.Tx.close` with `wait_for_flushed`: the tick and the FIN are one step, as in the code |
| `OutputReturns` | the device has taken a segment: `output` returns, and `clear_buffer` goes round its loop |
| `InputAck`, `InputReset`, `InputFin` | what an incoming segment does to this half: the tick, `ack_seq` and `ack_win`, the put into `tx_ack` |
| `RtoAck` | one turn of `tx_ack_t`: `clearsegs`, `Window.tx_ack`, duplicate ACKs and fast retransmission, or `reset_seq`; then the put into `tx_wnd_update` |
| `WndFree`, `WndReset` | one turn of `Flow.Wnd.thread`: `User_buffer.Tx.free` or `reset`, with `inform_app` |
| `TimerStops`, `TimerMoves`, `TimerRexmits`, `TimerGivesUp` | the outcomes of `ontimer` |
| `Finwait2timer`, `Timewait` | the timers of `state.ml` |

Data is its place in the stream, `[pos, len]`, kept apart from the sequence
number it is sent under, so that the two can be compared: `wire` is the last
segment transmitted, and `WireAligned` says that its bytes belong under its
number. The loops of `clear_buffer` and `clearsegs` are stated by the number of
elements they take; `ClearSegsIsLoop` compares the second with the loop
(`ClearLoop`). How
long a timer runs is not modelled: it may expire at any moment it runs, so the
measurement of round trips (`rto`, `srtt`) has nothing to decide. Sequence
numbers are not wrapped: this half compares them by their difference only.

`ByteSource` is the promise, without buffer, window, threads or timers: how many bytes
are taken, sent and acknowledged, whether the end of the stream has been sent or the
connection reset, and what was last on the line. New bytes go out under their place
in the stream, after all before them; the end only behind everything that was taken;
nothing new after the end; and what is repeated begins where the acknowledgement
ends. `ImplementsByteSource` maps it: `taken` is `written`, `sent` is `tx_nxt` less the
number of the FIN, `acked` is `snd_una`, `finished` is `FinSent`, `line` is `wire`. After a reset
the code still lets a close send its FIN with data unsent (see `WireAligned`), and
`Finish` says so.

### What the models show of closing

Two paths of `state.ml` are as the tables of `TcpState` say, and lead to
connections that are never removed from the table of channels: `Closing` moves
to `Time_wait` without starting the timer that would end it (line 154; compare
line 152), and `ontimer` does not retransmit in `Closing` (`segment.ml:283-284`),
so a FIN lost in a simultaneous close is not repeated. Nothing in the repository
promises otherwise; the hazards list both.

### LwtNotify and LwtJobs

A step is what is done while `pool_mutex` or `notification_mutex` is held, or a
read or write that is not under one. A job has its own mutex, which is modelled
(`mutex`), because `start_job` looks at the job's state without it and then
waits for it before the job is freed. `thr` is the place of each system thread in
`worker_loop`, `execute_job` or `altstack_worker`; `ml` the place of the OCaml code in
`start_job` or `recv_notifications`, on whichever thread is `main_thread`.

| Action | Code |
|---|---|
| `StartJob`, `Sync`, `DetachLaunch`, `DetachQueue`, `SwitchLaunch`, `Switch`, `LaunchFails`, `Started`, `Join` | `lwt_unix_start_job`, in its order, with `run_job_aux` around it |
| `Wait`, `Spurious`, `BecomeMain`, `Take` | `worker_loop`; `pthread_cond_wait` may return without a signal |
| `ExecBegin`, `MarkDone`, `MarkEnd`, `Notify` | `execute_job`, which reads the job once more after it has unlocked it |
| `AltSignal`, `AltStay`, `AltWorker` | `altstack_worker`; `become_worker` counts the checkpoints left by workers that became the main thread |
| `CheckJob` | `lwt_unix_check_job`, after `Lwt.pause` |
| `Recv`, `RecvMore`, `Dispatch` | `recv_notifications`, which counts, gives up the mutex to allocate, and looks again; `call_notification` of each id |
| `SetSignal`, `RemoveSignal`, `HandleSignal` | signals as notifications |
| `SetPoolSize`, `Fork` | `set_pool_size`; `reset_after_fork` and `init_notification` in the child |

A job is its state, whether it is on the fast path (`fast`), its mutex, and its
life: freed twice, or used when freed, is what `JobAlive` looks for. What a job
computes does not matter, and `self_result` is not modelled.

### ReDfaCache

The automaton is a constant: `Delta[s, c]` is where byte `c` leads from the state
whose content is `s`. What is modelled is the cache: which states and arrows are
there (`cache`), the start states with their `firstbyte`, the budget, and the two
locks. What is done under `mutex_` is one step; arrows and `firstbyte` are read
without it, as in the code. A pointer carries `live`, which a reset makes false
for every pointer into the cache, whoever has it. The loops of a search are its
actions `ReadByte` (with `memchr` in the start state) and `RunByte`; `Unlock`
and `ResetCache` are the two halves of `LockForWriting`, between which others
may run. `partial` is a history variable: this search has taken a `firstbyte`
that was stored when the analysis ran out of memory. `Reference` runs the
automaton without the cache.

### ReSyntax to FilteredRE2

These follow the code function by function: fragments and patch lists, queues
of threads in order of preference, marks between the sets of a longest match.
Bytes are six: the newline, two upper and two lower case letters and a
punctuation mark, in the order of ASCII, which is what case folding, word
boundaries and line anchors tell apart. A state of the DFA is its content, so two
states that the cache would identify are equal by value. Where the code has a
limit (texts that are still tiny, the size of the bit map) the request names
it, so that short texts take both sides.

`Match` is one action for the beginning of `RE2::Match` up to the first search,
then `Forward`, `Backward`, `Submatch`; `DfaFails` may take the place of either DFA
search. In `FilteredRE2` the same actions answer for each expression that the
tree lets through.

A pattern is a sequence of tokens (`ReParse`): a character, a repetition, a bar, a
class, a setting of flags. `Parse` folds `Scan` over it, one operation of
`ParseState` for each, on a stack of trees and markers, as the code does:
`PushRegexp` first joins two literals below what it pushes and then rewrites
classes of one character; `DoVerticalBar` merges single characters below the bar;
`DoRightParen` restores the flags that its marker kept; `DoCollapse` flattens and
factors. `TextOf` is `ToString`, with its levels of precedence. The reference is
`Meaning`, by recursion on the grammar: parentheses by their depth, alternatives,
pieces; flags last to the end of the group. `RE2::Init` in `ReMatch` and `Add` in
`FilteredRE2` parse; a pattern that does not parse makes an object that matches
nothing, and is skipped by the filter.

Two references, independent of the code, say what the answer should be: `Ends`,
the set of ends a match can have by the meaning of the expression, and `Ways`,
the list of ways a backtracking matcher tries, in its order. `Preferred` is the
first of these, or the first of the longest. `Ways` has no meaning for repetitions
of what may be empty, and neither has the library's promise: `RepeatsEmpty` is
its own test for them (`mimics_pcre.cc`).

## Runs

| Run | Question | Result |
|---|---|---|
| `receive_stream` | Do reordered, duplicated and overlapping segments, a FIN with data, an early pure ACK, a stray SYN and keepalive leave the stream intact, with up to two inputs blocked? | holds |
| `receive_live` | With a small buffer whose writer blocks, a reset and challenge ACKs: does what is read refine `ByteStream`, is all of it read and acknowledged, with ACKs of every kind racing? | holds |
| `receive_halfclose` | Does the FIN reach the application if the peer goes on sending ACKs after it? | violated |
| `transmit_order` | With two writers, Nagle and no-delay, a full buffer, a window of less than a segment or of two, up to three segments in flight, cumulative and late ACKs, a reset and timeouts: do the queue, the buffer, the stream and the wire agree? | holds |
| `transmit_live` | With a close that races a writer, the peer's FIN, a window that shuts and a network that may lose everything: does what is written refine `ByteSource`, does the FIN follow the data, is data acknowledged, and does a write return, or else is the connection over or the window shut for good? | holds |
| `transmit_hang` | Does a write return when the connection ends? | violated |
| `lwt_jobs` | With two jobs by two methods, two pool threads, spurious wake-ups, a signal, a pool size that changes and threads that cannot be made: is every job run, reported and freed exactly once? | holds |
| `lwt_fork` | Are notifications still signalled in the child of a fork? | violated |
| `re2_dfa` | With three threads and memory for three states: do searches find what they would find alone? | holds, but for those that take a partial `firstbyte` |
| `re2_firstbyte` | Does every search? | violated |
| `re2_match` | Do trees mean what their patterns say, and are matches, groups, ranges and filters what this meaning says? | holds |
| `re2_factor` | Are groups those of a backtracking matcher when alternatives begin with the same repetition? | violated |

The properties, by what they are for:

- `StreamIntact`: what has been read and queued is the peer's stream from its first
  byte, cut into slices that follow one another; the batch being queued goes on from
  there to `rx_nxt`; and each batch that waits has the bytes it will advance `rx_nxt` by.
- `AdvanceConserved`: `rx_nxt` plus the advances on their way is `rx_nxt_inseq`.
- `InputIsWalk`: reassembly is the walk of the code: what is ready, what is kept, how
  far it gets, and when it asks for an ACK.
- `FinTold`: a FIN that has been consumed is on its way to the application.
- `NoStall`: the application's buffer. `ThreadsAgree`: threads are where the
  queues they wait in say they are.
- `AckRequested`: an ACK the peer is owed is asked for; `AckEventually`: and sent.
- `StreamDelivered`, `ImplementsByteStream`: the promise to the application.
- `SegsTile`: the unacknowledged segments cover `snd_una..tx_nxt` without a gap.
- `StreamInOrder`: what was sent, then what is buffered, is what was written, and
  `bufbytes` counts the buffer.
- `WireAligned`: every transmission and retransmission sends the bytes that
  belong under its number.
- `TimerArmed`, `RtoAlive`: the retransmission timer and `rto_t` do not die.
- `ClearSegsIsLoop`: the operator for `clearsegs` is the loop: what it takes and what
  it returns.
- `FinReceived`: a close loses nothing.
- `DataAcked`, `WriteReturnsOrOver`, `WriteReturns`: progress. `WriteReturnsOrOver` leaves out a
  connection that is over (finding 2) and a window that stays `Shut` (no persist timer,
  below).
- `NotificationsSignalled`: no id waits in the buffer without a wake-up.
- `JobAlive`, `JobHeldOnce`: the memory of a job, and who has it.
- `WaitersCovered`, `PoolBounded`: the counts of the pool.
- `CheckpointLeft`: the assertion of `altstack_worker`.
- `JobRunsOnce`: the stages of a job, in order and none twice. `JobFreed`: every job ends.
- `NoDangling`, `CacheSound`: what a reset leaves behind.
- `NeverFatal`: the branches that log at DFATAL are dead.
- `AnswerRightIfComplete`, `AnswerRight`: the answer of a search. `SearchEnds`.
- `PatternsMeanTheirTrees`: what is parsed, and what is printed and parsed again.
- `MatchIsLeftmost`, `MatchIsFirst`: the promise of `RE2::Match`.
- `SameWhateverEngine`: it does not depend on who found the groups.
- `RangeSound`: the promise of `PossibleMatchRange`, for the strings it is kept for: those
  whose part behind the literal prefix matches as a text of its own (`RestStandsAlone`).
- `FilterMissesNothing`, `TreeIsFormulas`: the promise of `FilteredRE2`.

### Findings

1. *FIN hidden by a later ACK* (`receive_halfclose`, `segment.ml:105`, `199`).
   `fin` looks at the largest ready segment. If a pure ACK that follows the FIN
   waits in the set when the FIN arrives, the FIN is acknowledged and the
   application never hears of the end of the stream.
2. *A waiting write never returns* (`transmit_hang`, `user_buffer.ml:314`).
   `reset` leaves `bufbytes`, so the writer it wakes waits again; a time-out
   wakes nobody. As long as the connection lives, a write returns unless the window
   stays below a segment (`WriteReturnsOrOver`, `transmit_live`).
3. *Notifications lost in the child of a fork* (`lwt_fork`,
   `lwt_unix_stubs.c:676`). A new descriptor, and the old buffer: with an id in
   it, no send in the child writes to the descriptor.
4. *A partial firstbyte* (`re2_firstbyte`, `dfa.cc:1715`). An analysis that runs
   out of memory publishes what it has found so far before the cache is reset; a
   concurrent search skips over bytes that could begin a match. `re2_dfa` shows
   that this is the only way for a search to be wrong.
5. *Factoring changes the preference* (`re2_factor`, `parse.cc:882`). The first
   piece that neighbouring alternatives share is taken out of them whatever it
   is. `(a*|a*b)(ab)?` becomes `(a*(?:|b))(ab)?`: on "ab" a backtracking matcher finds the
   groups "" and "ab", RE2 finds "ab" and nothing.

### Seen while modelling

These show in the models with other constants or inputs and have no run of their own.

- *Retransmitted FIN not acknowledged* (`flow.ml:196`). After the end of the
  stream nothing takes from `rx_data`: with `StreamLen` 1 and `UnitSegs`, what an
  input puts there then stays.
- *Reassembly at the signed boundary* (`segment.ml:147`). With `HalfRange` 4,
  `RxIsn` 1, `StreamLen` 10, `UnitSegs` and `Span` 2, `StreamIntact` fails: a
  duplicate from before the boundary is kept as future data, and passed on a lap
  later.
- *Fast retransmission under the wrong number* (`segment.ml:370`). With `Mss` and
  `MaxSize` 2, `Windows` {4}, `MidAcks`, `CwndCap` 4 and four bytes to write,
  `WireAligned` fails: after a partial ACK the whole first segment is sent under
  the number of the ACK.
- *A queued job that waits* (`lwt_unix_stubs.c:1141`). A worker that becomes the
  main thread stays in `thread_waiting_count`. The next detached job is then
  queued, although nobody waits and the pool may have room, until a blocked call
  ends. `lwt_unix.cppo.mli:1331-1333` says that "the job is run in another system thread,
  unless the the maximum number of worker threads has been reached", and line 1411
  that the count is the "number threads waiting for a job". With `lwt_jobs`' constants,
  the invariant that a queue is never without a thread at the head of `worker_loop`
  unless the pool is full is violated. What does hold is less: a thread is awake
  that comes to the queue after its call (`QueueNotAbandoned`, proved), and every job
  ends (`JobFreed`) - as the calls of the model do.
- *No persist timer* (`window.ml:217-223`, `user_buffer.ml:199-204`). When nothing is in
  flight and the window is less than a segment, no timer runs and no ACK is due:
  what is buffered, and a write that waits for room, stay until the peer sends
  another window of its own accord (the answer to a keepalive probe, where these are on,
  may bring it). With `Windows` {0, 1} and without the disjunct `Shut`,
  `WriteReturnsOrOver` fails.
- *BitState and kInstFail* (`bitstate.cc:172`). A `kInstFail` is reached only in
  programs of expressions like a repeated empty class, and `TrySearch` returns
  from there and gives up the jobs left on its stack: it finds no match where
  the NFA finds one.
- *A range that excludes a match* (`re2.cc:491`). `^a\Bb` matches "ab", but
  `PossibleMatchRange` returns "a" for both bounds: it analyses what follows the
  literal prefix as if it stood at the beginning of a text. `re2.h:415-419` promises
  otherwise. `RangeSound` says so: it is about the strings whose rest stands alone
  (`RestStandsAlone`). The expression is among `MCExprs`, and without this condition
  `RangeSound` fails.
- *A class that folds* (`parse.cc:221`). In `(?i)(?-i:a|a)` the alternatives merge
  into a class of one character; the parenthesis restores the flags of outside
  and pushes the class, which becomes a literal under those flags: it matches "A".
- *Named groups* (`parse.cc:1853`). `(?P<n>a)` captures although `NeverCapture` is
  set, which `regexp.h:302` describes as "Parse all parens as non-capturing".
- *What matches nothing has no text in Latin-1* (`tostring.cc:146`). `ToString`
  prints `[^\x00-\x{10ffff}]`, and a Latin-1 pattern may not name such a rune.
- *A filter that is NONE* (`prefilter_tree.cc:36`). An expression that matches
  nothing has such a formula, which `KeepPart` logs at DFATAL.

## Bounds

TCP, receiving: streams of 2 to 4 bytes; segments of 1 or 2 bytes, which is enough for every
relation two segments can have (before, adjacent, overlapping, equal start,
ahead); a buffer of 1 to 3 bytes, so that writers block and wake; one waiting
reader, two blocked inputs and one transmission in flight (`MaxReaders`,
`MaxPuts`, `MaxOutputs`): the queues are first come first served, and two places
show every overtaking. `HalfRange` is 64,
far above the stream.

`TcpTransmit`: 1 to 3 bytes to write by each, in segments of at most `Mss` 1 or 2, with a
buffer of 1 to 3 bytes: writers wait in every run, and with `Mss` 2 a chunk can
be less than a segment, so that Nagle holds it and `clear_buffer` joins two. In
`transmit_order` the windows are 1 and 4, less than a segment and two: the queue
holds up to three segments (a no-delay writer sends short ones), an ACK takes one,
two or three of them, and fast recovery is entered and left in part. In `transmit_live` they are 0 and 1, shut and one segment. `MaxRexmits` is 0, the code's is
5: one retransmission and then the end, and the code does the same at each of
the first five. `CwndCap` stops the count of `cwnd` where no window exceeds it.
`MaxPuts` 1 bounds the ACKs that wait in `tx_ack`; `MaxDupAcks` the count of
duplicates (above 3 where fast recovery is the subject; 1 in `transmit_live`,
where it is not reached); `MaxFinAcks` the ACKs counted in Fin_wait_2. A second window update that overtakes the first needs no more.

`LwtJobs`: three threads, two jobs. Two workers are what it takes for one to
become the main thread while the other runs a job, and two jobs for one to be
queued behind the other. `InitCount` is 1, so that the second id resizes the
buffer. `MaxSignals` 1, since a signal is one more sender; `MaxWaiting` 2 stops
the count that spurious wake-ups drive up. The synchronous method is reached by
the fallback.

`ReDfaCache`: the smallest memory with which a search can go on after a reset is
three states (the start, the state it is in, the state it goes to), and the code
asks for 20. Seven queries: each start state, ends of text, earliest matches, and
three that fill the cache twice, of which one gives up. One of these is run forwards and
backwards: backwards it goes on, since the distance from the last reset is cast to an
unsigned number (`dfa.cc:1397`). Three searches at once or in turn
(`MaxSearches` 3) are one that resets, one that reads, one that waits.
`BailFactor` is 1 where the code has 10, so that texts of seven bytes take both
sides.

`ReParse`: all texts of up to four tokens of ten (letters, repetitions, groups,
bars, flags), of up to five of the six that make groups and alternatives, and of up
to three of thirteen with classes, anchors and counts, under several options.
Six tokens meet the factoring of finding 5.

`ReMatch`: 19 expressions, each of which is there for a construct or for a path
(prefix, both anchors, one-pass and not, `AltMatch`, folding, classes, counted
repetition, empty-width tests inside a repetition), printed and parsed, 13 of
them with both kinds of match, and seven written patterns for flags, options and
errors; texts of up to three letters of two, and some with other bytes, in whole
and in parts, the parts for what surrounds them; 0 to 3 submatches; `Wide` and
`Tight` limits. `FilteredRE2`: up to three of seven expressions and one that does not parse, with `MaxParents`
1 and `MaxExact` 2 in place of 8 and 16, so that pruning and the giving up of
exact sets happen.

Deadlock is not checked: a receiver whose peer has finished, or has sent what
it was going to send, rests, and so does a connection that is over. A client of the
pool or of an RE2 object that asks nothing more rests too.

## Fairness

`FairSpec` assumes that the Lwt scheduler runs every thread that can go on (weak
fairness of each thread's next step: a promise that is resolved runs its
callbacks), that the device completes transmissions, that the application keeps
reading, and that the peer retransmits the next byte until it is taken (strong
fairness of the input of the segment at `rx_nxt_inseq`: the network may refuse
it infinitely often while `rx_data` is full). There is no fairness for the
other segments, for the ACKs that leave with data, nor for keepalive.

`TcpTransmit.FairSpec` assumes the Lwt scheduler (weak fairness of the writers and the
closes that can go on, taken together, and of `Flow.Wnd.thread` and `rto_t`, taken
together: that one of those that can does), the device, and
that the retransmission timer expires when it runs. It assumes nothing of the
network or the peer: what is never acknowledged has to time out.

`LwtJobs.FairSpec`: every system thread runs, so that the system calls return and a
mutex that is free is taken, and the OCaml code goes back to the main loop, which
runs `check_job` after the pause and `handle_notifications` when the descriptor
is readable. Nothing is assumed of the program: what jobs it starts, its pool
size, its signals, nor of spurious wake-ups.

`ReDfaCache.FairSpec`: each thread runs, and gets a lock that is free. It is weak: a
thread that waits to write is enabled for good only when all searches that hold
the lock have ended, and `MaxSearches` sees to it that they do. With an endless
stream of readers it may wait for ever, as pthread's lock may let it.

## Proofs

`LwtMvarProofs` states what put, take and looking at a value do to a mailbox,
for every type of value: `PutEffect`, `TakeEffect`, `ConsumeEffect`.

`TcpReceiveProofs` proves, for every stream, set of segments, buffer size,
window and bound:

- `TypeCorrect`: `Spec => []TypeOK` (no run has it)
- `ThreadsCorrect`: `Spec => []ThreadsAgree`
- `NoAckLost`: `Spec => []AckRequested`
- `InputWalks`: `Spec => []InputIsWalk`

the first three by one inductive invariant, `IInv == TypeOK /\ ThreadsAgree /\ AckRequested`.
`AckRequested` alone is not inductive. A put leaves a request behind only in a
mailbox that put and take can have made (`TypeOK` says so with `IsMvar`), and
`EmptyAckSent` keeps the requests only if send_empty_ack holds none that it has
not looked at, which is in `ThreadsAgree`. `ThreadsAgree` in turn needs
`WritersAgree`: the read that wakes a blocked `Flow.Rx.thread` must find it
blocked in the buffer and not in its put into send_ack. There is one lemma per
action and `StepIInv` collects them. The assumptions are `HalfRangeAssumption`
and `ReceiveAssumption`, types of the constants.

`InputWalks` needs one more invariant, `Distinct`: `segs` is finite and holds one
segment for each int32. It goes by induction on the part of the set that the walk
has seen (`WalkRight`; `WalkOne` is its step, and `WalkExists` of `NaturalSets` says
that the recursive `Walk` is defined at all). A segment behind all the others in
the set makes none of them ready, so there is one set that fits `IsReady` before
the step and one after it (`ReadyNext`). It is ready just when it begins where the
ready ones end (`FollowsEnd`): every ready segment but the last ends where another
begins (`ChainEnds`), and that number is taken. Nothing is assumed of the peer or of
how far apart numbers are: reassembly at the signed boundary goes wrong in the walk
and in the operators alike.

`TcpDeliverProofs` goes on from there, with what the application gets. It proves

- `NeverStalls`: `Spec => []NoStall`, if `SmallSegs`
- `FinIsTold`: `Spec => []FinTold`, if `ShortStream` and `QuietAfterFin`
- `BytesAdvanceOnce`: `Spec => []AdvanceConserved`, if `ShortStream` and `PeerStops`
- `StreamIsIntact`: `Spec => []StreamIntact`, if `ShortStream`, `PeerStops` and `SmallSegs`
- `ReadsByteStream`: `Spec => ImplementsByteStream`, if the same: every step reads the
  next bytes of the peer's stream or its end, aborts, or changes nothing that
  `ByteStream` sees

What the conditions say, of the segments that are not a SYN or a RST, and why they are there:

- `ShortStream`: the stream is less than half the sequence numbers long. Reassembly
  orders by `Int32.compare` (`sequence.ml:49`, `segment.ml:81`), and in a longer stream an old segment can
  compare as ahead.
- `PeerStops`: behind its FIN the peer sends under the number that follows it, as any peer
  does. `QuietAfterFin`: it sends nothing there. Finding 1 is what happens to the FIN if it does.
- `SmallSegs`: a segment is smaller than the first receive window. The buffer of
  `User_buffer.Rx` then has room again when its queue has been read; a payload of the
  size of the buffer could block a writer behind an empty queue.

The argument:

- `StallInv`: `cur_size` is the sum of the queue and of the payload `Flow.Rx.thread` is
  blocked with, but the keepalive timer's item has no length (`Summed`, `Counted`). A
  read that leaves the queue empty leaves less than `MaxSize`, so it wakes the first writer.
- `PlaceInv`: what waits in `segs` is the stream's, at most one segment for each sequence
  number, and `rx_nxt_inseq` is in the stream. On such a set the order of int32 values is
  that of the numbers (`CompareNear`), the ready segments form a chain (`ReadyChained`),
  and their payloads are the bytes from `rx_nxt_inseq` on, each once (`InputAdvance`).
- `FinInv`: `FinTold` with `EofBlocked` for a blocked thread: that the thread is blocked with a
  payload would say nothing of the end once it goes on.
- `LaidInv`, `PendingInv`, `RestInv`: a function `cut` of the places in `rx_data` says
  which bytes each batch has, and a function `end` of the items read or queued where each
  ends (`Laid`, `Given`). put and take do not change the values on their way
  (`ThroughPut`, `ThroughTake`), and the first item of a batch begins where what was
  delivered ends (`TilesFirst`). `StreamIntact` follows as `cut` and `end` are
  `Advanced` and `DataEnd`.
- `EofInv`, for `ReadsByteStream`: as long as the connection is not reset the end is in one
  place, a waiting put, a value, a blocked writer or what was delivered; it is there
  only when the stream is complete; and it is last. When `RxEof` looks at it no value has an
  advance left, so `rx_nxt` is behind the FIN (`LaidFlat`).

`TcpTransmitProofs` proves, for every set of threads, amount written, segment
size, buffer, set of windows and bound, and for a peer that acknowledges parts of
segments or closes or resets when it likes:

- `TransmitTypes`: `Spec => []TypeOK` (of `TcpTransmit`; no run has it, the proof
  does)
- `SegmentsTile`: `Spec => []SegsTile`
- `RtoNeverFails`: `Spec => []RtoAlive`
- `TimerKeepsRunning`: `Spec => []TimerArmed`
- `ClearSegsLoops`: `Spec => []ClearSegsIsLoop`

by one inductive invariant in four parts, one for each group of variables that
the actions change together: `SegInv` (window, queue of segments, timer),
`AckInv` (the mailboxes and `rto_t`), `AppInv` (buffer and threads) and `StInv`
(the state machine). What each adds to the properties is needed by one of them:

- `SegsOrdered`: every queued segment takes up a number at least and they come in
  order. `clearsegs` of an ACK then stops where the sum of the lengths it has
  taken is the number of the next segment, which is what `SegsTile` needs of
  `tx_ack`; and it is empty-handed only if the ACK is a duplicate.
- `Sane`: `snd_una` and `fast_rec_th` are no more than `tx_nxt`. When the queue is
  emptied `snd_una` reaches `tx_nxt`, so fast recovery is over, no
  retransmission is called for, and `peek_l` does not fail: `RtoAlive`.
  `cwnd >= 1`, and `ssthresh >= 1` in fast recovery, keep the division in
  `cwnd_incr` defined.
- `Chain`: the chunks of the buffer follow one another, none is empty, and
  `bufbytes` is at least their length. `clear_buffer` then makes segments that
  have data, which `SegsOrdered` needs. At least, not exactly: `reset` empties the
  buffer and leaves `bufbytes`.
- `StateOpen`: no tick leads back into a state that retransmits, so `TimerArmed`
  survives `TimerStops`; Reset is left only by a Time_wait that cannot be running.
- `RtoAgrees`: an `rto_t` that is blocked in its put holds no ACK, so its next take
  finds the mailbox in a state that `take` may be called in.

`ClearSegsLoops` follows from `SegInv`. The sums of the lengths grow with the number
of segments (`ClearedMonotonic`), so only one number can fit `ClearSegs`; and after k
rounds of the loop what it has taken fits the ACK, and either it is all k or the next
does not fit (`ClearLoopFacts`, over a function that `LoopExists` says is there).

There is one lemma per action or group of actions that change the same variables,
and `StepIInv` collects them. The assumption is `TransmitAssumption`: the types
of the constants, with `MaxSize >= Mss` and `CwndCap` at least every window and
two segments.

`TcpStreamProofs` goes on from there, with what is sent. It proves, where at most one
thread closes the connection (`OneCloser`; two send two FINs, see below):

- `StreamIsInOrder`: `Spec => []StreamInOrder`
- `WireIsAligned`: `Spec => []WireAligned`, for a peer that acknowledges whole
  segments (`~MidAcks`): the fast retransmission of `rto_t` sends the first
  segment of the queue under the number of the ACK, and after the ACK of a part
  of a segment that is not its number
- `FinIsReceived`: `Spec => []FinReceived`
- `WritesByteSource`: `Spec => ImplementsByteSource`, if `~MidAcks` too: after the ACK of a part
  of a segment the repetition does not begin where the ACK ends

by an inductive invariant over `IInv`:

- `WaitersWait`: a thread is in the queue of waiters once, and waits. So
  `inform_app` wakes one that waits, and never moves a thread that has sent its FIN.
- `BufferFlows`: the buffer begins where the numbers sent end, whoever sent them,
  and `bufbytes` is its length. Both of a writer's ways past the buffer, and
  `clear_buffer` between two transmissions, keep it.
- `NothingAfterFin`, `FinNumbered`: once the FIN is out no state lets a write send;
  Fin_wait_1 and Closing carry the number of the FIN, which is that of the end of the
  data, so the ACK they wait for is the ACK of everything (`TickStream`).
- `SegsAligned`, `AckOnEdge`: a segment keeps the bytes it was made with. An ACK of
  whole segments is for the end of one, `clearsegs` takes up to that one and no
  further (`ClearsToAck`), and the segment that is then first has the ACK's number.
- `DataTaken`, for `WritesByteSource`: no segment of data reaches behind what writes have
  taken. With the others it makes the first of the queue what a repetition may be
  (`FirstFacts`): it begins at `snd_una` and ends before the FIN's number, unless it is the FIN.

Each action is then a step of `ByteSource` or one that it does not see: `Write` takes and
may send, `clear_buffer` sends, the FIN finishes, `RtoAck` acknowledges and may repeat,
`TimerRexmits` repeats, a RST aborts (`StepIsSource` and the lemmas before it).

`LwtJobsProofs` proves, for every set of system threads and jobs, pool size, kind of
descriptor, initial size of the buffer and bound on signals:

- `NothingUnsignalled`: `Spec => []NotificationsSignalled`
- `JobsAlive`, `JobsHeldOnce`: `Spec => []JobAlive`, `Spec => []JobHeldOnce`
- `NoIdleWaiter`: `Spec => []WaitersCovered`; `QueueAttended`: `Spec => []QueueNotAbandoned`, a
  queued job has a thread that comes for it, sooner or later
- `CheckpointThere`: `Spec => []CheckpointLeft`
- `PoolIsBounded`: `Spec => []PoolBounded`
- `JobsRunOnce`: `Spec => JobRunsOnce`, what a step may do to a job: its function is called
  once, its result is read once and after it has returned, and a job that could not
  be launched has not run
- `TypeCorrect`: `Spec => []TypeOK`, and `NeverOverrun`: `Spec => []BufferFits`, that
  `send_notification` never writes behind the end of its buffer; no run has these two, nor
  `QueueNotAbandoned`

by one inductive invariant. `NotificationsSignalled`, `WaitersCovered` and
`CheckpointLeft` are parts of it; what they and the others need beside them:

- `ThreadInv`, `MainInv`: a thread between two jobs has none; the OCaml code is on
  `main_thread`, or blocked there in a call made by the switch method. A checkpoint
  is left for every other thread in such a call.
- `BusyInv`, `QueueInv`, `NotifyInv`, `MlInv`: two threads never have the same job, and what
  the thread that has a job, the queue, the buffer of ids or the OCaml code know
  of it. A job whose id is on its way is done and has `fast` unset, so
  `check_job` has left it to the notification; a job with `fast` set is the OCaml code's,
  and `execute_job` does not look at it again after the mutex. This is `JobAlive`.
- `WaitInv`: a notification is waited for as long as its job lives, and is paused or
  not as `fast` says.
- `HeldInv`: a job that is not done is with somebody, `JobHeldOnce` with the parts above.
- `PoolInv`: if the count says that a thread waits, or there is a queue, then there is
  a thread beside the main one. When the count is too high (a worker that became
  the main thread) that thread is in a call and will come to the queue: `QueueNotAbandoned`.

`JobsRunOnce` is an action property. Under the invariant only `execute_job` moves a job, the
one its thread has (`ExecuteStep`), and whoever frees one finds it done, or pending in
the synchronous method: `check_job` (`CheckStep`), the call of its notification and the
return to the OCaml code by any of the methods (`ReturnStep`).

The assumptions are `JobsAssumption` and `NotifyAssumption`, the types of the constants, with
pools that leave a thread for OCaml.

`ReDfaCacheProofs` proves, for every automaton, every budget of three states or
more, and every number of concurrent searches:

- `StatesStay`: `Spec => []NoDangling`: a pointer to a state that a search uses is to one
  that the cache still has
- `CacheIsSound`: `Spec => []CacheSound`: the arrows of the cache are those of the automaton
- `NeverFatalHolds`: `Spec => []NeverFatal`
- `AnswersAreRight`: `Spec => []AnswerRightIfComplete`: a search that does not bail out finds
  what the automaton finds by itself, if the analysis of its start state was
  complete. Finding 4 is why the condition is there.
- `TypeCorrect`: `Spec => []TypeOK`

by one inductive invariant: `TypeOK`, `NoDangling`, `CacheSound` and

- `LockInv`: a search that holds the cache lock to write is the only holder. A reset
  then voids no pointers but its own, which it has saved by what the states are.
- `StartInv`: a start state published as complete is left only by its `firstbyte`.
- `KeptInv`: a search that analyzes again after a reset has the cleared cache for
  itself, so that the start state fits into the smallest budget: `NeverFatal`.
- `Fine`, of each search: the state it is in is the one the automaton has `Reached` by the
  text read so far, and the last match it remembers is the last the automaton
  has seen. What `memchr` skips leaves the automaton in its start state
  (`RunWaits`), which is where the condition on the analysis is used.

`Run`, the run of the automaton over a text, is a recursive function; that it
satisfies its equation (`RunUnfolds`) is proved by `SetInduction` of `NaturalSets`:
the library's induction theorems take an operator, and induction over the set
of the numbers that satisfy a formula says the same without one. The assumption is
`CacheAssumption`: the types of the constants, that the start states are not matching
states (they are made with flags that do not have `kFlagMatch`) and at least three states.

Only model-checked: everything under fairness, which the prover does not reach, and
what is said of `ReSyntax` and the modules on it. These declare RECURSIVE operators,
over trees and programs, which the provers cannot reason about. Every safety
invariant and action property of the other modules is proved.

## Not modelled

- The handshake and the tables of connections; see the plan.
- The two halves of a connection together: each is modelled with the other as
  its environment. `TcpReceive.InputReset` allows for its wait for the transmit
  side, and `TcpTransmit` has the receiving half's FIN as an input.
- Cancellation of a write or a close that waits.
- A write that waits while another closes: two threads that close at once send
  two FINs (`flow.ml:129-132` does not look at the state again), so
  `StreamInOrder` is checked without one and `FinReceived` with one.
- The content of segments, options and checksums.
- Memory: the number of inputs blocked on `rx_data` is bounded by `MaxPuts`
  here and by nothing in the code.
- Failure of the device: a failed transmission is ignored by the code, and an
  ACK that is lost is the peer's retransmission here.
- `Ack.Delayed`, which no connection uses (`flow.ml` takes `Ack.Immediate`).
- Lwt on Windows, and the OCaml result of a job that raises.
- RE2's lexer: escapes, quoting, names of groups and classes, the digits of a
  count, UTF-8, and the errors of these; the options `literal` and those that
  let a POSIX pattern use parts of Perl's syntax.
- UTF-8 and Unicode: programs in UTF-8 differ from those in Latin-1 by the
  suffix cache of `compile.cc`; a model needs runes of several bytes.
- Many-match programs and `RE2::Set`; the loops over `Match` (`FindAndConsume`,
  `GlobalReplace`, `Extract`) and the conversion of arguments.
- The limits on the size of programs and DFAs other than the state budget.
- Data races: `notification_index`, the counts and `firstbyte` are read as whole
  words here, as the code's atomics and mutexes make them or as the machines it
  runs on do.
- The rings of `shared-memory-ring`, vchan, event channels, IPv4 fragments: see
  the plan.

The map covers a small part of the repository's C and C++, and will: of its 57
thousand lines a third are generated tables, a header of valgrind's and UTF-8
coding; as much again are stubs that convert arguments of one system call, ciphers,
and other vendored code. Of what has state or algorithms of its own the map
covers nearly all of `dfa.cc`, the parser in `parse.cc`, `tostring.cc`, `nfa.cc`, `bitstate.cc`, `onepass.cc`, `prog.cc`,
`prefilter.cc`, `prefilter_tree.cc` and `filtered_re2.cc`, and the part of
`lwt_unix_stubs.c` on jobs and notifications. TCP is in OCaml.

## Plan

1. `TcpFlow`, over `TcpState`: the tables, the handshake, duplicate SYNs, timers,
   clearpcb.
2. `RpcRing`: both ends of a ring over 32-bit shared indices, and the waiters of
   `Lwt_ring`; then `Vchan`, which refines `ByteStream`.
3. An abstract byte pipe that `TcpTransmit` refines, checked and then proved.
