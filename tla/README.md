# LINA: a verification project

LINA (`src/backend`) is a companion service: a FastAPI application that talks to
language-model providers, weighs what it says in a value engine, keeps long-lived
memories in PostgreSQL and a Redis-like cache, proposes actions that a human approves,
and exchanges messages with a small Rust process (Triton) through shared memory. This
directory holds TLA+ models of its parts, TLC configurations that check them on small
instances, and proofs, checked by TLAPS, that the most important results hold for every
instance.

Paths below are relative to `src/backend` unless they start with `src/`;
`LS` is `lina/lina_service.py`, `VE` is `lina/value_engine.py`.

## 1. The system

One asyncio loop (`LS`, `lifespan`) runs the HTTP endpoints and the background services:
the heartbeat, the reflection sweeper, the memory consolidation services, the IPC bridge
and the Triton supervisor. There are no threads that share state; a coroutine may be
suspended at every `await`, which for this code means at every database statement, cache
operation, provider call and sleep. Triton is a second process. Every statement is
committed by itself. One block asks for a transaction (season advancement, LS 1536), of
`self.db`, which is asyncpg's pool (474): the pool has no `transaction()`, so the block raises
before its first statement. Its statements are sent through `self.db` too, so over a database that
does open the block, as that of the tests does, they would be no transaction either.

Nothing in `mps.py` happens by itself. Its services derive from aiomisc's `PeriodicService`, whose
`start` makes the timer that calls `callback`; each has a `start` of its own that does not call the
inherited one (mps.py 500, 682, 995, 1105). So a sweep, a maintenance pass and a review run when their endpoint
asks for them (LS 2696-2735), one beside another if it asks twice, and the minor reflection, which
only its `callback` calls (mps.py 532), does not run.

| Component | State it keeps | Operations | Talks to |
|---|---|---|---|
| Shared-memory chamber (`ipc-core/src/buffer.rs`, `lina/ipc.py`) | byte region, `head`, `tail` in a mapped file | `push`, `pop`, `reset`, create/open | the two processes of the bridge |
| Foresight bridge (`triton/src/main.rs`, `spokes.rs`, LS 1692-1740, 3524-3632) | two chambers, liveness of the spoke | dispatch, drain with a window, the spoke's loop, start/stop/restart | chat turns, chamber |
| Action ledger (`lina/actions.py`, `lina/tools.py`, LS 3054-3390) | table `lina_actions`, standing grants | propose, approve, modify, reject, the tool intents of a turn, settings | chat turns, executor, formation |
| Chat turn (LS 1631-2031, 2430-2550) | the turn's messages, its passes, the archive | drain, generate, judge, act, record, interrupt | all of the others |
| Voice pool (`lina/providers/pool.py`) | a semaphore, a chain of providers | generate, stream | providers |
| Value engine (`VE`) | one season's polytope, the encoder's learned biases | encode, judge, project, score, learn | chat turns, feedback |
| Encoder feedback (`VE` 1493-1700, LS 1965-2010, 2760-2860) | corrections saved for the user | flag, confirm, the feedback of a turn | value engine, season |
| Season advancement (LS 1372-1625, `VE`) | season, current bounds, record of transitions, cached engines | birth, evaluate, advance, load, invalidate | session end, value engine, ledger |
| Sessions and reflection (LS 2320-2640, `mps.py` 260-300, 480-595) | session rows, working memory, transcripts, reflection marks, counts | start, append, record, end, minor reflection | voice pool, formation, season |
| Memory tiers (`lina/mps.py` 74-216, 588-816) | cache keys per tier, long-term table, promotion log | scoring, formation, the 48-hour sweep, sweep on demand | sessions, ledger |
| Long-term maintenance (`lina/mps.py` 820-1388) | status, score and dates of long-term rows | monthly pass, slope, yearly review, recall | tiers |
| Recall and embeddings | vectors | similarity search | database |
| Speech, vision, browser, metrics, PWA | none that decides anything above | I/O | outside world |

### What is hard about it

* **Interleaving of handlers.** Two requests on one action, two advances on one season,
  two sweeps or two maintenance passes on one memory, two turns on one encoder, one pool
  and one pair of chambers. Tests run handlers one after the other.
* **Multi-statement work without transactions.** Claim-execute-finalize, retire-insert-set,
  put-delete-log, form-mark: a failure, a stop of the service, or a client that leaves its stream
  (which cancels the turn, LS 2546-2548) between two statements leaves what the next one finds.
* **Shared memory between a Python and a Rust process**, either of which may die, or be
  stopped, in mid-call, with no lock: everything rests on the order of a few stores.
* **Values read before an `await` and used after it**: the season of the engine a turn
  keeps (LS 1643, 1811), the grants of a pass (1803), the findings of a sweep, the rows of a maintenance pass, the bounds of an engine, the reading a
  lesson is drawn from, the messages a reflection has seen.
* **Feedback over a long time.** Lessons add up, a slope is applied to what it produced,
  a season is counted towards by several code paths.
* **Parts that the tests replace.** The advance's block and the services' timers exist in the test doubles
  and in the base class, not in what runs.

`PROJECT.json` lists each hazard with its line and the properties that cover it.

### What makes each component correct

Where the code does not keep one of these, section 3 says so, among the findings or under "Stated, without a run".

* Chamber: bytes come out as they went in, in order, once; the producer never writes
  over what was not read; a crash on either side loses at most the call it hit.
* Bridge: a turn's echo is delivered at most once, and every turn ends whether or not the
  spoke answers.
* Ledger: nothing is executed without consent or twice or with another payload than
  the one consented to; a verdict is final; what was executed is recorded (it is not, when the
  client leaves between the two).
* Chat turn and voice pool: one answer has one voice, her words are kept with the
  evaluation that weighed them, and every turn ends.
* Value engine and feedback: what is corrected is on the polytope's edge; learning is slow, does not
  make an aligned response a violation, and should not make a violation aligned (it does, in time); in
  Spring it takes the user's word.
* Season: no season is in force that was not earned. That what is earned is entered, once, and
  followed by the engine, is what the code says of itself and does not keep.
* Sessions: a message is reflected on once, a session that was lived is ended and counted.
* Tiers: no memory is lost between two writes or kept twice; the log tells the truth;
  what is left to the tiers fades as long as sweeps are asked for, what is permanent was so from birth.
* Maintenance: the crown stands, what was recalled is not penalised, what nobody recalls
  is forgotten as long as passes are asked for, and not before its time.

## 2. The modules

| Module | Models | Role |
|---|---|---|
| `MessagePipe` | what a chamber promises | abstract specification |
| `ChamberRing` | one chamber, split at each shared-memory access | component |
| `ChamberStop` | that chamber while the service stops: `reset` against a `pop` | extends `ChamberRing` |
| `ForesightBridge` | concurrent turns, two pipes, the spoke and its outages | composes two `MessagePipe`s |
| `ConsentGate` | what the ledger promises | abstract specification |
| `ActionLedger` | `lina_actions` and every request that works on it | component |
| `VoicePool` | the semaphore and the chain of providers | component |
| `ChatTurn` | turns from message to record | composed with `VoicePool` |
| `SeasonalBounds` | the numbers of the value engine | data |
| `ValueEngine` | encoding, polytope, judgement, lessons | component |
| `SeasonAdvance` | seasons, bounds, cached engines, who may confirm what | component |
| `SessionLifecycle` | sessions, working memory, minor reflection | component |
| `MemoryValuation` | what a moment is worth | pure operators |
| `MemoryTiers` | formation, the sweep write by write | component |
| `LongTermMaintenance` | monthly pass, slope, yearly review, recalls | component |
| `MC...` | sizes, scores, records, symmetry for TLC | instances |
| `BridgeProofs` | theorems about the ring, the stop and the bridge | proofs |
| other `...Proofs` | theorems about the component of that name | proofs |

Some definitions are preceded by one whose comment begins with "Mutant:". These are
deliberately wrong variants of the definition that follows, each the way a plausible
slip in the code would change it. No specification uses them; substituting one must
make a named property fail, which shows that the property can fail.

### ChamberRing and ChamberStop

Variables and code: `cell` is the payload region, `head` and `tail` the two counters
at the front of the file (`Chamber` in `buffer.rs`), `ppc`/`pmsg` and
`cpc`/`chead`/`clen`/`out` the locals of a `push` and a `pop` under way. `push` is
`PushBegin` (both counters loaded, `TooLarge` and `Full` checked), `PushHeader`,
`PushData`, `PushPublish` (the release store); `pop` is `PopBegin`, then `PopRefuse` or
`PopCopy`, then `PopAdvance`. The Rust and the Python ring agree line by line and
are modelled once. A crash forgets the locals and nothing else: `_open` and
`ChamberRing::open` map an existing file as it is.

A byte is the pair of what it is part of and its offset, so that a byte
in the wrong place shows; a header byte carries the whole length, so `HoldsLength` is
"all header bytes belong to one header of this length". The counters are natural numbers: they
are 64-bit in the code, and at the rate of one frame a microsecond would take
centuries to wrap. The copies of payload bytes are single steps; the consumer never reads them
before `head` is published (`FramesIntact` and the proofs show that the bytes of a
published frame do not change, so a finer split of the reads sees the same bytes),
and the producer's partial writes are visible as crashes between header and data.

`ChamberStop` is the one situation in which somebody else writes `tail`: the bridge stores
0 to both counters (`ResetHead`, `ResetTail`) before the spoke is terminated
(`SpokeEnds`). So `pop` is split once more: `LoadHead`, `LoadTail`, `ReadFrame` with the values
loaded, `StoreTail`. The release build of the spoke subtracts the counters unchecked, so a tail ahead of
head reads as a ring that is more than full, and what four bytes say that no push wrote
together is left open. The receiving chamber is the mirror image and is not modelled twice.

### ForesightBridge

Each chamber is taken for the pipe that `ChamberRing` implements: `Tx` and `Rx` are instances
of `MessagePipe`, with `Room` for the bytes that fit. `turn` holds the chat turns: `Dispatch` is the
push of a turn's message, `Take`, `Sleep` and `TimeOut` the three ways one round of its loop over RX
ends. A turn does not yield between its push and its first look into RX, hence `Yielded`. The
spoke is `SpokePop` (pop and process) and `SpokePush` (broadcast and push), between which it holds one message. `SpokeDies`
loses it; `Restart` cuts the turns under way and, after an orderly stop, empties both chambers.
Messages are the numbers of their dispatch; the code has no such number, and no action
decides by it.

The length of the window and the `alive` flag only decide when a turn gives up, so
`TimeOut` may come whenever a turn sleeps. A message longer than a chamber is
dropped like one that finds it full. `registry.broadcast` decides nothing. Two things are
assumed here: a spoke dies with its service (one that survives a crash is ended by its first write to the
closed pipe), and an orderly stop empties the chambers, which `ChamberStop` shows to be the normal
case only.

### ActionLedger

`row` is the table; a row is `none` until `propose` inserts it. `req` holds the requests
of one behaviour with a program counter at each database statement. `grants` and `season` are
the two columns that consent without asking: the settings endpoint saves the first as a whole (`SetGrants`), an advance
writes the second (`WinterComes`; of the other seasons the ledger makes no difference).

`Propose`, `Approve`, `Reject`, `Modify` begin a handler. A proposal reads the season and then the grants, in two
statements (`ConsultSeason`, `ConsultGrants`). A chat turn reads neither together: `ChatBegin` takes the engine
it will keep, and with it that engine's season, which is an earlier one than the row's when the engine was built before
Winter came; each of its passes reads the grants (`ReadGrants`) and offers its intents
(`Offer`); only a pass that executed something is followed by another (`NextPass`); `EndTurn` is every other way out.
`ClaimWins`, `ClaimMisses`, `Lookup`, `Run`, `RunRaises`, `Finalize` are shared. `Leave` is the client of a stream that
goes, which cancels the turn wherever it stands, and `Fault` a statement that fails or a service that stops. `trusted` is what
was granted at some moment since the proposal, or the present pass of the turn, began; it, `ran` and `claimant` are history.

`Binds` says which handlers call `execute_action` with parameters it has: `approve`, `modify` and
the grant path of `propose` pass `recall=`, which it does not declare, so the call raises
`TypeError` before anything runs, after the claim was committed.

Left out: the memory that a rejection or an execution forms is `MemoryTiers.Form`, which
may happen at any time there; `_inject_fruit` and the event after `finalize` are not reached
on the raising paths and decide nothing on the others.

### VoicePool and ChatTurn

`call` holds each caller's call, `queue` and `free` the semaphore, which is first come first
served. `Grant`, `Speaks`, `Answers`, `Breaks`, `TryNext` follow `generate` and
`generate_stream`: a provider that fails, or returns nothing but blanks, hands over to the
next one, unless its stream has spoken. There is no cool-down: each call begins with the first
provider. `heard` is the set of providers whose words a stream has passed on.

`turn` is one turn each with its place in the tool loop. `Begin` starts the voice in a task
of its own while the turn drains the bridge; `VoiceAnswered`, `VoiceFailed`
take its outcome; `JudgeLast` ends the loop with a judgement, `Continue` goes on to another
pass because something was carried out, `BreakOff` is the ceiling of passes or the
repetition guard; `Log`, `Record`, `Close` are the evaluation's insert, the archive record
and what follows; `Interrupted` is the handler that records what a failed stream has
already spoken. `Leave` is a client that goes: the call is cancelled with the turn that awaits it, but not
beside a turn that drains, where it holds its slot until it is done. Words are told apart by the pass that
spoke them. The ledger's statements in a pass are in `ActionLedger`, the drain in
`ForesightBridge`, working memory in `SessionLifecycle`, the feedback in `ValueEngine`.

### ValueEngine

Numbers are the code's own, in ten-thousandths, rounded where the code divides; they are constants of
`SeasonalBounds`, so that the proofs do not depend on them. `Encode` is the encoder on what it
found in a response (`Signals`; which words are which signals is left out): the shifts,
then the pull of a strong virtue on its shadow and back, then the clip. `Reading` adds `bias`.
`Contains`, `Least`, `Project`, `Score`, `Zone`, `Humility` and `Evaluation` are the
polytope's questions and `evaluate`; since all facets are parallel to the axes, the projection is
a clip in each dimension and the center the middle of each interval. `Judge` and
`Teach` are a turn's evaluation and its feedback, between which it awaits; in the first season
the lesson is saved for the user, later it is learned at once (`Learn`: a twentieth, capped). `Advise` is a
flag by the user with a value of their own, `Confirm` the user's word on anything saved, as often as it is
given, `Rebuild` an engine made anew. `lessons` counts what was learned since the start and `advised` says whether
any of it was a user's advice; both are history.

### SeasonAdvance

`identity`, `current` and `audit` are the season, the bounds marked current and the record of
transitions; `adv` holds requests that give birth (`LookForBirth`, `Birth`) or advance, one action per
statement (`ReadIdentity`, `Evaluate`, then the block). `db` is what `self.db` is. Over the pool the service is given the
block raises (`LockRaises`) and the request is over; over a database that opens it, as the tests' does, `Lock`, `Retire`,
`Insert`, `SetIdentity`, `Audit`, `Invalidate` follow, each a step of its own, since they are sent through `self.db`. Both are in the run. `engines` are the engines built, `cached` the one `get_engine` gives out; a reader that misses
it loads (`Load`) and replaces whatever is cached by then (`Store`). What readers do with
their engine is the control of the feedback: `Flag`, `TurnTeaches`, `SavePending`,
`Confirm`. An evaluation reads one of `Metrics`, any of them, since the five statements that
collect it need not see one moment. `earned` is history.

### SessionLifecycle

A message is the number of its append. `live` is the list in the cache, `archive` how many
messages the transcript holds, `row` the session row, `mark` the `reflected_at` in
the cache (so `CacheLost` takes both). A turn is `Say`, `Record`, `Answer` or `VoiceFails`, `Record`, `Close`.
Session end is `EndReads` (the buffer, or `EndRebuilds` from the archive when it holds less than two),
`EndFinalizes`, `EndCounts`, `EndAdvances` or `EndRaises` (the advance that is earned, raising as in `SeasonAdvance`, takes the call
with it, LS 2605), `EndClears`. The minor reflection, whose callback would run it and nothing else does, is `PassBegins`
(selects the open sessions), `PassLooks` (a session's fresh messages), `MomentsFound` or
`NothingFound`, `Form`, `Mark`. What the voice finds is a choice; it reads a suffix of the fresh messages
(`Window` for the twenty messages and six thousand characters). `passed` and `formed` are
history.

### MemoryValuation and MemoryTiers

`ScoreMemory` and `Importance` are the scoring of a moment from the factors reflection gave
it and the reading of its narrative, exact to the rounding; the four memories of the run are
computed by it, and an assumption states on which side of the gates they fall.

`store` gives the items of each stage: three tiers and fallout are cache keys, `long_term`
is the table, `gone` is history. A sweeper is a coroutine in `run_sweep`: `SweepBegin` and `Scan`
read one stage each (a scan of one stage is one step: its keys are read without the sweep writing in
between), `Judge` decides the next finding and writes it where it goes, `Delete` and `Log`
are the other two writes in the order the code has them, and `SweepFault` breaks off at
any of them. Each sweep is one that the endpoint was asked for, and two may overlap. `Score` is a constant
function in tenths: an item's score is computed at formation and never again in the tiers.

Two branches of `run_sweep` turn out to be unreachable: T3 to long-term (753-777) and
fallout to T1 (801-810), since formation sends every score at the gate or above straight
to long-term. `PermanenceIsInborn` says so, and is proved.

### LongTermMaintenance

`row` is the long-term table; dates are kept as the time since, in steps of `Unit` days up to
the age beyond which the code makes no difference. `Form` and `Migrate` are the two ways into it,
`Recall` touches the two columns of usage. A pass selects its rows once (`Begin`, `Slope`), then
writes row by row from its copy: `Log` and `Write` (the promotion log first), `Forget`, `Fade`,
`End`; `Break` is a failed statement. `Delta`, `Adjust`, `Reevaluated`, `Reviewed`, `Anchor`,
`Faded`, `Gone` are the valuation. Scores are in half points, rounded down; the
exponential of the slope is a table of thousandths (`Remaining`). Time stands still while a pass
works, since a pass takes minutes and a step is months.

## 3. What the runs show

| Run | Question | Bounds |
|---|---|---|
| `ring` | Does a chamber implement a lossless pipe, crashes included? | 11 bytes, header 2, messages of 0, 1, 4 and 10 bytes (10 never fits), 5 pushes, 2 crashes |
| `ring_reset` | Is a chamber empty after a stop? No | 11 bytes, messages of 1 and 4, 3 pushes |
| `bridge` | Do echoes keep their order, is none taken twice, does every turn end, does the spoke keep up with TX when RX is full? | 4 turns, room for 2 messages, 1 outage |
| `ledger` | Do racing handlers keep consent, truth and verdicts, act on grants of the present pass, and settle what a turn claims? | 2 actions, 2 requests, 2 payloads, 1 fault |
| `ledger_approval` | Is an approved proposal executed? No | 1 action, 2 requests, no fault |
| `turn` | One voice, weighed records, interrupted words kept, every turn ends? | 2 turns, 2 providers, 1 slot, 3 passes, 2 repeats, 1 fault or leaving client |
| `engine` | What do corrections and lessons in any order do to the judgement? | 5 responses, 2 advices, Spring and Summer, 2 turns, 2 lessons, 1 saved correction |
| `season` | Which season can be in force, and what does Spring let be learned? | both databases, 3 requests, 2 readers, 2 corrections, 3 records, 2 faults or restarts |
| `session` | Is each message reflected on once, each lived session ended and counted? | 1 session, 2 turns, 1 call of end, 2 passes that read 2 messages, 1 fault |
| `tiers` | Does one sweep, broken off anywhere, lose or double anything, and does what it holds fade if sweeps are asked for? | 4 items around every gate, 2 faults |
| `upkeep` | Does the crown stand, is one recall for good, are moves logged, is the rest forgotten if passes are asked for? | 1 memory, scores of 3, 13, 17 and 19 half points, 2 monthly passes and 1 yearly, 4 steps of 200 days, 1 recall, 1 fault |
| `upkeep_halflife` | Does a score halve in two hundred days? No | 1 memory of 13 half points, 1 monthly pass, 8 steps of 100 days |

**Bounds.** `MaxSent` bounds pushes: with frames of 3 and 6 bytes in 11, five frames put a
header and a payload across the end of the region at several positions and fill the ring
to the last byte. `MaxCrashes`, `MaxFaults` and `MaxOutages` bound what goes wrong; the interesting cases
need one or two. No statement of the ledger touches two rows, so two requests are all it takes for a race on one; the second action
is there for the second pass of a turn. Four turns and room for two messages let two echoes that nobody takes fill RX while two
messages wait in TX, a chamber be full, a turn go on without a dispatch, and one turn's echo be late for the next two. Two turns on one slot make one wait for the
other at each pass, and three passes with a guard of two repeats let either breaker strike
first. The five responses lie just within a bound, just outside, far outside, torn between a virtue and
its shadow, and far from integrity, and two lessons suffice for the second to be drawn from a reading the first has changed. Two advances
can overlap while a third finds what they left; the records are one too young, one just ready for Summer, one
ready for everything. Two turns bring six messages around two reflections that read two each, so one can
pass over what it found fresh. The four memories lie
on both sides of the gates at 3.0, 3.5 and 5.0, and the scores of `upkeep` on both sides of the lines
at 8, 16 and 19 half points. The proofs lift every one of these bounds for the properties they cover.

**Symmetry** is used in `season`, `session` and `engine`, which check no liveness property:
requests, readers, corrections, turns and calls are only compared.

**Deadlock** is checked in the runs of `ActionLedger`, in `tiers` and in `engine`. The other systems
really stop: their pushes, turns, calls or requests are used up.

**Fairness.** The event loop resumes every coroutine that can go on, so the next step of a
begun request is weakly fair (`ActionLedger` and `ChatTurn` with `Proceed`, `ForesightBridge` with a sleeping turn's `Loop`,
`MemoryTiers` with `SweepStep`, `LongTermMaintenance` with `PassStep`); a provider call answers, fails or times out (`Voice`);
the calendar goes on (`Tick`); a polling loop goes round (`ChamberRing` with `Pop`, `main.rs` 205-252; the spoke's `Serve`), and a
push once begun is straight-line code.
Nobody is obliged to push, to ask, to dispatch, to recall, or to begin a sweep or a pass, and faults, crashes, outages and
leaving clients are never fair.

**What the conditions in a property mean.** Some properties hold as long as something did or did not happen,
and that condition is part of the result. `OnceRecalledStays` and `MovesAreLogged` need that no two passes overlap, because each
writes back what it selected. `OnePlaceAfterSweep` and `GoneIsGone` speak of one sweep at a time. `TieredFades` and `FlatTire` speak of
a service that goes on being asked (`AskedAgain`, `AtWork`), because nothing else begins a sweep or a pass. `ChatSettles` leaves out turns whose client left and databases that failed; `DeedsRecorded`
is what it would say without. `LessonsMoveLittle` is about whatever was taught by whomever, and so all it can say is how fast; the run
has two lessons, the theorem any number; that they can add up to a violation read as aligned is why `HardFloor` fails. `InterruptedIsKept` speaks of turns that end in an error, not of those whose client left.

### Findings

Each is a passage of the code's own documentation that a run refutes; `PROJECT.json` quotes them.

1. **A stop does not leave the chambers clean** (`ring_reset`, `ipc.py` 117). `reset` does not wait for
   the spoke, which may store the `tail` of the pop it is in the middle of after it.
   The next service maps a chamber whose tail is ahead of its head.
2. **Approving an action never executes it** (`ledger_approval`, LS 3290). The call raises, the row stays
   `approved`, and no endpoint leads it anywhere.
3. **The half-life is not two hundred days** (`upkeep_halflife`, `mps.py` 1069). Each monthly pass writes the faded
   score back and leaves the date it is computed from, so the slope is applied to its own result; a memory of six
   and a half points is forgotten some three hundred days after it slipped.

### Stated, without a run

Definitions that say what a comment or a doc promises and that the model refutes, kept beside the properties
for a reader who wants to see the counterexample: put one into the module's `.cfg`.

* `SeasonAdvance!EarnedIsEntered`: "advance if so" (LS 1413). An advance that is earned raises at its block, since the pool
  has no `transaction()` (`Databases = {"pool"}`). The tests pass, for their database has one (`test_season_advance.py` 17-18).
* `SeasonAdvance!NoDoubleTransition` and `EngineFollowsSeason`, with `Databases = {"opening"}`: the comment on the row lock says there
  is "no double transition" (LS 1537-1538), but the lock ends with the statement that took it; the
  docstring says "the new polytope applies immediately" (1420-1421), but an engine whose bounds were read before
  the advance may be cached after its invalidation (1382). Neither bites as long as the block raises.
* `MemoryTiers!Fades`: "One pass every 48 hours (00:00, every other day) processes all three tiers at once" (`mps.py` 659), "the cadence
  remains the authority" (684). Nothing begins a sweep unless the endpoint is asked (682).
* `ActionLedger!DeedsRecorded`, with `MaxFaults = 0`: "Everything is audited" (`actions.py` 3-4), "the record of what she did" (38). A client that leaves
  between the execution of an action and its `finalize` leaves a deed whose row says `approved` for good.
* `ValueEngine!HardFloor`: "The polytope is NEVER bypassed" (VE 1486-1489). Without any advice, in Summer, with two responses of signals -100 and -60 on
  integrity: thirteen lessons drawn from the graver lie bring the milder one, a violation as it was said, inside.
* `ActionLedger!FailedGrantStaysPending`: the grant path of `propose` has the same call as finding 2 inside a `try` whose comment
  promises that the proposal stays pending; the claim is committed by then (LS 3235-3262).
* `ActionLedger!ModifierRunsOwnVersion`: `modify` writes and claims in two statements, so it can go on with another's version (3370-3378).
* `MemoryTiers!WaitsOutReprieve` and `JudgesTheStart` with two sweepers: a sweep that is asked for while another is under way purges what has only just
  failed its gate (`mps.py` 746). With two sweepers `GoneIsGone` and `OnePlaceAfterSweep` fail as well, and without any fault: what one
  purges or has moved on, the other still writes where its older finding leads. `PromotionsRecorded`: a promotion is written before it is logged (780-782).
* `ForesightBridge!ForesightIsOwn`: a turn takes whatever stands first in RX. Of two concurrent turns each may take the
  other's echo, also across sessions, and one echo that misses its window shifts all that follow (LS 1728).
* `SeasonAdvance!ListedAwaits`: a confirmed correction stays on the list of those awaiting agreement.
* `ChatTurn!WordsReachArchive`: words of the earlier passes of a stream, and of a stream whose client left, are not in the transcript
  that is to be "the full-text record of what was said" (LS 1074-1083).
* `ChamberRing!EverythingArrives`: a frame of no bytes would block its chamber for good (`ipc.py` 147, `buffer.rs` 200); no caller pushes one.

Noticed while reading, outside every property:

* Season: what is counted as an identity memory (LS 1193, `db/lina_schema.sql` 37) is never incremented for what formation
  crowns, and the notes she would write for herself are written nowhere, so Spring's minimum of identity memories is met only by a
  count that was there before; the runs leave the record open, for the day it is. The SQL function
  that would advance (578) is not called.
* Feedback: a saved correction may be confirmed any number of times and over-corrects; learned biases vanish with
  the engine, on an invalidation or a restart; a turn confirms patterns by herself without asking whether they are known
  (`is_known_pattern` has no caller).
* Engine: the third rule of complements overwrites the first two where a pair is torn; the score of a corrected vector is always 0.
* Reflection: the minor reflection is written to run every half hour and begins as little as the sweeps do (`mps.py` 500); what
  `session` shows of it holds of the pass as its callback would run it.
* Season: with four requests and a block that opens, the season can even go back.
* Turn: a provider error in the second pass or later is not turned into a 503; the evaluation appended "so LINA can see it next turn"
  is not part of any prompt; a stream of blanks counts as speech.
* Sessions: the end clears messages appended while it ran (they survive in the transcript only); the end does not review moments although its
  docstring says so; a minor reflection reads the last twenty messages and marks all.
* Ledger: `memory_recall` and `memory_write` are described as grantable (LS 967-968) but are not types it accepts
  (`actions.py` 45-48); `finalize` clears `error` on failure as well; `modify` replaces the payload and with it the session
  the fruit should return to.
* Maintenance: a memory recalled once is never penalised again; scores have no upper clamp on the dial; `must_keep` is always false.
* The telemetry stream goes silent once its ring of events is full (LS 3461), two turns share one browser page (`browser.py` 62-74),
  Triton handles SIGINT only and so ends on SIGTERM in mid-call.

## 4. What is proved

Eight modules hold theorems; each follows from the assumption that its component states of its constants and from
nothing else. In each the property is not inductive alone, and the invariant says what carries it.

`BridgeProofs`, of the ring, from `RingAssumption` (a positive header, a capacity above it, sizes in Nat):
`TypeCorrect`, `CapacityRespected`, `FramesStayIntact`, `FirstInFirstOut`, `HeadersReadable`, and
`RingImplementsPipe` (the step-wise refinement of `MessagePipe`). The invariant adds where the counters stand relative to `start`, the history of frame
boundaries: `head` is the last start and `tail` the start of the first frame not popped, starts grow by exactly
one frame, a producer past its check has room for its frame ahead of `head`, what it has
written so far is there, and what the consumer has copied is the payload of the frame at `tail`.
The arithmetic heart is one lemma: a write of at most `Capacity` minus the unread
bytes, from `head` on, changes no cell of an unread frame, wrapped or not. Of `ChamberStop`, and as the counterpart of
finding 1, it proves what of a clean stop does hold: `HeadStaysReset` (the service's own counter stays 0, since nobody pushes)
and `CleanStaysClean` (a stop that meets the spoke between two pops is clean for good, so one pop under way at the
reset is the only way to dirty a chamber, and a wait for it would be the repair).

`BridgeProofs`, of the bridge, from `BridgeAssumption`: `BridgeTypeCorrect`, `OrderIsKept`, `NoEchoTwice`, for any number of turns,
deaths of the spoke and restarts. The invariant adds that nothing under way or taken has a
number that was not dispatched yet; with `EchoesInOrder` this makes every append go behind, and
every take come before, all that is under way. `EchoOnce` follows since a taken echo lies behind everything
that is still to be taken.

`ActionLedgerProofs`, from `LedgerAssumption`: `TypeCorrect`, `LedgerTellsTheTruth`, `OneHolder`,
`LedgerImplementsGate`, `NothingUnaskedIsClaimed`, `AVerdictStands`. The invariant ties the program counters to the rows: whoever stands
at `run` or `finalize` is the claimant of a row that is `approved`, an action runs only
for its claimant, it has not run while somebody stands at `run`, and has run exactly once, with
the row's payload, while somebody stands at `finalize`; a turn that is cancelled in between breaks none of this. For
the grants it adds (`Trust`) that the season a request holds is not ahead of the user's, that the grants it holds were granted
since its proposal or present pass began, and that whoever stands at the claim holds the one or the other.

`MemoryTiersProofs`, from `TiersAssumption`: `Typed`, `NothingIsLost`, `PermanenceInborn` and `TheLogIsTrue`, for any number
of overlapping and broken sweeps. The invariant says that an item about to be deleted is in
the stage it was judged into, that what a sweep has in hand scores below the long-term gate,
and that what is in fallout has failed a gate above its score. For the log it follows an item that has passed
a stage: it is there or further on, and a sweep about to log a climb has made it (`Past`, `Climbs`, `Marked`).
`PurgedStaysPurged` and `OnePlaceOnly` have the hypothesis `OneSweeper`: one sweep at a time, with any faults and
restarts. The hypothesis is needed: a second one beside it can move what is being purged. Their invariant
(`SoloInv`) says that an item in two places is in neighbouring ones, the lower a tier and the upper where the verdict on it leads
(`Neighbours`), and that a sweep has found it in every place it has scanned, but for the move it is making (`Whole`); since
it works from the lowest tier up, what it judges has no copy below. `TriggerMeetsTheGate` is about the valuation: what
she was asked to keep scores at least five points, whatever its factors. `PermanenceIsGuaranteed` adds that what
meets that gate is never where a sweep could find it, again for any number of sweeps.
Together they are the claim of VE 1131, "a trigger guarantees permanence".

`SeasonAdvanceProofs`, from `SeasonAssumption`: `Typed`, `TrustIsDemonstrated`, `SpringAsks`, for the pool and for a database
that opens the block, and any number of requests, readers, faults, restarts and any records. The invariants follow a promise
through the request that carries it: past its check it writes an earned season (`Carried`), a confirmation at hand was flagged (`Asked`).

`SessionLifecycleProofs`, from `SessionsAssumption`: `SessionTyped`, `NothingFormedTwice`, `NoGapBelowMark`, `EndsAreCounted`,
`EndClearsTheBuffer`, `LivedIsEnded`, for any number of sessions, turns, calls of session end, batches of the
pass and faults. The invariant has a part for each: a message stands in one session's list only, and a pass holds
messages of its own session (`Apart`); above the mark nothing was formed, except between forming and marking (`FormInv`);
a pass has read, or an earlier one gone by, whatever stands in the list (`MarkInv`); the ended sessions are
finitely many and counted, but for those a call is about to count (`CountInv`); a call that found its session lived still has its
transcript, then its row, then its end (`LivedInv`).

`LongTermMaintenanceProofs`, from `MaintenanceAssumption`: `Typed`, `CrownHolds`, `OneRecallIsForGood`,
`PromotionsAreLogged`, for any memories, scores, passes and any curve of the slope. A pass decides by copies, so the
invariant says how a copy stands to its row: with any number of passes, protection is the same in both
(`Copied`); with one at a time, only a recall has touched the row since, and a held row's move is in the log (`SoloInv`).

`ChatTurnProofs`, from `PoolAssumption` and `TurnAssumption`: `Typed`, `SpeaksWithOneVoice`, `WeighedAsSpoken`,
`NothingSpokenIsLost` (of turns that end in an error), `NoSlotIsLost`, for any number of turns, providers, slots and any ceilings. A slot is free or held by exactly
one call being answered (`Slotted`, over the cardinality of those calls), who stands in the queue waits and stands there
once (`Queued`), a call is heard by the provider it is at (`Voiced`), what is about to be recorded was judged last (`Judged`).
Behind `EveryTurnEnds` stand two theorems for any constants. `EveryStepIsSpent` gives a turn a number that each of its steps lowers,
its passes counted up to `MaxToolPasses` and in a pass what is left of the turn's way and of the call's (`Left`), and that no step
of another turn changes. `NobodyWaitsForNothing` says that until a turn is over there is a step to wait for. The invariant adds
that a call is out exactly while its turn drains, awaits or is over, and that a call that waits stands in the queue (`Paced`).

`ValueEngineProofs`, from `EngineAssumption`: `Typed`, `OnTheEdge`, `FloorLowersSlowly`, `AlignedStays`, for any bounds between 0 and
1 and any responses and numbers of lessons, so not for the code's numbers only. `FloorLowersSlowly` is what remains of the hard
floor: after n lessons by anybody, from any readings, nothing is read inside that was further off than n twentieths. Its invariant
(`LearnedLittle`) bounds each bias by the lessons learned, whatever they said. For `AlignedStays` the invariant keeps that a
lesson of the engine's own, saved or about to be taught, points inward (`TurnsJudged`, `PendingInward`).

Every type invariant is a theorem; only that of `session` is a property of a run as well.
Every safety invariant and action property of the passing runs is a theorem.

Only model-checked: all liveness (`ChatSettles`, `EveryTurnEnds` of turns and of the bridge, `SpokeKeepsUp`, `TieredFades`,
`FlatTire`, and the fairness in `ImplementsPipe`), since fairness and `ENABLED` are out of the prover's reach; of `EveryTurnEnds`
of turns what remains is the step from a bounded number of steps, one of which can always be taken, to the end under fairness. What the runs refute
(`ResetIsClean`, `ApprovalExecutes`, `HalfLifeHolds`) or the model (section 3, "Stated, without a run") is, of course, not proved either. `OnePlaceAfterSweep` and `GoneIsGone` are proved and
checked for one sweeper only.

## 5. What is not modelled

* Recall is similarity of embeddings in floating point; what it does to the rows is `LongTermMaintenance!Recall`. The encoder's
  word lists, the prompts and the texts of reports decide nothing that a property is about.
* Speech, vision and the browser client are calls to the outside; metrics and telemetry are counters and a ring of events
  that nothing decides by; the web app (`pwa`) is a front end. Two hazards of theirs are listed.
* What an executed action does to files and processes is one abstract step.
* The order in which the services start and the creation of tables at start are straight-line code.
* Two spokes on one chamber: a spoke that outlived a crashed service would pop beside the next one (LS 3605). It is ended by its
  first write to the closed pipe, and the window is not modelled.
* `src/docs` and `src/aiomisc` are copies of other projects' sources and documentation (combinatorics, polytopes, an asyncio
  library). They are no part of this program, though they are most of the repository's lines.

## 6. Plan

1. Theorems about single lessons of `ValueEngine` in a row: what a sequence of a user's lessons can move a reading by.
2. The same two theorems as for a turn's progress for a sweep of the tiers (behind `TieredFades`) and for a maintenance pass.
3. A bound on how early the slope forgets (`LongTermMaintenance`), as the counterpart of finding 3.
4. The stream of telemetry and the shared browser page as small modules.
5. The composition of a turn with the ledger's passes, so that a pass's fruit and its record are one behaviour.
