# Verification of Squallar in TLA+

Squallar draws weather radar, satellite, lightning and overlay data on a map, as a
native program (desktop, Android, iOS) and as a page in a browser. The code is Rust.
This directory holds TLA+ models of the parts of it whose correctness depends on the
*order* in which things happen, the TLC runs that check them on small instances, and
proofs, checked by the TLA+ proof system (TLAPS), of what matters most for instances of
every size.

    tlc -workers 2 -config JobFunnel_contract.cfg MCJobFunnel     # one run
    tlapm JobFunnelProofs.tla                                     # one proof module

`PROJECT.json` lists components, runs, mutants, the source lines behind each definition,
the hazards and the theorems.

## 1. The system

### 1.1 Parts, their state and how they interact

The interface thread owns nearly all mutable state: one `App` whose frame handler polls
channels, decides what the panes need and hands described work away. What makes
behaviour hard is at the edges of that thread, in four groups.

**Off-thread work** (`squallar-worker`, `squallar-web`). *Modelled.*

| component | state | operations | talks to |
|---|---|---|---|
| Offload funnel, `squallar-worker/src/offload.rs` | `PENDING` (process-wide registry of jobs a sink owes), `WORKER`, `LANE`, `SINK_WAIT` (thread-locals), `NEXT_ID`, `NEXT_SINK` | `offload_job`, `dispatch`, `wait_for_sink`, `set_worker`, `abandon_worker`, `set_lane`, `abandon_lane`, `offload_to_lane`, `expect_sink`, `flush_expired_sink_wait`, `deliver_job_reply`, `cancel_job`, `run_here` | every caller that renders or decodes; one installed `JobSink`, one tile lane |
| Native pool, `offload/pool.rs` | two unbounded channels, their threads, the rd-free lane | `Handle::send`, `lane`, `lane_job`, `run`, `run_free` | the funnel's registry (`job_is_owed`, `deliver_job_reply`) |
| Page side of the worker, `worker_port.rs`, `worker_retry.rs` | `GENERATION`, `BACKOFF`, `RESPAWN_SCHEDULED`, the installed ports, timers | `attach`, `spawn`, `lose`, `schedule_respawn`, `handle_message`, `handle_lane_message`, `deliver`, `Port::send`, `LanePort::send` | the funnel (`set_worker`, `expect_sink`, ...), the worker by `postMessage` |
| Worker and tile lane, `worker.rs`, `worker.js` | the job it runs, its book of lent replies, the nested lane worker | boot, `handle_message`, `handle_job`, `post_result`, `spawn_tile_lane` | the page |
| Loans of linear memory, `shared_loan.rs` | a `LoanBook` on each side | `lend`, `release`, `release_all` | both ends of every message |
| Deferred frees, `offload.rs` `discard`/`file_deferred`/`drain_deferred_drops`, `pool.rs` `run_free`, `squallar-device-profile/src/discard_ledger.rs` | a frame-paced queue, a lane, an atomic ledger of the bytes either holds | `discard`, `drain_deferred_drops`, `run_free` | the budgets that read the ledger |

**Live and looping radar data** (`squallar-radar`, `squallar-app`). *The chunk feeds and
the loops' volumes are modelled.*

| component | state | hard behaviour |
|---|---|---|
| Chunk feeds, `chunk_feed.rs`, `app_chunks.rs` | per site: poller, errors in a row, due time, `in_flight`, `retired`, the volume it has | at most one round per site in flight; notifications, timers and rounds that land after the site was dropped; falling back to the archive |
| Loop downloads, `loop_downloads.rs`, the sweep of `app.rs`, the pump of `app_render.rs`, `app_fetch.rs` | per site: decoded volumes, compressed archives on the heap and on a medium, what is known of their identity, in-flight marks, reserved bytes, the slots in use, a plan and its queue | one mark for downloads, decodes and restores; five evictions in one sweep over two half-caches; a decode that the next sweep throws away; replies that land after the loop moved on |
| Merge base, `volume_inventory.rs`, `app.rs`, `app_fetch.rs` | per site: the newest volume, whether it has its gates, `base_gate_asks` | gates dropped when nothing reads them, against an archive that must still be there when something does |
| Fetches, `app_fetch.rs` | generation counters per kind of fetch, replies in channels | a stale reply applied to a newer selection |

**Panes and drawing** (`squallar-app`, `squallar-egui`, `squallar-gpu`). *The first two are
modelled, for plan views on the polar-plane surface.*

| component | state | hard behaviour |
|---|---|---|
| Render dispatch, `render_dispatch.rs`, `app_render.rs`, `pane.rs` | per pane the key in flight and the tilt last rendered, the pool's slots, a cache of pictures, the panes' own glass | panes that wait behind each other's renders; a delivery, a close or a lost surface while renders run; two records of what a pane shows |
| Scan requests, `app_fetch.rs`, `render_dispatch.rs` | the newest request per site and per pane, requests in the air | an answer that was superseded, for a pane that has moved on or been closed |
| Volume inventory, `volume_inventory.rs` | decoded volumes shared by panes, bytes | eviction of one that is on screen; two panes decoding the same volume |
| Tile source, `tile_source.rs` | tiles wanted, fetched, styled; batches with the lane | a batch the lane lost, the fallback on the page's thread |
| Frame pump and window gate, `frame_pump.rs`, `window_gate.rs` | next wake-up, occlusion | a wake-up lost while the window is hidden |
| GPU staging, `staging_ring.rs`, `gpu/pressure.rs` | ring of mapped buffers, GPU recovery | a buffer reused before the device is done with it |

**Offline areas** (`squallar-egui`). *Modelled.*

| component | state | hard behaviour |
|---|---|---|
| Basemap downloads, `basemap_download.rs`, `basemap_areas.rs`, `ui_offline_areas.rs`, `ui_config.rs` | the store's directory, one run and one maintenance worker on threads of their own, records and their saved copy, what the store last said of each area | a crash at any byte; a cancel, delete, resume or update while a run writes; a store that is asked while it changes; segments of two archive generations under one name |

**Memory and admission** (`squallar-device-profile`, `squallar-app/src/recovery.rs`,
`squallar-egui/src/admission.rs`).

| component | state | hard behaviour |
|---|---|---|
| Recovery ladder, `recovery.rs` | a stack of steps taken, acts, held readings, promotions, churn | oscillation between acting and undoing; the ceiling that never rises on a squeeze |
| Budgets, `budget.rs`, `admit.rs`, `admission.rs` | prices of work against what a device has | admitting twice what fits |

Outside these: pure decoders and numeric products (`nexrad-level3`, `squallar-netcdf`,
`squallar-radar`'s algorithms), the raymarcher (`squallar-volumetric`), leaf crates
(`squallar-geo`, `-units`, `-kv`, `-alloc`, `-nmea-serial`), the location gate, platform
shells and packaging. They are listed in `PROJECT.json` with the reason each is left out.

### 1.2 What makes each modelled part correct

*Offline areas.* What the list says of an area must be true of the bytes: a segment under a
published name is whole whatever died when; a run that says Complete left every segment; the
bytes moved are the bytes quoted; a row that was answered and says whole is right; a row does not stay at
"Checking storage..." for ever; a record dates the bytes it stands for; a deleted area
leaves nothing.

*Loop volumes.* A mark in flight stands for exactly one errand, or a frame is fetched twice
or never again. A frame in the loop keeps some form of its volume. A base that gave its
gates away has an archive to decode them from, and a reader gets them. Slots come back.
The site comes to rest when it is left alone.

*Panes.* A mark in flight has an answer on its way, or the pane and everybody who waits
behind it is blank for good. A render that may still answer is of the volume its pane has.
What the dispatcher believes painted is painted. Every pane gets its picture in the end,
whoever's render it waits behind. A pane parked in the archive holds its moment.

*Chunk feeds.* The poller that was lent for a round comes back, rounds do not overlap, a
closed volume is handed on once and in order, and a site that is watched is polled again.

*Off-thread work.*

A caller of `offload_job` hands over a `deliver` closure that carries a pane's render
slot, its in-flight mark and the reply channel. The closure must run exactly once on
every path: a closure lost is a pane that never renders again in the session, one run
twice frees a slot somebody else holds. The closure can be in the registry, in the wait
for a worker that is expected, in a list being handed over, or with a fallback run; and
it can be reached by a reply on any thread, a cancel, a refusal by the sink, a replaced
or abandoned sink, an eviction from the wait, or the lapse of the wait. The browser adds
workers that fail to boot, die in the middle of a job, are replaced while their messages
are still queued, and memory that is lent to them by address.

`PROJECT.json` lists each such hazard at its source line with the properties that would
catch it.

## 2. Modules

| module | models | composed of |
|---|---|---|
| `OffloadContract` | what a caller of the funnel is promised, abstractly | - |
| `JobFunnel` | `offload.rs`; what a sink does is left open | refines `OffloadContract` |
| `JobPool` | `offload/pool.rs` | extends `JobFunnel` |
| `WorkerPort` | `worker_port.rs`, `worker_retry.rs`, `worker.rs`, `shared_loan.rs` | extends `JobFunnel` |
| `DiscardLedger` | `discard` and its two routes in `offload.rs`, the rd-free lane of `pool.rs`, `discard_ledger.rs`, the frame loop of `app.rs` | stands alone: it shares no state with the funnel |
| `ChunkPoller` | one round of a poller, `chunks.rs`, as the set of ways it can end | pure: no variables |
| `ChunkFeed` | one site's feed, `chunk_feed.rs`, driven by the frame of `app_chunks.rs` | extends `ChunkPoller` |
| `SegmentPlan` | how an area is cut into segments and a segment into reads, `plan_area` and `coalesce` of `basemap_download.rs` | pure: no variables |
| `AreaDownload` | the engine's run and the native store, `basemap_download.rs` | extends `SegmentPlan` |
| `OfflineAreas` | the frame thread, the maintenance worker, records, saves, crashes: `ui_offline_areas.rs`, `ui_map.rs`, `basemap_areas.rs`, `ui_config.rs` | extends `AreaDownload` |
| `LoopDownloads` | the download manager of one site, `loop_downloads.rs`, and the pump of `app_render.rs` | operators on one record, the variable `mgr` |
| `LoopVolumes` | the handlers that drive it: the sweep of `app.rs`, `app_fetch.rs`, `app_render.rs`, `volume_inventory.rs` | extends `LoopDownloads` |
| `RenderPanes` | what panes show and the dispatcher has under way: `render_dispatch.rs`, `render_key.rs`, `pane.rs`; scan requests, `app_fetch.rs` | state and operators |
| `PaneRender` | the frames (`app.rs`, `app_render.rs`), the render threads, the user | extends `RenderPanes` |
| `JobFunnelProofs` | proofs about `JobFunnel` | extends it |
| `WorkerPortProofs` | proofs about `WorkerPort` | extends it and `JobFunnelProofs` |
| `DiscardLedgerProofs` | proofs about `DiscardLedger` | extends it |
| `ChunkFeedProofs` | proofs about `ChunkFeed` and `ChunkPoller` | extends them |
| `JobPoolProofs` | proofs about `JobPool` | extends it and `JobFunnelProofs` |
| `LoopVolumesProofs` | proofs about `LoopVolumes` and `LoopDownloads` | extends them |
| `OfflineAreasProofs` | proofs about `OfflineAreas`, `AreaDownload` and `SegmentPlan` | extends them |
| `PaneRenderProofs` | proofs about `PaneRender` and `RenderPanes` | extends them |
| `MCJobFunnel`, `MCJobPool`, `MCWorkerPort`, `MCDiscardLedger`, `MCChunkFeed`, `MCOfflineAreas`, `MCLoopVolumes`, `MCPaneRender` | values for TLC's instances | extend the module they name |

### 2.1 JobFunnel

One action per operation of `offload.rs`. A job is a model value; its payload, codec and
priority are not told apart. `fate[j]` says what became of the job's `deliver`:

| fate | in the code |
|---|---|
| `new` | the caller still has the job |
| `owed` | the funnel holds `deliver` |
| `value`, `nothing` | `deliver(Some(..))`, `deliver(None)` ran |
| `returned` | `offload_to_lane` handed the request back; `deliver` was dropped by contract |
| `dropped` | the thread of `run_here` panicked, which drops `deliver` unrun |

`dispatch` is split where the code lets go of control. `Offload`, `HandOver` and
`OffloadToLane` register the entry and enter `send` (`sending`); `SendTaken` and
`SendRefused` are the return of `send`. In between any reply, cancel or fallback thread
may act, and natively another thread may dispatch: `PENDING` is unlocked while `send`
runs. `Idle` and `SomeThreadIdle` say who may call: thread-locals are replaced only by
the page's one thread between two calls, while native threads dispatch beside each
other. `hand_waiting_jobs_to_the_sink` is a loop of `dispatch` calls, so it is a list
(`todo`) with one action per turn.

`SINK_WAIT.until` is the number of the window `expect_sink` armed; every caller passes
the same constant window, so later windows have later deadlines, and the clock
(`DeadlinePasses`) passes them in order. A lapsed wait is noticed by the next
`wait_for_sink` or by `flush_expired_sink_wait`, as in the code, and by nothing else.

`deliver` itself is taken not to panic and not to call back into the funnel.

### 2.2 JobPool

Native builds: each thread starts with the pool's handle as its `WORKER`, nothing calls
`set_worker`, `set_lane` or `expect_sink` outside tests, so `JobPool` leaves those actions
out. One `worker` stands for every thread's handle of the one pool. `Handle::send`
routes by the row's kind (`overlay/` and `terrain/` to the interactive lane), appends to
an unbounded channel, or returns the request when no thread of the lane could be started.
A lane's thread receives (`Recv`), claims against the registry (`Claim`, `lane_job`),
executes under `guarded` (`Execute`) and delivers (`Deliver`); each is a step of its own.

### 2.3 WorkerPort

The browser. The page runs handlers to completion: `PageFree` holds between handlers, and
a handler that makes several calls (`lose` is four) keeps the page busy through `turn`.
The worker, the lane, timers and the clock interleave with it. Messages are FIFO per
process and generation; `generation` is the page's counter and each message carries the
generation of its worker, which is what `handle_message` compares.

`Terminate` ends both processes at once and drops what the worker itself had posted; the
lane posts over a `MessagePort` of its own, whose queue survives. A post to a lane whose
worker is gone succeeds and reaches nobody. A worker is modelled to boot, to fail while
booting, to be of another build, to throw between or inside jobs, or to do nothing at
all. `lent` is the page's `LoanBook`, `owed` each process's.

### 2.4 DiscardLedger

Two threads: the frame thread, whose `phase` walks through `handle_redraw` (head, drain,
window gate, tail, rest), and the pool's one free thread. `Builds` says which targets an
instance has, and whether the free thread was started; wasm never has one. A discard on
the native route is two steps, `PriceOntoLane` and then `SendToLane` or `LaneRefuses`,
because the free thread may act in between; the page's route is one, because its queue
and its total belong to one thread. `falling[t]` is the payload a thread is dropping: its
`Drop` may discard the payloads in `Inner`, from whichever thread it runs on. What becomes
of the clock behind the drain's budget is a free choice after each free.

A frame starts only when one was asked for (`asked`). `FrameEnds` asks for the next one
when the queue holds anything; a frame of a hidden window returns at `Gate`, before that.
`AskForFrame` stands for input, timers and arrivals, and has no fairness. Showing a
window again is taken to come with an event that asks for a frame. The struct size of a
payload is taken to be at least one byte: nothing zero-sized is discarded.

### 2.5 ChunkPoller and ChunkFeed

A site that a pane watches live is fed from a bucket to which the radar uploads each
volume in chunks. The manager's feed lends its poller to a detached task for each round
(`feed.poller = None`, `inFlight`), and the frame puts it back when it drains the task's
`ChunkResponse`. `rounds` holds what is out. Nothing shares a poller while it is out, so
a round is not followed await by await: `ChunkPoller` says how it can end, and the end of
a round and its arrival on the frame are one step, `PollChunkResults`. That step works on
the feed that is there *then*, which need not be the one the round was taken from:
sites are not matched with feeds by anything but their name.

A frame has two parts. While `phase` is `idle`, arrivals are drained and the user may
hide or show the site (`shown`) or switch live chunks (`enabled`). `DriveChunkFeeds` enters
`drives`, where notifications are acted on (`NotifiedSite`, `FetchNotifiedChunk`, also for
a site no pane is live on any more), and which ends in `RetainLive` (the feed goes) or
`TakeForRound` (`ensure`, and a round if one is due). `ensure` and `take_*` are operators
on the feed (`Ensure`, `ShouldPoll`, `TakeNow`, `Borrowed`, `FinishRound`), since the code
calls several of them in one handler. `overtaken` is auxiliary: it remembers that a feed
was made while a round was out.

Time is what it makes true: `due`, `stalled` and `waited` stand for `suggested_interval`,
`STALL` and `RETRY_AFTER` having passed, and any of them may pass at any moment, which
covers every cadence. `last_volume` is not kept apart: it is read only from a retired
feed, which has its poller, and equals that poller's volume.

A volume is the number of its start; of its chunks the model keeps the one its start time
is learned from and the one it ends with. `owed` is auxiliary: the volumes a roll closed
and no `Ok` has carried yet. `newest` is the bucket, which only grows; `aged` the last
volume older than `VOLUME_STALE`. That is three volume periods, so with three volumes
none is aged until the radar has stopped (`RadarFallsSilent`).

### 2.6 SegmentPlan, AreaDownload and OfflineAreas

`disk` is the store's directory: for each file name (area, archive, segment number, `.part`
or `.pmtiles`) the generation its bytes are of, who has it open for writing, and whether a
write of it ended before its end (`torn`). `publish` is four steps: `OpenPart`, the end of
the write, the rename, and its failure, which removes the `.part`. So two runs on one area
share a `.part` the way two processes share a path: the second `std::fs::write` truncates
what the first one fills.

A run (`engines[e]`) is a thread. `PrepareBasemap` and `PrepareTerrain` list the store, cut
the area and choose what is missing; `Fetch` is one coalesced read; a segment fails on its
own; `Carried` is the `retain` that gives up spans whose last user has passed. The figures
a run shows while it works are left out; those it ends with are kept.

The frame thread holds one run (`active`). Replacing, cancelling or deleting it drops its
runtime, which joins the run's thread (`dropping`): the run is gone at its next await, but
never in the middle of a write. `start_area_download` makes the new run before the
assignment drops the old one, so for a while two may be alive on one box (`doubled`).
The maintenance worker takes reconciles and removals in order; a removal works through the
names it read once. `Relaunch` is the death of the process at any step, and a next launch
that reads the same archive generation or a newer one; what is on the disk and what was
saved survive. `saved` trails `records` by `autosave_config`.

The archive is given as the area's tiles with their spans. `Bytes` counts the bytes of a set
of spans, each span's its own, which is what `plan_area` and the engine add up for distinct
spans. `Pack` takes one tile into a plan, and `PlanArea` packs them all; of `coalesce` the
model needs the first read, which `FirstRead` picks out by what the merging comes to: the
spans that no gap above `CoalesceGap` parts from the lowest. The model's tiles share a span
across segments and lie far enough apart for two reads.

The worker's inbox and the job it is on are one line: `Asking(a)` says that a question about
`a` is still in it. `Answered(a)` is that `a` was asked about, that nothing is still to be
answered, and that the store could be listed when the last answer was given (`unlisted`, which
an answer takes `a` out of).

### 2.7 LoopDownloads and LoopVolumes

`mgr` is the `LoopDownloadManager` as far as one site and one pane go. A volume is held
under its address, the time its file is named by; its identity, the time of its first
radial, is learned from a decode, and two addresses may have one identity. All volumes have
one price, so the byte ceilings are numbers of volumes. `out` is what is under way: an
errand is fetched, then decoded if there was room, and then a reply in the channel.

An operation of the manager is an operator from record to record, because one handler
calls several: the sweep is `RetainPlanFrames`, `RetainArchives`, `RetainScans`,
`EvictDecodedExcept` and the two ceilings in the order of `evict_unneeded_loop_scans`, and
then the release of the base. The pump, `Pump`, offers decodes for the free slots and the
room left, then starts downloads; of these only downloads are counted, while every reply is
counted back. Handlers come in any order here: a frame's fixed order is one of them.

`VolumeArrives` is a volume from the poll or whole from the chunk feed. Renders and their
dispatch are one step, since what they read here is only whether the volume is decoded.

### 2.8 RenderPanes and PaneRender

The panes are kept twice. `panes` is the interface's: site, tilt, whether the radar layer is
on, the volume delivered last (`vol`, the request it came with) and what the glass shows.
Panes beyond `count` are hidden and keep their state. `prs` is the dispatcher's: the
`RenderKey` in flight for the pane and the tilt it last rendered there (0: none). A key has
the site and the tilt and no volume. Pictures are polar planes, which are drawn from host
memory; product and view are fixed.

`phase` walks through a frame: volumes are taken off the scan channel (`Ingest`, any of
those that have arrived, since channels of different sites do not order each other),
`ensure_pane_count` grows the records, replies are taken off the render channel (`Receive`),
the visible panes are walked (`walk`) and each gets what `dispatch_pane_renders` does for
it: nothing, because it is settled, waits behind a sibling that renders its key, or finds
the door or the pool full (`Pass`); a picture from the cache (`FromCache`); a render
(`Spawn`); or it gives back what it holds (`GiveBack`). With the drawing comes at most one
act of the user or the platform. A delivery resets its site (`ResetForSite`): the marks and
tilts of its panes, hidden ones included, the flags of their renders, its part of the cache.

A job in the pool runs, decides by its flag whether its answer is wanted (`Decide`), sends
it, and leaves; these are steps of their own, since the frame thread may reset, close or
dispatch between them. A job whose worker was lost comes back without a picture
(`ComeBackEmpty`) and is sent all the same. `Answered` paints the pane that asked and every
visible sibling that wants the same key, and may start a render ahead (`Speculate`), which
answers pane 0, the cache alone.

`acts` counts what is not the program's own doing: the user, the platform, and failures.

## 3. What TLC checks

Deadlock is checked for the chunk feed and the panes, whose frames always have something to
do, and for nothing else: every other one of these systems may run out of work.

| run | instance | what it shows |
|---|---|---|
| `JobFunnel_contract` | 3 jobs, a wait of 2, one window, two installations of sinks in the browser | types and bounds (`TypeOK`); each owed `deliver` is in exactly one place (`Custody`); worker and lane retire only their own (`RetiresOnlyItsOwn`); held jobs leave oldest first (`OldestLeavesFirst`); the funnel implements `OffloadContract`, liveness included (`KeepsContract`) |
| `JobPool_stalled` | 2 radar jobs, 1 map job, 2 + 1 threads, any of which may fail to start, the described ones stuck for ever | an entry of the registry is in `send`, in a channel or in a thread's hands, and in one of them only (`OwedIsCarried`); a job is executed at most once whoever ends up with it (`ExecutedOnce`); the map's jobs settle, and if the described threads do get on, every job does (`JobsSettle`) |
| `WorkerPort_safety` | a render and a tile batch, 2 workers, 5 sinks, 2 windows | something will come for each job that is held: a worker or a scheduled respawn, never both, and a timer for its window (`SomethingWillCome`); what a live process may still read is lent, and no render's loan is forgotten (`LentWhileRead`) |
| `WorkerPort_live` | a render, 2 workers | a render settles whatever the worker does (`RendersSettle`); lent replies are freed (`RepliesAreFreed`) |
| `DiscardLedger_routes` | 4 payloads, one discarded by another's `Drop`, two that declare no price; wasm, native with and without a free thread, mobile with one | both totals are the price of what their route holds, a total of zero means that nothing is held, and each payload is held by one route, once (`LedgerIsExact`); the loop does not rest on a queue (`QueueKeepsTheLoopAwake`); each payload is freed unless the window is hidden (`EveryDiscardIsFreed`) |
| `ChunkFeed_rounds` | 3 volumes; two rounds out while the first is the newest, then one; 2 errors in a row retire | a feed without its poller waits for a round that is out (`PollerComesHome`); rounds are serial unless a feed was made over one in the air (`OneRoundUnlessOvertaken`); a closed volume leaves on an `Ok`, once, oldest first (`ClosedVolumesQueue`); a watched site is polled again and again (`SiteIsPolledAgain`) |
| `ChunkFeed_silent` | 2 volumes, one round out | **violated**, see 6 |
| `OfflineAreas_store` | 1 area, 2 archive generations, 2 runs and a delete, a crash and relaunch at any step | what is published is whole (`PublishedIsWhole`); a Complete run left every segment (`CompleteIsListed`) and moved what it quoted (`TransfersTheQuote`); a row that has had its last answer and is drawn as whole is whole (`WholeRowIsWhole`); no row stays at "Checking storage..." (`RowsAreAnswered`) |
| `LoopVolumes_site` | two volumes under three addresses, room for two decoded, one archive on the heap and one on the medium, two errands at once | each mark is one errand (`OneErrandPerMark`); a base without gates has its archive (`ReleasedBaseHasWayBack`); a listed frame keeps a form of its volume (`ListedFramesKeepAForm`); a plan's downloads get their slots (`DownloadsFinish`); a reader gets the gates (`ReaderGetsGates`) |
| `LoopVolumes_treadmill` | the same with one errand at a time | **violated**, see 6 |
| `PaneRender_frames` | 2 panes that share their time, 2 radars, 2 tilts, 2 render slots, a cache of 2; any two acts | a mark has an answer (`MarksAreAnswered`); an answer that is wanted is of the volume the pane has (`WantedIsCurrent`); a settled pane is painted (`SettledIsPainted`); every pane settles (`EveryPaneSettles`) |
| `PaneRender_moments` | the same panes out of the shared time, one act | **violated**, see 6 |

**Bounds.** `SinkBound`, `WindowBound` and `GenBound` cap how often sinks are installed,
windows armed and workers started; they are guards of the actions that count, named in
the modules, and each is large enough for a thing and its replacement: a worker and a
lane, a second worker while the first one's messages are queued, a second window whose
timer runs beside the first one's. The first of a sink's numbers is 2, so that a bound of 3
is two installations. A wait of 2 with 3 jobs overflows. The funnel alone arms one window;
that a second one is armed beside the first is left to `WorkerPort`, where timers are
modelled. With the ids of two generations in flight a third adds no new pair of
stale and current. `WorkerPort` with two renders under fairness takes longer than the
five minutes a run is given, so its liveness is checked with one render beside an idle
lane; two renders contend only for the worker's inbox, which is a queue.
`VolBound` caps the volumes of a feed: three, so that a second volume can close while the
first one is still parked. `Tasks` and `Room` cap the rounds out at once. Two is what a
feed and its predecessor make; a third needs a second rebuild and meets the same
`finish_round`. At the cap the feed is taken nowhere, which is the same as an interval
that lasts longer or a notification that got lost. Two errors in a row retire instead of
`MAX_CONSECUTIVE_ERRORS`, three: the count is only compared with its limit.
`OfflineAreas` bounds what the user does: two starts make a resume, an update, and two runs
on one box; one delete and one relaunch fall anywhere between their steps. The older
archive's cut has two base map segments that share a span and one of terrain, the newer
one's a single segment of the base map, so an update finds names it did not write and
names beyond its own cut.
`MoveBound` bounds what the user, the radar and failing jobs do to a loop: three is a loop
enabled, a volume from outside it and one more thing, a reader, a disabled loop, another
volume. What the handlers do between those has no bound. Three addresses and ceilings of
two and one make each ceiling bite; the run also passes with each of cap and decoded
ceiling at one, and with a lookahead of zero.
`MaxActs` bounds what is done to the panes, at two: a thing and what undoes or overtakes it (a
navigation and a second one, a pane closed and one opened, a new radar and back, an eye
closed and a failed render), at any point of any frame. Two panes are one that asks and a
sibling; both radars may be on screen or one of them twice. Two slots are the wide budget
that a render ahead asks for (`speculative_render_allowed`), and a cache of two evicts at the
third picture. A device without renders ahead has fewer behaviours here, not others.

**Fairness.** `FunnelFairness` asks that `send` returns, that a loop goes on, that time
passes, that the flush timer fires, that a started fallback ends and that a sink answers
what it took *or* is abandoned. The last is an assumption on the sinks; `JobPool` and
`WorkerPort` replace it with the fairness of threads and event loops. `StalledPoolSpec` asks
that callers and the interactive threads get on and says nothing of the described ones;
`JobsSettle` takes their fairness as the premise of its second half, so that one instance answers both
questions. `PortFairness` asks that the page's event loop serves each
of its queues and timers and that a process that is up goes on; a job that a worker runs ends
or throws. Nothing asks that a worker comes up, that a job is offloaded, or that an error occurs. When a worker
throws between jobs the page loses it by `onerror`; a worker that never says hello
leaves the held jobs to the flush timer.
`DiscardSpec` asks that the frame
thread and the free thread run, and that a `Drop` under way goes on; nothing makes a frame
start but `asked`, so a payload the loop falls asleep on would be a counterexample. It has
no bounds of its own: payloads are discarded once.
`FairFeedSpec` asks that frames come (`next_round_delay` names the next one for a feed at
home, and a task that ends calls `notify_redraw`), that a frame which started its drive
part ends it, that rounds end and are drained (each frame drains at least one arrival, in
the channel's order, hence strong fairness for each round: a drive part may begin again
before it), and that time passes. Nothing asks that a round succeeds, that a volume starts,
that a notification comes, or that the user leaves a pane alone.

`FairSpec` of `OfflineAreas` is weaker than that every thread runs: while the frame thread,
the worker or a run has work, one of them does some. Runs and jobs are finite, so that is
enough for a row to be answered. It takes the screen to be open, since `reconcile_unknown`
is called when it is drawn.
`FairSpec` of `LoopVolumes` asks that the network and the funnel answer (a lost decode and
a failed download are answers), that frames poll the replies, and that while a reader is
there it asks for the gates, which the code does on every frame. It does not ask that the
sweep runs or that anything is rendered: neither is needed. `DownloadsFinish` supposes that
errands cease now and then; that they need not is what `LoopVolumes_treadmill` shows.
`FairSpec` of `PaneRender` asks that frames recur, since the timers of the main loop ask for
one when nothing else does, and that render threads go on. That a job comes back, with or
without a picture, is the funnel's promise; the one fate that breaks it, a panic of the
fallback thread (`dropped` in 2.1), is left out here. Nothing asks that a fetch lands or that
the user does anything.

**Mutants.** For each property of a passing run `PROJECT.json` names one plausible bug
(an off-by-one in the bound of the wait, entries left behind by `abandon_worker`, a claim
that does not ask, a timer per page rather than per window, ...) under which TLC finds
the property violated in the same instance.

## 4. What is proved

About the funnel, for every set of jobs, every wait limit, in the browser and natively, any
number of installations and windows; about the pool, for every set of jobs and of threads,
whichever of them started; about the browser's transport, for any number of jobs, sinks,
windows and generations of workers, with shared memory or without; about the ledger, for
every set of payloads, their prices and who discards whom; about a feed, for
any number of volumes, of rounds out and of errors allowed; about offline areas, for every
set of areas, archives, caps and gaps, and any number of runs, starts, deletes and relaunches;
about a loop, for every set of stamps and what they are collected at, any plan, number of
slots, lookahead and ceilings; about panes, for any number of radars, tilts, panes, slots,
pictures and acts. Every safety property that a passing run checks is the property of a
theorem, or, for `KeepsContract`, its safety half is.

The assumptions are those the modules name (`FunnelAssumption`, `PoolAssumption`,
`FeedAssumption`, `SlotsAssumption`, `GenerationAssumption`, ...), the types of their
constants, and what two kinds of theorem state as
a premise: `LoopStaysAwake` that no build is mobile without a free thread, and those about
offline areas, loops and panes that the value which stands for nothing is nothing else:
`NoneIsNoRun` (not a record with a run's fields), `NoneIsNoWork` (with a maintenance job's),
`NoneIsNoJob` (a render job's), `NoneIsNothing` (not a number, a plan or a base). TLC is given
a model value for it; the premises quantify over sets TLC cannot enumerate, so they are not
an `ASSUME`.

| theorem | says |
|---|---|
| `Typing` | `FunnelSpec => []TypeOK` |
| `CustodyHolds` | `FunnelSpec => []Custody` |
| `Ownership`, `Arming` | `FunnelSpec => []RegistryOwned`, `FunnelSpec => []WaitIsArmed` |
| `Final`, `Separation` | `FunnelSpec => SettledIsFinal`, `FunnelSpec => RetiresOnlyItsOwn` |
| `FirstInFirstOut` | `FunnelSpec => OldestLeavesFirst` |
| `Refines` | `FunnelSpec => Contract!SafeSpec`: the safety half of `KeepsContract` |
| `RunsOnce`, `OwedCarried`, `PoolTyping` (module `JobPoolProofs`) | `PoolSpec => []ExecutedOnce`, `PoolSpec => []OwedIsCarried`, `PoolSpec => []PoolTypeOK` |
| `DrivesTheFunnel` (module `WorkerPortProofs`) | `PortSpec => FunnelSpec` |
| `PortTyping`, `SomethingComes`, `LoansAreKept` (module `WorkerPortProofs`) | `PortSpec => []PortTypeOK`, `PortSpec => []SomethingWillCome`, `PortSpec => []LentWhileRead` |
| `LoopStaysAwake` (module `DiscardLedgerProofs`) | `DiscardSpec => []QueueKeepsTheLoopAwake`, when no build is mobile without a free thread |
| `TheLedgerIsExact`, `DiscardTypeCorrect` (module `DiscardLedgerProofs`) | `DiscardSpec => []LedgerIsExact`, `DiscardSpec => []TypeOK` |
| `PollersComeHome`, `RoundsAreSerial`, `FeedTyping` (module `ChunkFeedProofs`) | `FeedSpec => []PollerComesHome`, `FeedSpec => []OneRoundUnlessOvertaken`, `FeedSpec => []TypeOK` |
| `ClosedVolumesWait` (module `ChunkFeedProofs`) | `FeedSpec => []ClosedVolumesQueue` |
| `PublishedWhole`, `CompleteListed` (module `OfflineAreasProofs`) | `Spec => []PublishedIsWhole`, `Spec => []CompleteIsListed`, under `NoneIsNoRun` |
| `QuoteIsTransferred`, `AreasTypeCorrect` (module `OfflineAreasProofs`) | `Spec => []TransfersTheQuote`, `Spec => []TypeOK`, under `NoneIsNoRun` |
| `RowsAreWhole` (module `OfflineAreasProofs`) | `Spec => []WholeRowIsWhole`, under `NoneIsNoRun` and `NoneIsNoWork` |
| `PlanCutsTheArea` (module `OfflineAreasProofs`) | every plan cuts its tiles into stretches, in order and without gaps, that keep to the cap or are one tile, none of which the next tile would have fitted in |
| `MarksAreErrands`, `BaseHasWayBack` (module `LoopVolumesProofs`) | `Spec => []OneErrandPerMark`, `Spec => []ReleasedBaseHasWayBack`, under `NoneIsNothing` |
| `FramesKeepAForm`, `LoopTypeCorrect` (module `LoopVolumesProofs`) | `Spec => ListedFramesKeepAForm`, `Spec => []TypeOK`, under `NoneIsNothing` |
| `MarksAnswered`, `WantedCurrent` (module `PaneRenderProofs`) | `Spec => []MarksAreAnswered`, `Spec => []WantedIsCurrent`, under `NoneIsNoJob` |
| `SettledPaints`, `PanesTypeCorrect` (module `PaneRenderProofs`) | `Spec => []SettledIsPainted`, `Spec => []TypeOK`, under `NoneIsNoJob` |

`RegistryOwned`, `WaitIsArmed` and `SettledIsFinal` are proved and in no run: the runs' other
properties would not hold without them, and a theorem says more than an instance.

The inductive invariant of the funnel is `FunnelInv == TypeOK /\ Owned /\ Flat`.

* `TypeOK` carries, beside types, that ids on record were minted (`e.id < nextId`) and
  are unique. A fresh entry therefore differs from every old one.
* `Owned` is `RegistryOwned /\ WaitIsArmed /\ SendsOwned`. `RegistryOwned` alone is not
  inductive: `SendRefused` tells a worker's refusal from a lane's by the entry's sink,
  and only `SendsOwned` (an entry inside `send` belongs to a sink that is installed,
  because nobody is replaced while the page's thread is inside `send`, and natively
  nobody is replaced at all) makes that test mean what it says. `WaitIsArmed` is what
  keeps the hand-over list and the wait from being filled at the same time.
* `Flat` is `Custody` spelled out by cases, the form the step proofs want; the lemma
  `CustodyIsFlat` shows that they are the same.

`FlatStep` goes through the actions. Those that register (`DispatchCustody`,
`EntryArrives`), those that settle a set of entries (`RegistryShrinks`, `SettledLeave`),
and those that end a run (`RunEnds`) share a lemma each. `FateMoves` then says which
moves of one job's fate a step can make, and `Refines`, `Final` follow from it.
`FirstInFirstOut` adds the line of held jobs (the hand-over list, or else the wait), whose
handles rise: `InOrder` is inductive beside `FunnelInv`, because a handle minted now is
greater than every other, and each step takes the line's head, its whole, or nothing away.
`JobFunnelProofs` has the lemmas about queues as sequences (`QueueAppend`, `QueueTail`,
`QueueAppendNoTwice`), which the typing and the custody proofs share.

The theorems about the pool share `PoolInv`, which is `FunnelInv` together with who carries a
job. A job that nobody wants any more is still in somebody's hands, so neither property is
inductive about registry entries alone: `OneCarrier` says of each *job* that at most one of
`send`, the channels, the threads and the fallback runs has it, and `Counted` ties the number
of its executions to where it is, 0 up to a thread's claim and 1 after it. `Carried` is the
rest of `OwedIsCarried`: a step that takes an entry out of a carrier's hands takes it out of
the registry. Each action keeps these by a lemma (`CallersKeep`, `TakesKeep`, `RefusalKeeps`,
`FallbackKeeps`, `RecvKeeps`, `ClaimKeeps`, `ExecuteKeeps`, `DeliverKeeps`), and `FunnelStep`
shows that each step of the pool is a step of the funnel or leaves it alone, so that
`FunnelInv` is the funnel's own and not proved again.

The first invariant of the browser's transport is `PortInv`, again with `FunnelInv` in it.
`DrivesTheFunnel` needs it, since `SetWorker` and `AbandonWorker` are the funnel's steps only
where the page's handlers stand by their guards: `LossIsAnswered` says where a loss stands,
whose three calls are steps of their own, and that outside one there is a worker or a
respawn on its timer. `GoneIsSilent` keeps a process that is gone from speaking again;
`OneRungPerWorker` is what bounds the ladder by the workers spawned, and `WaitIsTimed` ties
the wait to the timer of its window, of several that may be armed. `SomethingWillCome` is
then read off.

`LoansAreKept` needs the requests followed across the boundary. A loan is taken with one
message and given back with one: by `OneMessage` a request's id is in one process's hands as
a job or in one queue as a RELEASE, never twice and never both. `ReadIsLent` says that what is
so under way is lent, `LentIsRead` that a render that is lent is so under way, and
`CopiesLendNothing` that without shared memory nothing ever is. They are inductive beside
`SendsAreFresh` (the id of a `send` that has not returned is nowhere else yet) and
`OldAreSilent`: a worker says nothing in the name of another generation, while a lane that
outlives its port may, so that its RELEASEs of old are asked nothing. Each step that moves
a message or a loan keeps the books by a lemma: `PostKeepsBooks`, `StartKeepsBooks`,
`ReleaseKeepsBooks`, `TerminateKeepsBooks`, `SweepKeepsBooks`, `SpawnKeepsBooks`. Between
`terminate` and the sweep the page may still lend what nobody reads, which is why
`LentIsRead` asks only of a page that is not inside a loss.

`LoopStaysAwake` rests on `AwakeInv`: the property asks nothing while a frame runs, so the
invariant says who can file a payload when none does. Nobody drops or discards on the
frame thread outside the phases that allow it (`FrameInv`), the free thread files only
onto the lane (`LaneInv`), and a warning, the one thing that files between frames, finds a
live lane by the assumption. The assumption is needed: see 6.

`TheLedgerIsExact` needs no such assumption. `LedgerInv` is `TypeOK`, `Places` and `Totals`.
`LedgerIsExact` counts what a route holds; `Places` says the same payload by payload, that
`custody` names the one queue, hand or fall it is in, so that a step which moves a payload
changes the holdings of a route by that payload or not at all (`Gains`, `Loses`,
`RouteMoves`). A sum of prices is the cardinality of a set of pairs of payload and unit, so a
payload more adds its price by the library's theorem on disjoint unions, and no induction
over sets of payloads is asked for.

`PollersComeHome` and `RoundsAreSerial` share `FeedInv`. `PollerComesHome` alone is not
inductive: `ensure` replaces a retired feed, which must not be one that is in flight
(`RetiredAtHome`; only `finish_round` retires, and it has just brought a poller back), and
`OneRoundUnlessOvertaken` needs to know that the one round out is the one a feed at rest
would be waiting for (`OutIsAwaited`), so that a feed at home may dispatch. The interesting
step is an arrival on a feed that was made since: it may clear `inFlight` while a younger
round is out, but never leaves the feed waiting with nothing out.

`ClosedVolumesWait` follows a poller through its rounds. Between rounds `QueueOK` holds:
the queue ascends, is exactly what is owed, and lies below the volume being assembled.
Inside a round `CarriedOK` adds that what the outcome carries is older than the queue;
`TakeQueue` leads from the one to the other, `RollQueue` closes a volume, and `EndsQueue`
leads back by `Lands` or by `Fails`. `AscendingTail`, `AscendingAppend` and
`AscendingFront` are the three facts about sequences they rest on. `QueueInv` adds that no
poller is ahead of the bucket.

The theorems about offline areas share `StoreInv`, an invariant of the directory and the runs
together. `PublishedIsWhole` is inductive only with what leads up to a rename: who has a
file open is a run that is writing, and what it writes is its own `.part` (`Writers`), one
run at a time on an area that has not had two (`Alone`), so that what a run renames is not
torn (`Sound`). `CompleteIsListed` needs what a run still owes at every step: each segment
of what it planned is in the store or among those still missing, unless the run failed or
was swept (`Accounted`), and Complete is said with nothing missing. `Opens`, `Closes`,
`Renames`, `PartGoes`, `Sweeps` and `Quiet` say what each of the store's calls does to the
invariant, whoever makes it; the actions then follow. Nothing about how segments are cut is
used here but that a cut has them.

The other three need what else is true of the store, the runs and the records at once, which
`AreasInv` holds: names and files (`Filed`), runs (`RunsGood`), what the frame thread
remembers and saved (`Recorded`), that a run is alive exactly while it is held or joined
(`HeldRuns`), and the worker's line (`Working`). `TypeOK` is read off.

`QuoteIsTransferred` is about the spans of one run. `Balance` says that what a run has moved, the
bytes of the spans it still needs and does not hold, and the archive it has not come to add
up to the quote; after a failed segment they may be less. A read moves spans from what is
needed to what is held. `Carried` gives up a span only when no segment that is still missing
uses it, so a shared span is neither moved twice nor charged twice. That the loop over reads
moves everything a segment needs rests on `FirstRead` never being empty, for which a lowest
offset is chosen.

`RowsAreWhole` follows the line to the worker. A row may be drawn as whole on what was answered
for an older record, or before a removal, as long as a question is still in the line; so
`AskedInOrder` says that each removal of an asked area, and each question about an older
record of it, has a question behind it. The last question is then of the record the row has,
and after every removal. While the worker is between the two halves of an area, `HalfListed`
keeps what it counted: its segments stay, since runs only add published names and the one
thing that takes them away is the worker itself (`RemovesItsOwn`). `Row` is the property as a
row has it, which a settled run, a delete, a screen that asks and a relaunch renew.

`PlanCutsTheArea` is about `plan_area` alone, for every sequence of tiles. `PlanSteps` shows that
the recursive function exists for every length, `PackType` and `StretchesOn` what one more
tile does to a plan, and `PlanKeeps` goes from there to the whole.

The theorems about panes share `RenderInv`. `MarksAreAnswered` is inductive beside the
shape of the state, because the flag of a render is cleared only for panes whose mark goes in
the same call (`AbandonedJobs`, `ResetKeeps`), because a render that came to nothing is sent
(`JobMoves`), and because a reply takes the mark with it (`ReceiveKeeps`; the reply may be
one that the mark was not made for, which loses a render and never an answer).
`WantedIsCurrent` needs `WantedIsRecorded`: a render that may still answer belongs to a pane
the dispatcher has a record of. Without it a volume delivered to a pane that has none would
leave its render wanted, since a reset goes over the records and not over the panes. That
the walk only meets recorded panes is `WalkOK`, kept because the records are grown before the
walk and shrink only after it. `ViewStep` covers every step that leaves jobs and replies
alone. Neither theorem needs the glass or the cache.

`SettledIsPainted` is where those come in. `PaintInv` says that the tilt the dispatcher has for
rendered is the tilt on the glass (`MarksArePainted`), beside the bounds that `PanesTypeCorrect`
reads off (`GlassOK`, `CacheOK`, `CountsOK`). It excepts panes without radar, of which the walk
may not have taken the mark yet; `PassedGaveBack` says that those it has passed have given it
back, so that the user, who may show the radar layer again only with the drawing, finds no
mark that was never painted. A picture comes off the cache or a reply for the very key a pane
wants, and both carry the tilt of the key. `Fine` is the cache's own invariant: no key twice, so
that `CacheSize` bounds it, through each insertion, use and removal by site.

The theorems about loops share `LoopInv`. Of the manager it says `Sound`: marks are errands, one
each (`Busy`, which also has what is reserved among the marked and the slots within the cap),
the queue is of the plan (`Planned`), and no archive is on the heap and on the medium at once
(`Apart`). Each operation of the manager has a lemma that says what it does to `Sound`, to the
decoded volumes and archives (`SameForms`, `SameWork`, `SamePlan`, `Grows`), and a handler's
proof is the chain of the lemmas of the calls it makes: the sweep is six of them. For
`ReleasedBaseHasWayBack` the last conjunct, `Released => WayOpen`, must survive each: what the
sweep retains by identity is known by identity, the archives' ceiling spares a way back,
and a spill moves an archive and keeps it. `ListedFramesKeepAForm` is proved step by step from `LoopInv`
(`KeepsStep`).

Two obstacles come up in all of these. The library's induction over numbers takes an operator
as a parameter and cannot be used, so what holds for every number is proved by the least
counterexample (`LeastOf`, from `WFMin`). And a recursive sum over a set cannot be reasoned
about, so sums are cardinalities.

Only model-checked is liveness, which is beyond the prover: the fairness in `KeepsContract`,
`JobsSettle`, `RendersSettle`, `RepliesAreFreed`, `EveryDiscardIsFreed`, `SiteIsPolledAgain`,
`RowsAreAnswered`, `DownloadsFinish`, `ReaderGetsGates`, `EveryPaneSettles`. So are the three
properties that are violated (6). The theorems about the
funnel are about `FunnelSpec`, and hold of both transports: `DrivesTheFunnel`, and
`FunnelStep` for the pool.

## 5. Not modelled

* The encodings of requests and replies, `Job::Opaque` (a test instrument) and telemetry.
* The rayon pools inside one job.
* Wrap-around of loan ids, and the bytes of the loan census.
* Failures nobody wrote a recovery for: a worker whose post of a DONE fails
  (`worker.rs:373` only logs it), a timer that cannot be set (`worker_port.rs:263`), a timer
  that fires before the deadline it was set for (`:255`; the flush then changes nothing and
  nobody arms another), and an engine that stops a worker later than `terminate()` (`:221`;
  the loans are swept at once).
* `WorkerPort` without cross-origin isolation (`CanLend = FALSE`), where messages carry
  copies and there is nothing to lend.
* A tile batch posted to the lane of a worker that is gone settles only when the next
  worker is lost or the next lane comes up. `RendersSettle` speaks of renders for that
  reason, and the last part of `LentWhileRead` leaves batches out.
* Of a chunk feed: the decoding of chunks and the sealing of sweeps, snapshots and bridge
  copies, what an arrival applies to panes (and the generation test before it, which
  comes after `finish_round`), the archive fetch a retirement starts, and the wrap-around of
  the 999 directories. Two things read off the code without a run: hiding and showing a
  site makes a new feed at once, so it shortens `RETRY_AFTER`; and that feed starts with
  discovery, although `last_volume` (`chunk_feed.rs:78`) is said to spare a feed rebuilt
  after a site switch that search.
* Of offline areas: the browser's store and its quota, the figures shown while a run works,
  how tiles are written into a segment and what `verify_segment` reads (a segment that does
  not verify is one that fails), the estimates of the size panel.
* Of loops: more than one pane on a site and more than one site (the ceilings are the
  process's), Level III loops, model loops, pairings, prices that differ, an archive whose
  medium is taken away, the picture cache behind a frame, and the order of the calls of one
  frame. A spilled archive is read back as part of its decode.
* Of panes: the raster surface, with its uploads, pins and band queue, and sections and
  volumes; Level III and the other kinds of picture; live mode, the poll for newer volumes and
  what the rounds of a chunk feed apply; linked layers; the ask for a volume whose gates were
  released (`ensure_base_whole`, which `LoopVolumes` has); the render generation, which only
  tests advance. Fetches of other kinds than scans.
* The rest of the system: see `components` in `PROJECT.json`. What is modelled was chosen for
  how much of its correctness is the order of steps. The bulk of the code is decoders,
  numeric products, styling, geometry and drawing, which is a matter of values; the recovery
  ladder and the tile pump are the parts left out that would repay a model (7).

## 6. Disagreements between the code and its words

Three of these are runs whose property TLC finds violated.

* `PaneRender_moments`: a `RenderKey` holds site, product, tilt and view, and no volume. Of two
  panes of one radar out of the shared time, one navigates to a newer volume; the other,
  parked at its own, is served the newer picture, from the shared cache
  (`app_render.rs:5494`), by waiting behind its sibling's render (`:5527`) or by the broadcast
  (`:3021`). The tooltip of an unlinked pane says that parked in the archive it holds its
  moment (`ui_pills.rs:268`).
* `LoopVolumes_treadmill`: `frames_needing_decode` offers every held archive that the plan
  does not name, on the ground that archives are retained only for what is wanted. But the
  sweep also keeps the archive of the volume a pane is parked on, by its identity, and
  that of a released base. Neither is wanted decoded, so the sweep drops the volumes
  again; each decode's arrival pumps the other one. With one slot the pending downloads
  starve as well. The counterexample stands under the fairness of every handler.
* `ChunkFeed_silent`: when the newest volume is older than `VOLUME_STALE`, `plan` asks for
  discovery each round. It finds the same volume, starts a fresh assembler, downloads the
  volume once more, and sets `rolled_to` and `ingested`, which `finish_round` takes for
  progress. So a radar that has stopped is downloaded every few seconds and its feed is
  never retired, and while it is not, `chunks_are_feeding` holds back the archive check.
  `STALL` is described as how long a feed may make no progress at all.

Others were met while reading the code, and are stated here without a run of their own.

* `prepare` skips the segment numbers that the store lists, and does
  not ask of which archive generation they are. After a new archive is released, an Update
  (or a Resume that comes later) keeps the old segments, and the record it makes says that
  the area is of the new generation, so Update is not offered again. The field that carries
  the generation into the record is said to date the bytes it actually holds.
* `delete_downloaded_area` queues the removal before it drops the
  area's run, and `remove_area` reads the directory once. A segment the run publishes after
  that stays; a `.part` it renames meanwhile makes `remove_file` fail, which ends the sweep.
  Nothing lists the area any more, so nothing removes what is left.
* An answer of the worker is filed under the area's id (`basemap_areas.rs:523`) whichever record
  it was asked for. One asked for an older record may land after a newer one was settled, and
  the row shows it until the newer record's own answer comes. `WholeRowIsWhole` speaks of rows
  that have had their last answer for that reason; TLC finds the case with three starts.
* A hidden pane's glass is emptied (`release_hidden_textures`) and the dispatcher's record of
  it is kept, so it comes back blank and asks for nothing until its tilt or volume changes.
  `SettledIsPainted` excepts it (`Hidden`).
* A reply that was sent before a reset is taken off the channel after it. It paints the volume
  before, marks the tilt as rendered and clears the mark of the render that the reset caused,
  where `render_invalidation_tests.rs:297` has the reset prevent that a pane paints the
  previous volume over the new one and then stops. In the same way the queued reply of a closed pane goes to the pane that
  took its index, which `forget_panes_from` means to prevent. `WantedIsCurrent` speaks of
  renders that have not answered for that reason.
* A reply is cached under the site its pane has when the reply is taken, not the site it was
  rendered for.
* Of two requests made by two panes that share their time neither makes the other stale; the
  older one may land last and win.
* Hide and show a site while its round is in the air. `retain_live`
  drops the feed, `ensure` makes another, a second round starts with the new poller, and
  the old round's arrival is taken for the new one's. The comment in `finish_round` says
  that the poller goes with the dropped site, and the test
  `one_round_per_site_is_in_flight_at_a_time` says what is then no longer so. The theorems
  say what remains: the feed always gets a poller back, and where no feed is made over a
  round, rounds are serial.
* `hand_waiting_jobs_to_the_sink` dispatches a held job under a new id and drops that id; the
  caller's handle is the first one. `cancel_job` on it answers `false` although the job is
  registered (`offload.rs:1316`), where its doc says that `false` means answered, failed or
  never registered. The job runs although nobody wants it; it is still settled once.
* `lose` does not change `GENERATION`, so a `LANE_HELLO` already in the lane's `MessagePort`
  passes the generation check between the loss and the respawn, and installs the lane of the
  dead worker (`worker_port.rs:209`). The comment says that the lane dies with its worker
  (`:215`). Batches posted to it wait for the next loss or lane.
* The pump of a loop runs when a listing lands, a batch completes, a plan is derived anew or
  a product changes. Room that a later sweep frees, or a retarget to another tilt, pumps
  nothing, so held archives may wait for the next of those although slots are free.
* `take_loop_frame_archive` asks for room and reserves none: decodes that start together go
  over the ceiling until the next sweep, where `constants.rs:927` speaks of what is admitted.
* A download that failed is not queued again before the next plan; an archive that cannot be
  decoded is offered again at every completion.
* `DownloadedArea::bytes` is what the last run moved, not the size of the area, when that run
  resumed an earlier one.
* Why `LoopStaysAwake` has an assumption: in a mobile build without a free
  thread `memory_warning` evicts outside any frame, its payloads go to the frame thread's
  queue, and nothing asks for a frame, where `drain_deferred_drops` says that a non-empty
  queue must keep the loop awake. They wait for the next input, timer or arrival.

## 7. Plan

Done: the funnel and its two transports, the ledger, the chunk feed, offline areas, the
loops' volumes, the panes. What is left, in this order:

1. `HostRecovery`: the ladder of memory steps, its dwell and its ceiling: no oscillation
   within a dwell, everything undone in reverse order, the steps bounded.
2. The tile pump's fallback when a batch's lane is lost, over `WorkerPort`'s lane.
3. `PaneRender`'s raster surface, where a picture is also an upload that may be pending,
   pinned or lost with the device; live rounds that render over a volume under way.
4. Proofs: that the segments a plan is fetched by hold each tile of the area once, from
   `PlanCutsTheArea`; the theorems of whatever 1 to 3 and 5 add.
5. A loop in two panes of one site, which share the caches and have a plan each.
6. Smaller ones: the staging ring, the location gate.

The plan's new runs should take the place of narrow ones or share an instance with them,
so that the whole project stays quick to check.
