# Verification of tvmatch

tvmatch renames the television episodes of a folder. It fetches the official
subtitles of a season from OpenSubtitles into a cache, reads the subtitles inside
each video file (text tracks, or images through OCR), compares the two, and gives
each identified file the episode's name after the user has approved a preview.

This directory holds TLA+ models of the parts in which order, failure and
concurrency decide whether that is safe, the TLC configurations that check them on
small instances, and proofs that TLAPS checks for every instance. `src/...` below
is the repository.

To repeat a result, in this directory:

    tlc -workers 2 -config MCRename_hostile.cfg MCRename     # one run
    tlapm Rename_proofs.tla                                   # one proof module

`PROJECT.json` maps every definition to the lines it translates, lists the runs,
the mutation that breaks each property, the hazards and the theorems. Names
that begin with `Mut` in the modules are those mutations: each is what a plausible
bug would make of the definition after it, and no specification uses them.


## 1. The system

### Parts, state, operations

| part | source | state it keeps | operations | how it is reached |
|---|---|---|---|---|
| **Rename plan** | `src/src/rename.rs`, `rename/native.rs` | entries with outcome, state, snapshot and location; the folder itself | `Plan::build`, `propagate_blocked`, the prompt, `apply_with`, staging, the summary and its exit code | built from the scans, last part of a run |
| **Shared cache** | `src/src/opensubtitles/cache/locking.rs`, `cache.rs` | the coordination lock, a lock and a budget file per season, the entries and their weight | `transaction`, `claim`, `active`, `set_budget`, `consume`, `space_for` with eviction and pruning | by every operation of the acquisition; shared by all processes of a user |
| **Reference acquisition** | `src/src/opensubtitles.rs`, `cache.rs` | one entry, `.partial` directory and charge marker per file, frozen manifests | `Cache::open`, `recover_missing`, `prepare`, `acquire`, `reserve`, `stage`, `finish_staging`, `references` | called by the folder command before the scan |
| **Approved alternatives** | `opensubtitles/fallback.rs`, `cache/fallback.rs` | an approval file per empty reference, a history of at most three, one charge marker | consent, proof of emptiness, one further POST | after the acquisition, when a reference has no dialogue |
| **Transport** | `opensubtitles/transport.rs` | request budget, time of the last request | GET with attempts, redirects, pacing; POST without | by acquisition and catalogue |
| **Catalogue** | `opensubtitles/catalog.rs`, `show_selection.rs`, `folder/show_picker.rs` | none beyond a call | paging, ranking of files, choice of a show | before a manifest is frozen |
| **Selections and aliases** | `opensubtitles/cache.rs` | frozen manifests, alias files | `selected`, `freeze`, `alias_with_choice` | first transaction of an invocation |
| **Series display** | `opensubtitles/series.rs`, `cache.rs` | one immutable record per season | read, or fetch and write once | its text is the prefix of the new names |
| **Folder scan** | `src/src/folder.rs`, `folder/progressive.rs` | one outcome per file, the OCR's checkpoint | tracks in order, samples of 64, 128, 192 images, snapshot verified around each reading | between acquisition and rename |
| **Matching** | `src/src/lib.rs` | the index of distinctive shingles | `Index::build`, `match_query_with_limits`, `align` | by the scan, per track and per checkpoint |
| **Transcripts** | `src/src/srt.rs`, `srt/layout.rs`, `opensubtitles/records*`, `ordering.rs`, `boundaries.rs` | none | parsing and repair of the provider's files | by the acquisition when a file is loaded |
| **Media readers** | `src/src/media.rs`, `media/` | collector of OCR cues | probing, text extraction, PGS decoding, OCR | by the scan |
| **Container libraries** | `src/crates/` | budgets; the PGS decoder's objects, palettes, windows and pending composition | walk of a Matroska file, PGS segments, sample tables of an MP4 track | by the media readers |
| Command line, paths | `src/src/main.rs`, `cli.rs`, `paths.rs` | none | arguments, directories | start |

The parts in bold are modelled.

A run is sequential: command line, catalogue, acquisition, scan, rename. What is
concurrent is outside it. Several tvmatch processes share one cache directory and
meet in lock files; any other program may change the video folder while the user
reads the preview or while files are moved; a process may be killed, or a call to
the file system or the server may fail, at any point; the next run starts from
whatever is left on the disk.

### What is hard, and what must hold

*Rename plan.* The preview is checked against snapshots minutes before the moves
are made; chains, swaps and case-only renames need an order, and cycles a parking
place; every move may be refused with others depending on it; other programs act
in between. It must never overwrite or lose a file, never rename a file that
changed since the scan, never report what is not so, do with a chain or a cycle
what one simultaneous rename would do, and end.

*Shared cache.* A process may only take away what nobody else counts on, yet it
finds out who owns what by probing locks, before it looks at the entries; budgets
of living owners are promises against the cap, spent write by write, void when the
owner dies. The cap must hold, what was promised must fit, a response that was paid
for must find its room, the lease of a season must be respected, and lock
contention must neither block for ever nor be mistaken for ownership.

*Reference acquisition.* Every download costs quota and cannot be undone. A death
anywhere leaves a marker, a receipt, a half-written body or a gutted entry. Later
runs must tell a response they already paid for from one they did not get, must not
pay twice without saying so, must publish only whole responses, must not honour a
quota that does not suffice, must try every file, and must not refuse for ever
what a repeated command could finish.

*Approved alternatives.* A consent is given to what was read minutes before, while
other processes ran and the owner of the cache may have edited it; approval, charge
and body are three files that a death may separate; each run replays a history of up
to three approvals, and any legal sequence of interruptions must leave one that the
next run accepts. What is paid for must have been agreed to, for the body it replaces.

*Transport.* Attempts, redirect hops and pacing share one budget, the outcome of a
call decides whether the invocation goes on, and the wording of an error may hide a
refusal from the caller. A POST may never be repeated, and whoever was refused must
send nothing more.

*Catalogue.* Pages come from a list that changes while it is read: a ranking, or a
show that is taken without asking, must not rest on half of it.

*Selections.* Several names lead to the same episodes, several processes freeze at
different times, and the provider's catalogue changes in between. All frozen
selections must agree, a range must not pass for a season, and the one display
record, which seasons with different locks share, must be written once.

*Folder scan.* The file may be replaced or rewritten while its tracks are read:
outcomes must belong to the snapshot the rename relies on. A checkpoint's assessment
may stand for the final one only if nothing was read after it, and the packet in
which the scan wants to stop must be sound to its end.

*Transcripts.* The provider's files break the format in many ways; no line may be
lost or end up in another record, nor may a repair go unrecorded.

*Media readers and container libraries.* Decoders keep state from one packet to the
next (a PGS object in fragments, a composition that awaits its END); two passes share
one budget; tables refer to each other. Nothing of one epoch may show in the next, a
walk must emit every frame of its track or refuse, a caption must appear where the
tables place it.

*Matching.* A wrong verdict is a wrong name on a file. Shingles that two episodes
share, or that one repeats, must count for nothing whatever the order in which they
are met; limits must refuse and never truncate; the chain found window by window
must be the longest there is, on the edges of the windows too; and a runner-up that
comes near must prevent a verdict.

`PROJECT.json` has these hazards one by one, each at its line.


## 2. The models

| module | models | composed with |
|---|---|---|
| `MediaFolder` | a folder: names, files, identity and times of a file; creation, removal, editing and the no-replace move | |
| `Rename` | the rename plan, step by step | extends `MediaFolder` |
| `BatchRename` | abstract: one simultaneous rename of the movable entries | implemented by `Rename` |
| `ReferenceDisk` | markers, `.partial` directories and entries of the cache, what they may look like after a death, and an eviction's steps | |
| `Acquisition` | invocations that open, recover and download, with failures and deaths | extends `ReferenceDisk` |
| `ReferenceArchive` | abstract: the life of each reference, from charged through staged to published | implemented by `Acquisition` |
| `SeasonLocks` | coordination lock, season locks and budget files | |
| `SharedCache` | several processes, their transactions, `space_for` | extends `SeasonLocks` |
| `SeasonLease` | abstract: one owner per season, nobody else takes anything from it | implemented by `SharedCache` |
| `Chains` | definition: anchors, and the chains of anchors that support each other independently | |
| `Align` | `align`, window by window, anchor by anchor | extends `Chains` |
| `Matching` | index, pairs, anchors, scores, verdict | extends `Chains`; its scores are the lengths `Align` is proved to find |
| `Approvals` | consent, approval, history, the one further POST, over any number of runs | |
| `Transport` | the requests of an invocation and what their ends decide | |
| `Catalogue` | one list read page by page; ranking; choice of a show | |
| `Selections` | several processes that alias, resolve and freeze; the display record | |
| `Transcripts` | a provider's file framed, repaired, written anew, read back, ordered | |
| `Reading` | the scan of one file that may be replaced meanwhile, with checkpoints | |
| `Pgs` | the decoder of picture subtitles, segment by segment | |
| `Matroska` | the bounded walk of a Matroska file | |
| `Mp4` | boxes and sample tables of an MP4 track, and the captions shown | |
| `MCScan` | `Align`, `Matching`, `Reading`, `Pgs`, `Matroska`, `Mp4`, each on its own | extends `MCAlign`, `MCMatching`, `MCMedia` |
| `MCLookup` | `Transport`, `Catalogue`, `Selections`, `Transcripts`, each on its own | |
| the other `MC*` | finite constants for TLC | |
| `Sums` | induction over finite sets and naturals; what a sum over a finite set, and a flattened sequence, is | |
| `Rename_proofs`, `Acquisition_proofs`, `SharedCache_proofs`, `Approvals_proofs` | theorems about the module named | |
| `Matching_proofs` | theorems about `Align` and `Matching` | |
| `Lookup_proofs` | theorems about `Transport`, `Catalogue`, `Selections`, `Transcripts` and `MCLookup` | |
| `Media_proofs` | theorems about `Reading`, `Pgs`, `Matroska`, `Mp4` and `MCScan` | extends `Matching_proofs` |

The acquisition appears twice, from two sides. `Acquisition` follows one
invocation through every change of a file and lets others evict between its
transactions, but its room is a refusal that may happen or not. `SharedCache`
weighs every file and follows several processes, each through whole transactions,
but a file there is either written or not. Together they cover what one model with
both would make too large to check. `Transport` and `Approvals` look at the same
invocation from two more sides: what is sent, with the disk abstracted to what a file
is held as, and what is agreed to, with the network abstracted to success or failure.

In `MCScan` and `MCLookup` several parts share a run without acting on each other: a
behaviour chooses its part at the start, and the others stay as they are. In the code
they are called one within the other and hand over values only, so nothing is lost by
that; their `Next` and type invariants carry the part's name (`AlignNext`,
`PgsTypeOK`) so that they can be put together.

### Rename

| model | code |
|---|---|
| `folder`, `stat` of `MediaFolder` | the folder and the identity, length, times that `Snapshot` compares |
| `scan`, `state`, `loc`, `snap`, `staged` | `Entry::outcome`, `State`, `locations`, `snapshots`, `staged` |
| `Init` with `Classify` | `Plan::build` from any outcome of the scans in `Scans` |
| `CheckEntry`, `CheckEnd` | duplicate targets, vanished sources and occupied destinations of `build` |
| `BlockEntry`, `BlockEnd` | `propagate_blocked`, pass after pass |
| `Decline`, `Approve` | the prompt |
| `Revalidate`, `RevalidateEnd` | the verification of every snapshot before the first move |
| `Pick`, `PickCycle`, `GiveUp`, `Finish` | the apply loop: a free entry, else one to park, else failure of the rest |
| `Verify`, `Move` | the last verification and the no-replace move |
| `Stage`, `Park`, `Retake` | parking one file of a cycle and taking its snapshot again |
| `Interfere` | another program |

Every access to the folder is a step of its own, so `Interfere` fits between any
check and the act that relies on it. `FsKey` says which names the file system takes
for one and `Key` which the program does (`collision_key`); the runs let them agree
and differ. Destinations are given by the scan: how a title becomes a name
(`safe_component`, the spelling of the season) is left out, that two titles may
become the same name is not.

### Acquisition

`ReferenceDisk` keeps for every file a charge marker (none, torn, whole), a
`.partial` directory and an entry, each with receipt, body and provenance that may
be absent, a prefix of what was to be written, or complete. The steps of an
invocation are those of the code: `Open` (every entry is loaded, a left-over that
is neither intact nor attested is refused), `Recover` with its two passes around
the transaction that freezes them, `Prepare`, `Quota`, then per file `Reserve`,
`RemoveOldMarker`, `WriteMarker`, `Post`, `Fetch`, `Stage`, `WriteReceipt`,
`WriteBody`, `Finish`, `WriteProvenance`, `RemoveReceipt`, `Publish`, and
`References`. `Die` ends the process anywhere, within a write included; `Evict`
and its successors are other processes, which respect the lock and what is pinned,
and may themselves die half-way (`EvictDies`).

Bounds and abstractions. `MaxFaults` bounds deaths, failures, refusals and
evictions together. A death is that of the process; what was written stays, in
order. A prefix of a subtitle file may parse. The server's counter is
`0..MaxQuota`. Without an API key, without room, or with a refused request the code
takes the same way: one fault, before the POST. Frozen selections are given, each of
finitely many files (`FrozenFinite`). The approved alternative of a file is left to
`Approvals`; its place here is that of an unavailable reference.

### SharedCache

An invocation is a sequence of transactions (`op`): open, claim, freeze, recover,
prepare, then for each missing file reserve, POST, stage, finish, and references
at last. Each transaction goes through `wait` (the coordination lock, or
`TimeOut`), `survey` (`Survey`/`LetGo`: one probe of a season's lock at a time,
while others run), and `write`. `Trim` is `space_for` once the survey is complete:
`Target`, `Victims` in the order of fetching, `Pruned` manifests, `Fits`; `Refuse`
its error. `StageFails` and `ConsumeFails` are the two writes after which what is on
disk and what is promised could disagree; `Die` drops the locks of a process and
leaves its files.

Bounds and abstractions. Marker, receipt, provenance and manifest weigh one unit, a
body `1..LargestBody`: the code's sums are kept term by term, and only their
relation to `Cap` matters. Evicting and pruning are one step here (their
interruption is in `Acquisition`); two entries never have the same fetch time; the
series record and the approvals are not weighed; lock and budget files exist from
the start. `MaxDeaths` and `MaxFailures` bound the faults.

### Matching

`Align` is the double loop of `align` with its variables: `lowers` are the sorted
offsets still to be tried, `ranks` and `trails` the vectors `ranks` and `previous`
(a trail is the chain that `previous` leads back on, so that one need not be
followed), `best` and `bestRank` the result so far. The code filters a window and
numbers its anchors anew; the model keeps the numbers of the whole list and gives
anchors outside the window rank 0 and no trail, which nothing can prolong.
`Chains` says what is looked for without saying how.

`Matching` follows `Index::build` and `match_query_with_limits` map by map: `known`
is `all`, `postings` and `pairs` are the maps of those names, and each map is
walked in the order of its keys. The score of a reference is the length of its
longest chain, which is what `AlignFindsLongest` proves of `align`.

Abstractions. A shingle (three consecutive words) is a number and a cue says any
sequence of them; in the code neighbouring shingles of a cue overlap, so a
behaviour of the model is one of the code if each cue has further words that
nothing else says. Splitting into words, the limits on them, ids, labels, and what
a candidate is displayed with are left out. Limits and thresholds are constants:
`MIN_SUPPORT` 3, at least 2 shingles, separation 8000 ms, spread 2000 ms and the
share 4/5 in the code. That cues start in order is `Transcript::from_cues`.


### Approvals

| model | code |
|---|---|
| `store`, `marker` | entry, `.partial` and charge marker of a file, as one of eight and three cases |
| `chain`, `half` | the approval files of an origin, in order, and the `.partial` of one |
| `Replays`, `Pending`, `Current`, `Recovered` | `fallback_state`, `empty_proof` and `recover` of `cache/fallback.rs` |
| `EffectiveManifest` | `effective_manifest`, before and after the acquisition and at the end |
| `Acquire`, `Acquired` | the acquisition of what the effective manifest misses, in short |
| `Survey`, `Offer`, `Answer` | the search for an episode to propose for, the proposal (a pending one again), the prompt |
| `Approve`, `Record` | writing the approval's `.partial`, and its rename |
| `Recover`, `Reserve`, `Post`, `Receive`, `Finish` | the rest of `attempt`: what is there already, the charge marker, the one POST and what comes of it |
| `Die`, `Evict`, `Edit` | a death anywhere, other processes while the season has no owner, the owner of the cache |

An approval is what ties it to its history: the file it replaces, the candidate, the
proof of emptiness, for which two different empty bodies stand. The owner edits only
between runs and while the prompt is open, which is when a person does; the ranking of
alternatives is left to `Catalogue`. `MaxFaults` and `MaxEdits` bound what goes wrong.

### Transport

`call` is the request in progress with its `attempt` and `hop`, `requests` the shared
budget, `late` the half hour; `Request` is `Online::request` with its loop of
attempts, and `Responses` the nine kinds of answer it distinguishes. `step` is where
the invocation stands: `Lookup`, `Quota`, `Loop`, `Posted`, `Fetched` of the
acquisition, then `Attempt`, `SearchPage`, `Check`, `Confirm` of the fallback, and
`AcquireFails` what `acquire_with_fallback` makes of an error it does or does not
recognise as a refusal. `MaxGets` bounds the lookups before and within a fallback.
Headers, hosts, pacing's duration and redaction are left out.

### Catalogue

`Rank` and `Search` read one page: sizes and counts are compared with those of the
pages before, entries are kept or refused, the end is recognised. `Alter` changes the
list between two pages, by additions, removals or changes of order; `MaxAltered` bounds
how many of the three occur. `Resolve` is the automatic or offered choice of a show, `Pick` the
user's. An entry is what its text makes of it: eligible, skipped or for something
else; meant or not.

### Selections

`Begin` to `Close` are one invocation up to its references: a frozen manifest is
taken, or the show is resolved, the season locked (`Lock`), the manifests that cover
the request restricted to it (`Alias`), else the season's list fetched (`Detail`), its
episodes filled in with what is cached of them or ranked first (`Episode`), frozen
(`Freeze`, `Record`), and the display record read, or fetched and stored (`Display`,
`FetchDisplay`, `StoreDisplay`). `Prune` and `Change` are other processes and the
provider, `Die` a death anywhere. A request is a scope: the same range under another
name is another request. Which manifests may be pruned for room is left to
`SharedCache`; here any that no process at work needs may go.

### Transcripts

A line is a kind and two numbers. `SkipBlank` and `FrameRecord` are the automaton of
`records/parser.rs`, record after record; `PrepareRecords` is what is kept, and under
which policy it is recorded; `Retain` and `Order` write the strict derivative, read it
back and sort it when only the chronology is wrong; with `Prepared::verify` the
outcome is compared with what was kept. Decoding, placement, counts and digests, and
the caps on bytes and cues are left out.

### Reading

`TakeSnapshot`, `Probe`, `VerifyBefore`, `OpenFile`, `VerifyAgain` and `FinalVerify`
are `match_folder` and `match_tracks` around an attempt at each track; `Replaced`
gives the file another version at any time (at most `MaxChanges`), and every access
notes the version it `seen`. `TextPacket` reads text to the end; `PgsPacket`,
`Display`, `PacketEnds` are the collector of OCR cues with its checkpoints,
`TrackEnds` and `Assessment` the end of an attempt. What matching says of the first n
cues is an arbitrary function `judged`, fixed when the attempt begins: matching is a
function of the cues.

### Pgs

One action per segment: `Pcs` announces a composition, `Pds`, `Wds` and `Ods` set up
palettes, windows and objects (in fragments, over packets), `Commit` is END and draws,
`Rejected` every error, after which the decoder is poisoned, `NextPacket` and `Finish`
the ends of packet and track. `refreshed` counts acquisitions, and everything set up
remembers in which one it was. Pixels and colours are sizes.

### Matroska

A file is its tree of elements, each well formed or not. `Discover` runs over the top
elements, `NextTop`, `NextChild` and `NextPart` walk clusters, blocks and groups;
`budget` is what both passes share. `Grows` and `Breaks` are a file that changes its
length, or cannot be read, in between. `WellFormed`, `Frames` and `Cost` say of the same
tree what should come of it, without walking.

### Mp4

`NextBox` reads the boxes of the file; `Timing`, `Mapping` and `Chunk` turn the tables
of one track into samples, each with its place and time; `Sample` reads them one by
one, through the edit list, into cues. The property places every sample from the
tables by a definition of its own, and knows a text to be visible when a nanosecond ends
while the edit shows it, the unit in which the code decides that.


## 3. What the runs check

| run | instance and bounds | what it shows |
|---|---|---|
| `rename_alone` | three files, any combination of outcomes and destinations; a file system that folds the case of some letters only, while the program folds all; a folder listed up to four names; any move may be refused; nobody else acts | `PreviewIsExact`: the plan holds exactly the renames whose destination is free or is freed by another planned one. `ActsAsOneRename`: the run implements `BatchRename`. `EndingsHaveCause`: a rename fails only if its own move was refused or its destination is still taken, and after an approved run that exits 0 every file has the name it should |
| `rename_prompt` | two files, three changes by others (create, remove, replace, edit) until the user has answered | `StaleNotRenamed`: what was renamed is the file and the content that were scanned |
| `rename_hostile` | two files and a stranger; others act between any two steps and never tire; an alias the program does not know; moves refused | `ReportIsTrue`: a file the others did not touch is where the plan says, under its old, new or temporary name. `NoFileLost`: no step of the program makes a file vanish or changes its content. `ApplyFinishes`: an approved plan comes to its summary |
| `cache_room` | two processes, a season of two files and one of a single file, room for one worst case and a little more, one death | `RoomIsThere`: what is on disk and what living owners were promised fit the cap, and a response that was paid for finds its room. `BusyMeansOwned`: a claim fails only for a season that has an owner. `WorkingSetKept`: what an invocation found or fetched stays until it used it |
| `cache_tight` | two seasons in a cache that cannot hold both, bodies of weight 1 or 2, one failing write | `CapKept`: the total never exceeds the cap. `TracesHaveManifest`: what is kept, staged or paid for is selected by some manifest. `LeasesHold`: every step is one of `SeasonLease`. `InvocationsEnd` |
| `cache_paid` | the same with room for exactly two worst cases and one failing write | expected violation, see below |
| `acquire_faults` | two files, requests for either or both, quota up to 2, four faults in all, any number of invocations | `CoverageIsTrue`: references are handed out only when all are there, and an incomplete run has tried every file. `PostsAreCovered`: no charge without a marker, none the remaining quota does not suffice for. `PublishedWhole`: only whole responses. `InterruptionsHeal`: an owner's review is needed only after a write cut short, an interrupted eviction or a response without captions, and a download cut short never makes the rest of the cache unreadable. `LivesAsPromised`: the life of `ReferenceArchive`. `Converges`: repeating the command comes to an end |
| `acquire_warned` | one file, two faults | expected violation, see below |
| `approvals` | two episodes, one with three alternatives and one with a single one, two approvals allowed, one fault, one edit, any number of runs | `PaidByConsent`: an alternative is paid for only after a yes in the same run and with an approval on disk for the very body it replaces, at most one in a run. `HistoryHolds`: only what a person must look at stops a history from being replayed, and what an approval bought stays |
| `lookup` | transport: two files, nine requests, two hops; catalogue: five entries, pages of two, three kept, two changes; selections: two processes, three requests over two seasons, one change, deaths; transcripts: every file of up to three pieces out of small sets | `OnePost` and `RefusalEndsIt` for the requests; `ListsAreWhole`: a ranking or an automatic choice rests on the whole list; `SelectionsHold`: frozen requests agree on the file of every episode, and a whole season is one the provider listed; `NothingRewritten`: a manifest is at most pruned, a display name never replaced; `TranscriptIsWhole`: every line is in exactly one record, the derivative reads back as what was kept, and nothing is changed without its policy |
| `lookup_conflict` | the selections, two variants of one episode, two names for it | expected violation, see below |
| `scan` | align: all lists of up to four anchors with starts and offsets on, below and above separation and spread, two weights; match: every way two references and a query of two cues share four shingles at three distances, scripts of six cues with every split of scores up to the limits, lists that are refused; reading: five kinds of file, three packets, checkpoints after one and three frames, one change; PGS: every sequence of six segments; Matroska: every order of a few elements of each level, under a budget that suffices for some; MP4: every layout, timing and order of boxes of up to four samples | `BestIsLongest`: the score is the length of the longest chain; `BestSupported`: of the longest, one with the most shingles. `VerdictIsExact`: the verdict, or the refusal, follows from the transcripts by a definition that knows neither index nor order nor alignment. `TwinsCannotIdentify`. `OutcomeOfSnapshot`: an outcome that is no failure rests on the version of the snapshot alone. `AssessmentIsFinal`: what an attempt reports is the verdict on all cues collected, each with its proper time. `PicturesAreWhole`: nothing of an earlier acquisition shows, bounds hold, every announced composition is shown. `WalkIsWhole`: every frame of the track and no other, within the budget; refusals only with cause. `CaptionsArePlaced`: each caption lies and shows where the tables say |

Type invariants are checked as part of `approvals`, `lookup` (`LookupTyped`) and `scan`
(`ScanTyped`); those of `Rename`, `Acquisition` and `SharedCache` are theorems. Some
properties are conjunctions of named parts, each stated with its comment in its
module. `PROJECT.json` names for every property a mutation of a mapped definition that
TLC finds out.

*Why the bounds are enough.* Three entries are the least with a chain, a cycle that
needs parking and a rename that depends on neither; two suffice where others act,
since they can take any place in a chain. Two processes are the least that contend,
and the seasons are sized so that one fits and two do not: the cases of `space_for`
(nothing to do, evict, prune, refuse) all occur. Four faults let an invocation die,
its successor die in the same file, a third be refused and a fourth find a gutted
entry. Two approvals are the least with a history that continues another, and three
alternatives leave one more to be refused by the limit. Nine requests are used up by
calls of three attempts each. Five entries make two full pages and a rest, so that a
change may fall before, in and after each. Two names for one range and one for its
season are the least for an alias that restricts another, and one change of the
catalogue is the least for two selections to differ. Three records have a first, an
inner and a last one. Four anchors hold two competing chains that share an anchor and
a chain whose least offset is not its first. Six cues give scores that differ by one,
by a third and by more, the model's share being 1/3. Three packets end before, on and
after a checkpoint. Six PGS segments hold a composition, an object in two fragments, a
palette, an END and the beginning of the next. Three chunks hold a change in the run
lengths of the sample table, before and after which samples lie.

*Deadlock.* It is checked where a run has no natural end (`Acquisition` and `Approvals`
start another invocation). `Rename` stops after its summary, the processes of
`SharedCache` after their invocation or their death, the parts of `lookup` and `scan`
when the list, the file or the track is read; there deadlock is not checked, and
`ApplyFinishes` and `InvocationsEnd` say of the first two that nothing stops before.

*Fairness.* `Rename!FairSpec`: the program's steps are weakly fair, the user need not
answer, and the others may act for ever. `Acquisition!FairSpec`: a running invocation
goes on, an eviction under way goes on, and the user repeats the command; faults are
bounded, since with a fault in every run nothing converges. `SharedCache!FairSpec`:
every living process goes on; a process that never gets a lock is let go by the
time-out of `transaction`, and no lock is assumed to be granted in turn. All of these
are single threads without waiting other than for locks, so weak fairness is what the
operating system's scheduler gives them. The other specifications state no fairness:
they are loops over a list, a file or a bounded number of requests, and every property
checked of them is a safety property.

### Where the code departs from its documents

`acquire_warned`: `FOLDER.md` promises a warning whenever an earlier POST may already
have cost quota. `Cache::reserve` removes the earlier marker and then creates the new
one (`cache.rs:618`); a death in between leaves neither, and the next run sends
another POST without the warning.

`lookup_conflict`: `FOLDER.md` says that ranges can reuse a cached superset.
`alias_with_choice` (`cache.rs:161`) refuses whenever two manifests it froze itself
restrict to the range differently. One frozen before and one after a second identity of
the episode got a file do: every later request for the range under another name fails
until one of them is pruned, although both cover it and agree on every file they share.

`cache_paid`: `FOLDER.md` says that what cannot fit stops before the charge. When
`stage` fails to write the body (`cache.rs:667`), the receipt written before stays on
disk and its bytes stay promised too; in a cache that was reserved exactly, another
owner's response is then refused after its POST. `PaidFits`, a part of
`RoomIsThere` in `cache_room`, is the same property without failing writes, and holds.


## 4. What is proved

| theorem | says | for |
|---|---|---|
| `RenameTyped`, `RenameReportsTruly`, `RenameLosesNothing` | `TypeOK`, `ReportIsTrue`, `NoFileLost` | any number of entries, names and files, any equivalence of names of the program and the file system, any interference |
| `RenamesWhatWasScanned` | `StaleNotRenamed` | the same, with others that act only while the prompt is open |
| `PreviewsExactly` | `PreviewIsExact` | any folder and entries, while nobody else acts before the prompt and without aliases |
| `RenameEndsForCause` | `EndingsHaveCause` | any folder, any order of the steps and any refused moves, while nobody else acts, without aliases, with temporary names of the program's own |
| `RenamesAsOne` | `ActsAsOneRename`: a run implements `BatchRename` | the same |
| `RenameAdvances` | every step of the program or the user leaves fewer that can follow, never more than a bound set by the number of files | any entries, names and files, any interference by others |
| `AcquisitionTyped`, `ReferencesWhole`, `CoverageHolds`, `ChargesCovered`, `OnlyWoundsRemain` | `TypeOK`, `PublishedWhole`, `CoverageIsTrue`, `PostsAreCovered`, `InterruptionsHeal` | any set of files, quota, number of faults; any selections, each of finitely many files |
| `ArchiveKept` | `LivesAsPromised`: every step is one of `ReferenceArchive` or a stutter | the same |
| `RunAdvances` | an invocation comes nearer to its end with each of its steps, never more than a bound set by the number of selected files away, and no eviction takes it back | the same |
| `SharedTyped`, `BusyTruly`, `WorkingSetSafe` | `TypeOK`, `BusyMeansOwned`, `WorkingSetKept` | any number of processes and faults, any finite sets of seasons and files, any cap |
| `CapAlwaysKept`, `RoomAlwaysThere`, `TracesSelected` | `CapKept`, `RoomIsThere`, `TracesHaveManifest` | the same, deaths and failing writes included |
| `LeasesKept` | `LeasesHold`: every step is one of `SeasonLease` or a stutter | the same |
| `InvocationsAdvance` | a running invocation comes nearer to its end with each of its steps, never more than a bound set by the numbers of files and seasons away, and no step of another takes it back | the same |
| `ApprovalsTyped`, `ConsentPays`, `HistoryKept` | `TypeOK`, `PaidByConsent`, `HistoryHolds` | any episodes, alternatives, limit of approvals, number of faults and edits |
| `TransportTyped`, `PostsOnce`, `RefusalsEndIt` | `TransportTypeOK`, `OnePost`, `RefusalEndsIt` | any files, budget of requests, number of hops and lookups |
| `CatalogueTyped`, `ListsWhole` | `CatalogueTypeOK`, `ListsAreWhole` | any lists, page size, limits and number of changes |
| `SelectionsTyped`, `SelectionsConsistent`, `FrozenForGood` | `SelectionsTypeOK`, `SelectionsHold`, `NothingRewritten` | any number of processes, requests, seasons, variants, and changes of the catalogue |
| `TranscriptsTyped`, `TranscriptsWhole` | `TranscriptsTypeOK`, `TranscriptIsWhole` with all its parts | any file put together from any sequences of lines |
| `LookupsTyped` | `LookupTyped`: the composition `MCLookup` implements each of its parts | the same as for the parts, with a file that may be empty |
| `ReadingTyped`, `OutcomesBelong`, `AssessmentsFinal` | `ReadingTypeOK`, `OutcomeOfSnapshot`, `AssessmentIsFinal` | any tracks, packets, checkpoints, and number of changes of the file |
| `PgsTyped`, `PicturesWhole` | `PgsTypeOK`, `PicturesAreWhole` with all its parts | any segments and limits |
| `MatroskaTyped`, `WalksWhole` | `MatroskaTypeOK`, `WalkIsWhole` | any files (trees of elements of any length and depth of the format), track, limit of elements and scale |
| `Mp4Typed`, `ShowsWhereDeclared` | `Mp4TypeOK`, `CaptionsArePlaced` | any files (boxes and tables of any length), edit, scales and limits |
| `AlignTyped`, `AlignFindsLongest`, `AlignFindsBestSupported` | `AlignTypeOK`, `BestIsLongest`, `BestSupported` | any list of anchors, separation and spread |
| `MatchingTyped`, `TwinsUnidentified`, `VerdictsExact` | `MatchingTypeOK`, `TwinsCannotIdentify`, `VerdictIsExact` | any transcripts, limits and thresholds |
| `ScoresAreAligned` | `Matching` lists anchors as `Align` assumes them, and the chain `Align` returns for them is as long as the evidence and as the score | the same, for queries with their cues in order |
| `ScansTyped` | `ScanTyped`: the composition `MCScan` implements each of its parts | the same as for the parts |

Assumptions. Those of the modules are named, and TLC evaluates them in the runs:
kinds and ranges of the constants, and that what the code enumerates is finite
(the lock files of a directory in `survey`, the objects a PGS file can number). The
transcripts of `Matching` are typed in it too: references carry an ordered id, and no
cue starts before 0. So are the files of `Mp4`: fields are naturals, no box ends before it
starts, and every sample has a text. The files of `Transcripts` are three pieces, each from
a set of sequences of lines. `LookupsTyped` assumes in its own `ASSUME` that a piece may
be empty, since a part of `MCLookup` that is not at work rests on the empty file. Four theorems on renames say in their own `ASSUME` what the runs
`rename_alone` and `rename_prompt` fix by constants. `OpenPhases` restricts when others
act. `KeysCoarse`: names the file system takes for one are one to `collision_key`; it
fails only for aliases the program cannot know (a short name, a normalisation it does
not fold), with which `rename_hostile` runs. `TempsApart`: a temporary name, which
`temporary_name` (`rename.rs:688`) makes of process, time and counter, is nobody
else's.

*Sums and induction.* The prover cannot instantiate the library's induction theorems.
`Sums` therefore states induction of sets: a set of naturals that holds 0 and
successors holds all (`NatInduct`), and likewise for a set of subsets of a finite
set (`FiniteInduct`); a use of it names the set of those for which the claim holds.
With it a sum over a finite set (`SumFunctionOnSet`, a fold that picks an order) is
shown to lose one term at a time, whichever (`SumSplit`), and from that to be
additive, monotonous, and changed at one place by the difference. In the same way
`FlattenSeq` is shown to add one element at a time (`FlatSteps`). For what counts down to
an end, `Digits` and `FourDigits` say that of two numerals the one with the smaller first
digit that differs is smaller.

*Rename.* `ReportIsTrue` is not inductive: a report is made from `loc` and `state`, so
`IInv` says in addition what each phase of the loop may rely on: states are settled
or being worked at (`AtWork`), what was staged has a place of its own (`Bookkept`), a
location that counts is where the file is unless others touched it (`Located`), and
the file about to be moved is the one verified (`MoverKnown`). `RenamesWhatWasScanned`
adds `Fresh`: before the approval nothing has moved and a snapshot is of what was
scanned; afterwards nobody else acts, and every entry that is planned or applied leads
to its own file with the content that was scanned (`AsScanned`). The passage between
the two is the verification of all snapshots: behind `at`, they are known to be right.

`PreviewIsExact` compares the plan with the largest set of renames that can be carried
out together (`Feasible`). The passes of `propagate_blocked` only ever remove, and never
one of `Feasible`; a pass that changed nothing leaves a set that can be renamed
together, hence a part of the largest (`Previewing`). For the whole run `Orderly` adds
where every file is, also those not scanned (`Mapped`, `Parked`), that the set approved
is `Feasible` for good (`Chosen`), and a cause for every failure (`Caused`): a move that
was refused, or a target still held by an entry that failed. A run that refuses nothing
thus ends with every file of `Feasible` at its target, which is the one rename of
`BatchRename`; one that does leaves a permutation of the files. All steps before the
last map to stutters, as the abstract rename takes effect at the end.

*Acquisition.* `IInv` says of each program counter what is on disk for the file in
hand and that the others are at rest (`Shaped`, `AtWork`, `LoneWork`), and that no
eviction is under way while a transaction is (`LoneEviction`). From it, only
`Publish` makes an entry, of what was checked; and each action maps to one step of
the archive. Three further invariants rest on it. `Paid`: from the decision to buy to
the POST, a counter that is known pays for all that is still to be fetched (`Funded`),
which is why selections must be finite, and at the POST the marker is whole. `Tried`:
a selected file is there, to be fetched, among the failures, or pending for the last
pass (`Noticed`), throughout a run. `Healed`: a staging directory or a marker that
would need review belongs to a file that was wounded by a death, is the one at work,
or has a response the next run can publish (`Excused`, `Answered`).

*Shared cache.* The argument is who may write when. `Courses` ties each operation to
its step, `Holding` and `ProbersHold` say that whoever surveys or writes holds the
coordination lock, `OwnersLock` that an owner has its season's lock, and `Surveys`
that the owners a survey has seen cannot be fewer while the coordination lock is
held. Hence an eviction spares what belongs to an owner (`WorkingSets`), whenever its
survey was made.

Three invariants on top of that. `Weighed`: between the trimming and the write nobody
else writes, so what `Trim` left free (`Target`) still is when the write adds its part
(`CapKept`). `Promised`: as long as no write has failed, the cache and the budgets of all owners
fit together, a survey has seen all these owners, and who downloads has left what the files
it still wants may weigh at worst (`Funded`); hence `RoomIsThere`. `Charted`: from the
freeze to the end the manifest of an invocation stays, since its own trimming pins it
and others spare owned seasons; so whatever it writes is selected by one
(`TracesHaveManifest`).

*Approvals.* `Linked`: each approval continues the one before it, and its source still
is the body it was written for unless the owner edited it. `Effective`: what is
downloaded without asking is no missing alternative. `Offered` follows the offer
through consent, approval and charge. `HistoryHolds` is about what a step may do to
files that other approvals rest on: each either leaves them (`Stays`), extends a
history by one (`Grows`), or charges for the last candidate of one (`Charges`).

*Transport.* `Unposted` and `InHand`: a file still to be done was not posted for, the
file in hand is no longer to be done. `Accounted` and `Halted`: after a refusal no call
is under way; if the error hid it, a file that could not be fetched is missing, so that
`Attempt` finds nothing proven empty and asks for nothing.

*Catalogue.* `Followed` ties what was read to the list as it was on the first page: as
long as nothing was added, all of the present list was in it; as long as nothing was
removed, all of it is in the present list; and if nothing changed, the pages read are
the list up to the next page. Where a total was announced and
the list did not both gain and lose entries (`Comparable`), nothing is read twice and
nothing but entries of the first list: as many as the total are all of them. `Concluded` is what remains of this after the last page.

*Selections.* `Locked`: only the owner of a season is between its lock and its end.
`Ranged` and `Planned` keep manifests and plans within their request; `PlanAgrees` and
`PlanWhole` carry to the plan what is to hold once it is frozen. Two processes never
freeze for one season at a time, and what others prune only makes agreement easier.

*Transcripts.* While it frames, `FrameInv` says that the records are well-shaped
intervals of the file, one behind the other (`Shaped`), and that every line with content
that was passed lies in one of them (`PassedFramed`): so no line is in two records, and
none in no record (`AllFramed`). What is written afterwards is split at its blank lines:
the blocks of the written file are those of the cues (`WrittenBlocks`), hence the strict
reader finds the cues that were kept (`StrictIs`). If no policy was needed, the blocks
of the provider's file already are these (`Tidy`, `Writable`), so nothing was added or
lost; otherwise only the chronology can fail, and the order made of it is a
permutation that keeps cues of one start as they were (`SortedBy`, `SortedStable`,
`ReadBack`). It follows that the causes `Derivative` and `RoundTrip`, which the code
reports when its own derivative cannot be read, never occur. The model picks out and
sorts by ranks (`Ascending`, `Those`, `Sorted`), not by the library's operators on
sequences, which are recursive functions the provers know nothing of.

*Reading.* `Growing`: versions only grow, and what was read lies between the snapshot
and the present version; the last verification finds them equal. `Attempted`, of one
attempt: cues come in the order of their starts, and a picture still shown ends
provisionally (`InOrder`); a checkpoint's assessment is one of all cues unless frames
were counted since (`Standing`); and what one prefix of the cues is judged, it is judged
again. *Pgs.* `Composed`: a pending composition refers to its own acquisition only, and
announced compositions are those shown and the pending one; `Few` and `Light`: the live
objects are at most as many, and the bytes of fragments at most as large, as the checks
before each insertion allow.

*Matroska.* `MatroskaInv` says of each phase that what the walk has seen, spent and
emitted is that of the elements it has passed. `Known`: the walk goes on as long as
nothing passed is against the rules, and its counters (`time`, `block`, `duration`) are
what the elements passed say; one lemma for each level shows that an element is refused
exactly if it would break the rules (`TopsGoOn`, `ChildrenGoOn`, `PartsGoOn`, and
`TopsMayGoOn`, `ClusterGoesOn`, `GroupGoesOn` for the converse). `Spent`: what is gone
from the budget is a sum over the elements passed, a part of `Cost`, so a budget that is
exhausted before the last element was too small for the file. `Emitting`: if the file is
well formed, the frames emitted are those of the clusters and children passed, and
within a group its block without a duration, which `Timed` adds at the end.

*Mp4.* `Mp4Inv` says of each table that what the walk made of its rows is what the rows
declare: the timings read are the runs written out (`TimesRead`); the mapping is the
rows passed, and they rise (`ChunksRead`); as many samples are placed as the chunks
passed hold, each where `Declared` puts it and in media data (`SamplesLaid`). Two
lemmas carry the last: the row the code has advanced to is the last that starts no
later than the chunk (`AdvancedIs`), and a sample lies in one chunk only (`ChunkIs`).
`CaptionsMade` then counts: there are as many captions as visible samples passed, and
none is later than a sample to come. It rests on arithmetic of two time scales: both
ends of a caption are the nanoseconds of where `Position` puts the sample's ends
(`PresentedIs`), and a quotient grows exactly if a multiple lies between
(`QuotientPasses`).

*Align.* `Trailing`: the trail of each scanned anchor is a chain that ends there, as
long as its rank says. `Prolonged`: no chain of the window that ends at a scanned
anchor is longer than its rank; a longer one, shortened by its last anchor, would end
at a predecessor (lemma `Nearer`), and the best predecessor is as good. `Searched`:
no chain inside a window that was scanned to its end is longer than the best. When all
windows are done, the least offset of any chain (lemma `LeastOf`) opened a window that
holds all of it. Ranks are compared first by length and then by shingles, so the same
invariant, said of that order, gives both `BestIsLongest` and `BestSupported`.

*Matching.* `Noted` and `Visited`: while the index is built, a shingle already visited
for a reference is known either as that reference's or as having several owners.
`Apart`, `Paired`, `Considered`, `Concluded` carry this on to the verdict.

`VerdictIsExact` takes the whole way from transcripts to verdict (`Sound`), phase by
phase. After `index`, a shingle is posted exactly if one reference alone says it, and
there once (`Indexed`, from `Attributed` and `Visited`); `Fitting` and the lemmas
`OneMore` and `OneTooMany` say that the limit on shingles is met exactly by the set of
them. During `pairs`, each pair's count is the number of useful shingles visited that
link these two cues (`CountedFor`). The anchors of a reference then stand, in the order
of its keys, for its strong pairs of cues (`AnchorsStand`, `Stands`), and a chain of
anchors is a chain of cues and back, so that the score is the evidence
(`EvidenceIsScore`). Whoever has enough evidence is a candidate (`Scoring`); among
finitely many there is a leader, and its lead decides the verdict (`LeaderDecides`) as
`Exactly` says.

`Matching` takes the score as the length of the longest chain, which it defines, where
the code calls `align`. `ScoresAreAligned` joins the two: the keys of a reference are
walked by query cue (`AnchorsListed`), so its anchors are a list as `InputsAssumption`
of `Align` wants it if the cues of the query start in order, as every transcript's do
(`srt.rs:66`), and the longest chain has one length only (`LengthIsScore`).

The type invariant of `Matching` needs two bounds: a shingle has at most as many owners as references
visited that say it (`Visitors`), and independent evidence is no more than the query has
cues (`EvidenceWithin`), which bounds the scores.

*Compositions.* A step of `MCLookup` or `MCScan` is a step of one part and leaves the
others alone (`EachPartGoesOn`), and each part starts as it would by itself or rests
on an input that is empty (`EachPartAtFirst`). So the composition implements the specification
of every part, and what is proved of a part holds of it; `LookupsTyped` and `ScansTyped`
state this for the types.

*Progress.* Of a claim that something ends, this prover reaches the half that makes loops
end: a number that every step lowers. `RenameAdvances` counts the entries still to be
decided and those that may still be parked (`Pending`), then the phase (`Level`, which
lets `propagate_blocked` begin again only after it removed an entry), then the place in
the pass; that an entry may be parked only once (`Parkable`) is what ends the breaking of
cycles. `InvocationsAdvance` counts chapters of an invocation, the files ahead, the turn
of a file, and within a transaction the seasons `survey` has not seen, each once freed
and once locked; a wait for the cache's lock costs one step however often others take
it. `RunAdvances` counts the parts of an invocation, the files its pass has still to look
at and the steps of the file at work, which is always one of those (`Course`): whatever
the outcome of a step, that file leaves the pass. None of these bounds depends on what
others do. The rest of `ApplyFinishes`, `InvocationsEnd` and `Converges`, that a step is always possible and is taken, is about `ENABLED` and
fairness and left to TLC.

*Only model-checked.* Liveness (`ApplyFinishes`, `Converges`, `InvocationsEnd`) beyond
that; what the theorems on renames leave to `rename_hostile`, other
programs that act during the apply loop; and the properties the code does not have, as
the runs show that expect a violation.


## 5. Not modelled

Left out for good: the pixels of a crop and the recognition of their text (a neural
network), run-length decoding and blending of PGS pictures, the decoding of single
fields and of text encodings, and the parts of the two libraries under `src/crates`
that the program does not call (multiplexers, fragmented MP4, HEIF images). They are
sequential computation on bytes, mostly upstream code. The command line parses
arguments, resolves directories and calls the folder command once.

Left out of modelled parts: the wording of messages and the parsing of names,
provenance and show titles; durability beyond the death of a process (loss of power);
caps on bytes, cues and words in `Transcripts` and the index; the range of a cue's time
in `Mp4`; in `SharedCache` the creation of lock files, the limits on the number of
files, the weight of the display record and of approvals, and ties of fetch times; in
`Approvals` edits by the owner of the cache while a run is not waiting for an answer.

Three limits that the documents state are modelled as they are, without a property
against them: a left-over `request-*.partial` blocks its request (`cache.rs:1124`), a
torn `series-N.json` blocks its show (`cache.rs:488`), and an interrupted write may
leave what its owner must review (`FOLDER.md:291`).


## 6. Plan

Every safety property and every action property that a passing run checks is now stated
by a theorem. What would come next, in this order:

1. `Acquisition` and `Approvals` as one specification, with an eviction between any two
   transactions of a fallback.
2. What is left of `EndingsHaveCause` when other programs act during the apply loop: a
   cause may then be theirs, and has to be named in the model before it can be proved.
3. `Reading` with `Matching` in the place of `judged`, so that the final outcome of a
   file is the verdict on all its cues, from packets to evidence, in one theorem.
