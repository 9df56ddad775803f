# A verification project for btrealloc

btrealloc finds btrfs extents that are only partly referenced, copies what is
still live of each into a new extent, and points every file that held the old
one at the copy with `FIDEDUPERANGE`, so that the kernel can free it. It does
so on a filesystem in use. This directory holds TLA+ modules for it, the TLC
configurations that check them on small instances, and proofs of the main
results that TLAPS checks for every instance. Source paths are relative to the
repository, `src/src/run.rs` being its `src/run.rs`.

## The system

| Component | Where | State | Operations |
|---|---|---|---|
| Extents | `extent.rs` | an extent's address, sizes, references and live ranges | size used and free, judgement, holders, merging of live ranges |
| Rewriting one extent | `run.rs` | holders with paths, what they looked like before, stretches in memory, the temporary | `process`, `locate_holders`, `read_liveranges`/`fill`, `stage`, `redirect_chunks`, `finish_holder`/`redirect_tail`, the final check |
| The run and its accounts | `lib.rs`, `scan.rs`, `run.rs`, `main.rs` | scan totals, extents left alone by reason, report, the error that ends it | the loop of `run`, `Scanner::next`, `resolve_again`, `leave_unresolved`, `Report::failed`, `finish` |
| Lookup of references | `kernel.rs` | caches of subvolumes and last snapshots | `resolve`, `resolve_again`, `logical_ino`, `collect`, `inode_holds_extent` |
| Walk of the extent tree | `kernel.rs` | next address, generation, batch | `walk`, `extent_batch`, `tally`, `ExtentWalk::next` |
| Tree search | `kernel.rs` | search key and buffer, pool of buffers | `search`, `search_all`, `items` |
| Subvolumes and paths | `kernel.rs` | cache of subvolume paths | `find_subvolume`, `inode_path`, `open_inode` |
| Opening, command line, formatting | `kernel.rs`, `main.rs`, `format.rs` | none | `Filesystem::open`, argument parsing |

The run takes extents from the scanner, which takes them from the walk, which
resolves a batch at a time on a thread pool. Each extent worth it is looked up
again and handed to `Runner::process` on the one main thread. All of it shares
the filesystem with its users, who take no lock against the tool.

What is hard about it:

* **Interleaving with users.** Bytes are read at one time and offered to the
  kernel at another; sizes, paths and references are read, kept and used.
* **Calls that do less than they say.** A dedupe reports success whether or not
  it moved anything, moves part sectors only in a special case, and may stop
  short.
* **Boundaries.** Files end inside a sector, live ranges end where files do,
  copies must hold whole sectors and nothing that nobody references.
* **Trees that move.** Searches are made a page at a time, extents a batch at a
  time, subvolumes a step of a path at a time, over trees that change between
  any two of them. What the extent tree says lags behind the files.
* **Things kept.** Paths of subvolumes are kept for a run, last snapshots for a
  batch, search arguments for ever.
* **Failure half way.** Some holders have been moved and some not; some errors
  end the run and some only leave one extent alone; all of them are accounted
  for.

What makes it correct: users never see anything but their own doing; an
undisturbed rewrite succeeds and frees the extent; sharing survives; copies are
fully used; what is reported as rewritten has been released; every extent is
accounted for once; success means committed; the rewrite ends; a search misses
nothing that stays and repeats nothing; the walk meets every extent once, and
not the run's own copies; a lookup finds every holder; a path is followed only
to the file it was found for. `PROJECT.json`
lists the hazards at their lines, with the properties that watch them.

## The modules

* **`Extent`** has the pure definitions of `extent.rs`: `LiveRanges`,
  `disk_used_bytes`, `disk_free_bytes`, `not_worth_rewriting`.
* **`MergeRanges`** is the loop of `live_ranges`, one action per arm of its
  match (`Extend`, `Push`), so that the loop can be compared with
  `Extent!LiveRanges` and proved.
* **`UserView`** is the abstract specification: the content and the metadata of
  every file, and the users' operations on them. The tool has no action in it.
  Its third variable, `ops`, is what users have left to do: each of its steps
  takes one away, so that a step of the tool, which takes none, cannot pass for
  a user's write.
* **`Btrfs`** is the filesystem, external code modelled from how `src/src` uses
  it: `files` maps each sector of a file to a sector of an extent, with the
  starts of file extent items marked; `disk` is the extents, which are
  immutable. It has `Dedupe` with the kernel's comparison, the rule about part
  sectors that `redirect_tail` describes, and the users' operations. `View`,
  `Meta` and `ops` itself are the refinement mapping to `UserView`.
* **`Realloc`** composes `Extent` and `Btrfs` with the rewrite of one extent.
  `pc` is the place in the code:

  | Actions | Code |
  |---|---|
  | `LogicalIno`, `Collect` | `resolve_again`: `logical_ino`, then `collect` file by file |
  | `Judge` | the second judgement in `run` |
  | `InodePath`, `Inspect` | `locate_holders`, holder by holder |
  | `FillOpen`, `FillRead`, `EndStretch` | `fill` and `read_liveranges` |
  | `Before` | `HolderBefore::read` |
  | `Stage`, `RedirectOpen`, `DedupeChunk`, `DedupeShort` | the loop of `realloc_extent`: `stage`, `redirect_chunks` |
  | `FinishHolder`, `RedirectTail`, `Verify` | `finish_holder`, `redirect_tail` |
  | `CheckReleased` | the last loop of `realloc_extent` |
  | `Fault` | an error from any system call, as `Report::failed` and `leave_unresolved` sort it |
  | `UserNext` | any user, between any two steps |

  `found`, `refs`, `name`, `before`, `ranges`, `rd`, `buf`, `copies`, `temp` and
  `calls` are the locals the code keeps across system calls. Where the code has
  a file open across a step it cannot go away (`Held`).
* **`Run`** is `run` with the scanner's and the report's accounts. What the walk
  yields and what `process` comes to are choices; `Realloc` has how. `nothing`
  and `unresolved` count what the code passes over without an account, and
  `moved` what comes and goes between two lookups of an extent, so that the sums
  over the accounts can be stated.
* **`Search`** is `SearchArgs`: `Begin` takes arguments as the last search left
  them, `Copy`/`Return` are the ioctl, one item a step, `Each` and `Complete`
  are `items`, and `Continue`, with `Advance` for the carries between the three
  fields of a key, and `Finish` are the loop of `search_all`. Users insert and
  delete items at any step. `steady` and `seen` are history: what has been
  there throughout, and at some time.
* **`Tally`** adds up one extent's references as `Tally::add_item`,
  `add_inline` and `finish` do, with a reading that may stop anywhere.
* **`DataRef`** goes on from there, or from `logical_ino` if the account was
  opaque (`Begin`), to the items themselves: `Stretch` and `Belongs` are
  `data_ref_extents` in the arithmetic of a word of any width, `Collect` the
  loop of `collect`; `LogicalIno` is the grouping at the end of `logical_ino`.
* **`Walk`** is `Filesystem::walk`, `extent_batch` and `ExtentWalk::next`: the
  commit and the generation, one item of a search a step, the reread of the
  extent a full buffer ends in, the threads that resolve a batch, and what is
  done with each extent before the next is asked for, a rewrite that allocates
  and frees included. It takes paging from `Search` and tallying from `Tally`
  as done.
* **`Resolve`** is who holds one extent: `ReadBatch`, `Collect`, `CheckShared`
  are the way by the extent tree (`resolve`, `may_be_shared`, `last_snapshot`
  with its cache), `Lookup` and its retries the way by the backreference walk,
  which `ResolveAgain` takes at once. Of btrfs it has what the code's comments
  rely on: a leaf with an owner and a generation, shared by snapshots until one
  side writes to it; full backreferences once the owner has let go of a shared
  leaf; an extent tree that is told at a commit, or some time before
  (`account`, `Flush`).
* **`Subvolumes`** is the climb of `find_subvolume` with its stack and cache,
  and the way down: `inode_path` and `open_inode`. Users move, exchange, rename
  and delete at any step.
* **`MCRealloc`, `MCRun`, `MCMergeRanges`, `MCSearch`, `MCDataRef`,
  `MCWalk`, `MCResolve`, `MCSubvolumes`** give the constants their values.
* **`ReallocProofs`, `RunProofs`, `MergeRangesProofs`, `SearchProofs`,
  `WalkProofs`, `ResolveProofs`, `DataRefProofs`, `SubvolumesProofs`** hold the
  theorems, each about the module it is named after; `DataRefProofs` has those
  about `Tally` too.

Definitions whose comment says *Mutant* are wrong on purpose: each is a
plausible mistake in the definition that follows it, and the property it is
listed with in `PROJECT.json` fails when it takes that definition's place.

## The runs

| Run | Configuration | Shows |
|---|---|---|
| `quiet` | `MCRealloc_quiet.cfg` | Nobody else about: a rewrite that is begun succeeds and the extent is let go (`RewriteSucceeds`); whole sectors shared stay shared (`SharingPreserved`); no copy has an unreferenced sector (`CopiesFullyReferenced`). With one reflink made meanwhile, where those promise nothing, `TypeOK` |
| `busy` | `MCRealloc_busy.cfg` | One user operation other than a reflink anywhere, and system calls that fail, stop short or move nothing: `NothingVisible`, which is the refinement of `UserView`, `Terminates`, `FoundIsReleased`, and of a run without `--apply` `DryRunWritesNothing` |
| `accounts` | `MCRun.cfg` | With and without `--apply`: `EachExtentOnce`, `FailuresAgree`, `SuccessIsCommitted`, `StopsAtError`, and `ReportAddsUp`: the report is off by what changed between two lookups and no more |
| `merge` | `MCMergeRanges.cfg` | `MergedRight`, and `Returned`: the loop computes `LiveRanges` |
| `search` | `MCSearch.cfg` | `NothingMissed`, `HandedInOrder`, `SearchEnds`, whatever comes and goes between two steps |
| `data_refs` | `MCDataRef.cfg` | `FilesIsEverything`: an account is trusted only if it is whole; `OpaqueForAReason`: and is distrusted only if it is not; `CollectedOnce`, and `FailsOnlyIfChanged`, also where a base wraps |
| `walk` | `MCWalk.cfg` | `NothingPassedOver`, `MetInOrder`, `WalkEnds` with users and rewrites about; `OwnCopiesPassedOver`, unless somebody begins a transaction just before the generation is read; `NoLookupDuringRewrite` |
| `resolve` | `MCResolve.cfg` | `EveryReferenceFound`: by the walk always, by the extent tree as long as what it said stays true; `QuietResolves`; `ResolutionEnds` |
| `paths` | `MCSubvolumes.cfg` | `OpenedIsTheHolder`, and `UndisturbedIsReached`: neither what others move nor what is remembered of it is in the way; `LostOnTheWay`: a file is taken for deleted only if it is, or if a subvolume on the way looked up has left a directory that is gone |
| `tails` | `MCRealloc_tails.cfg` | violates `DeduplicationPreserved` |
| `split` | `MCRealloc_split.cfg` | violates `RewrittenIsReleased` |
| `gone` | `MCSubvolumes_gone.cfg` | violates `DeletedIsDeleted` |

### Three disagreements between the code and what is said of it

* **Part last sectors are unshared** (`tails`). The README says existing
  deduplication is preserved. `redirect_tail` gives every holder a copy of its
  own of a part last sector, so two identical files whose size is not a
  multiple of the sector size lose the sharing of that one sector. Its comment
  knows; the README does not. The run starts from such files only: in its
  trace both have three bytes in the same two sectors of the extent, and after
  the rewrite share the first and have a copy each of the second.
* **A split item keeps the extent** (`split`). The second lookup asks
  `logical_ino` for the offsets of a file's items, then `collect` searches
  between the first and the last of them and counts. A write into the middle of
  the last item, between the two, splits it: the part behind the write starts
  past the last offset, and the count still agrees. That part is not copied, and
  the last check does not reach it, so the extent is reported as rewritten and
  its space as freed while the file still holds it. The comment on `collect`
  says it fails if the extent changed. No data is at risk
  (`RewriteIsInvisible`).
* **A file that is there passes for deleted** (`gone`). `find_subvolume` reads
  where a subvolume sits, finds the path of the subvolume that holds it, and
  then looks up the directory in there. If the subvolume is moved out of that
  directory and the directory removed before the lookup, `ino_lookup` fails with
  `NotFound`. `inode_path` passes that on, and `locate_holders`, for which it
  means "Deleted, perhaps still open somewhere. It cannot be opened", leaves the
  extent alone as `Deleted`, which is no failure. In the trace the file has its
  name throughout. The same comes of a subvolume that is moved out of another,
  which is then deleted. What holds instead is `LostOnTheWay`.

### Where a property has a proviso

Some properties say less than a comment or a test does, because the code keeps
only that much of it. Without its proviso each has a short counterexample:

* `ReportAddsUp` allows for `moved`. The totals are counted at the walk and the
  rest after the second lookup; the test that says they must add up
  (`tests/vm.rs`) runs on a filesystem at rest, where they do.
* `FoundIsReleased` is about rewrites whose second lookup found every sector
  that files hold of the extent (`AllFound`), without reflinks. The other case
  is what `split` shows. A reflink made after the lookup is a holder that the last
  check does not ask, and no run or theorem is about that.
* `OwnCopiesPassedOver` allows for `slipped`. `walk` commits, then asks for the
  generation. If somebody begins a transaction in between, the answer is that
  transaction, and copies the run makes before it commits are not newer. They
  are met and counted; as they are fully referenced they are not rewritten.
* `EveryReferenceFound` allows for `lagged` where the extent tree is trusted. A
  leaf that a file shares with a snapshot is copied when the file is written
  to. Until the commit the extent tree does not know that the old leaf is the
  snapshot's alone now, and the file's new leaf is too young to look shared.
  `resolve_again`, on whose answer a rewrite is made, does without the extent
  tree, and without the proviso.
* `UndisturbedIsReached` is about what nobody has touched in the whole run. A
  subvolume that was moved while it was looked for, or since, has no path for
  the rest of the run, although nothing changes any more.
* `LostOnTheWay` allows for the race that `gone` shows, and for no more than
  that: the subvolume must be one of those on the stack of the search, it must
  have left the place its backreference was read to name, and the directory
  there must be gone.
* `OpaqueForAReason` allows for a reading cut short, which `Tally` lets end in
  a distrusted account. The walk has no such account: it reads the last extent
  of a buffer that was too small again on its own (`Walk!Reread`). `Tally` has
  more behaviours than the code there.

### Bounds

Files have three sectors of two bytes, over an extent of four sectors. Two
bytes is the smallest sector a file can end inside of; three sectors are enough
for a file to have two items with a gap, and four in the extent for a gap, a
touching and an overlapping neighbour. All bytes of the extent differ, so that
a byte in the wrong place is seen. `quiet` takes every layout of the first file
(each sector any sector of the extent or a hole) against a choice of second
files that overlap it, touch it, repeat a sector, end ragged, are unlinked, hold
nothing or split one run into three items. `MinReclaimBytes` and `MaxCopyRatio`
are scaled to these sizes; in `busy` the extent has five sectors and the ratio is two,
so that files which hold most of the extent make it not worth a rewrite, and some
that hold three sectors of it, in one item that a write can split, do not. Two holders
suffice for the properties, which all speak of at most two files. `MaxOps`
bounds what users do: one operation in `busy`, of any kind but a reflink, since
`FoundIsReleased` says nothing where reflinks are made, and one reflink in
`quiet`. More operations than one, and reflinks where users must see nothing of
the tool, are left to the theorems `RewriteIsInvisible` and
`RewrittenFoundIsReleased`, which have no such bound. `Run` has four extents, four
kinds of them, and a drift that turns each kind into another.

`Search` has two values in each field of a key, the least that has every carry
and the end of the key space, and a buffer of two or three items, so that pages
end everywhere, completely or not. `DataRef` has words of four bits, with items
early enough in their files for a base to wrap, and a compressed extent that is
larger than it is on disk; each set of items comes with every division of its
references between the extent item and the items behind it, any of which may be
shared. `Walk` has four addresses, one of them with an item
that is not an extent's, extents of one to three items and a buffer of two:
batches end on, before and inside extents, and one extent fills the buffer by
itself. Two operations and one rewrite suffice to free an address, reuse it and
allocate another ahead. `Resolve` has three subvolumes, for a snapshot of a
snapshot, and four operations: a write, a snapshot, a write to either side and a
deletion; a buffer for one reference that may grow to three, of six there can
be. `Subvolumes` has two besides the top level, side by side or nested, and two
lookups, so that the second meets what the first has left in the cache.

### Fairness

`Realloc` assumes weak fairness of the tool's own steps and of nothing else: it
is one thread that keeps making system calls, and each of its steps stays
enabled until it is taken. Users and faults owe it nothing. `Terminates` is
checked under that. `Search`, `Walk` and `Resolve` assume the same of their
tool, the threads of the pool included, which run until their work is done, for
`SearchEnds`, `WalkEnds` and `ResolutionEnds`; in `Resolve` only of a resolution
that has begun. Users are bounded by `MaxOps`, which matters to
`ResolutionEnds` alone: with references that are added faster than the lookup is
repeated it is `LOGICAL_INO_MAX_SIZE` that ends it, and that case is in the
instance. The other properties are safety properties.

## What is proved

All proofs are for every value of the constants, from the named assumptions
`TunablesAssumption`, `BtrfsAssumption`, `InitialAssumption`,
`ReallocAssumption`, `RunAssumption`, `InputsAssumption`, `SearchAssumption`,
`WalkAssumption`, `ResolveAssumption`, `DataRefAssumption` and
`SubvolumesAssumption`, which TLC evaluates on every run: sizes are natural
numbers, the sector size is not zero, the first files lead to sectors that are
on the disk, in items that are contiguous there, the extent has the sectors it is
said to have and some file leads to it, files have one item at an offset,
offsets and extents are at most half a word, the inputs of the merge are sorted, the search buffer has room for one item of any
size, the first subvolumes sit somewhere, each in a place of its own, and
directories have names. `LeastNumber`, that a set of natural numbers has a least
member, is derived from the library's `NatLessThanWellFounded` and stands in for
induction where a chain of items or of subvolumes, a sum over a sequence, a
filtering of one or a maximum calls for it.

### A rewrite (`ReallocProofs`)

**`RewriteIsInvisible`**: `Spec => NothingVisible`, that is,
`Realloc` implements `UserView`. The invariant `Inv` is small on purpose: files
have the shape of files, every mapping leads to an extent that exists
(`MapsOK`), and so does the temporary whenever it is about to be deduped from
(`TempOK`). Lemma `ToolKinds` shows that each of the seventeen actions and each
fault is of one of three kinds: it leaves the filesystem alone (`Quiet`), adds
an extent nobody refers to (`Staged`), or makes one dedupe call from the
temporary (`Deduped`). `MapsOK` makes the second kind invisible, since no file
reads an extent that did not exist; `TempOK` and the comparison in `Dedupe`
make the third so, sector by sector, the part sector past a file's end
included. The users' actions are then each mapped to the action of `UserView`
of the same name (`WriteStep`, `ShrinkStep`, `GrowStep`, ...); `UserCounted` and
`ToolUncounted` say that a step is counted just when it is a user's. The theorem
says
that nothing in the tool's bookkeeping, however stale, can matter to users: what
it rests on is that the kernel compares, and that the tool changes files in no
other way.

**`DryRunIsDry`**: a step of a dry run that changes the filesystem is a user's.
`DryInv` says a dry run never gets past `locate_holders`.

**`RewrittenFoundIsReleased`**: `Spec => FoundIsReleased`. `Base` adds to `Inv`
that the sectors of an item go back to one that starts it (`Chained`), so that a
file which holds any sector of the extent has an item of it, and that the tool
never dedupes from the extent itself. From the second judgement on, `RInv` keeps
that every sector leading to the extent is among those the lookup found, and
that holders which the last check has gone over have let go of it. Nothing is
assumed of the dedupes: the last check alone carries the claim.

**`ReallocTypeCorrect`**: `Spec => []TypeOK`. That a byte read is a byte takes
more than types: a file must lead to a sector that is on the disk, so every
dedupe must stay within the temporary it is made from. `FsOK` says so of the
files and of the disk, and that items are contiguous; `LookOK` that what was
found are references to whole sectors of the extent, apart in the file, and at
least one for each holder; `FillOK` that the stretch being read, and each copy,
begins and ends with a sector of the extent; `StageOK` that the temporary has as
many sectors as its copy and that no call still to be made reaches past it
(`ChunkFacts` is the arithmetic of `redirect_chunks`, `SectorsMoved` that of a
length which is not whole sectors).

**`QuietRewriteSucceeds`, `SharingIsPreserved`, `CopiesAreReferenced`**:
`Spec => []RewriteSucceeds`, `[]SharingPreserved`, `[]CopiesFullyReferenced`, for
any files, layout and number of sectors. They share one inductive invariant,
`QuietInv`: where no user has acted and no call fails (`Undisturbed`), `QInv`
holds. Its parts follow the rewrite.

* `LookQ`: the references found are the items there are, so that there is a
  holder; `FitQ`: each holder is where it was found, ends behind what it holds of
  the extent, and keeps its size and time.
* `FillQ` is the arithmetic of `fill`. What has been read is what the extent
  holds (`ReadSoFar`); a reference passed over is spent, at the position reached
  (`AllSpent`); and each sector that some holder has whole is in a copy, in the
  stretch at hand, or in a range to come (`NoneLost`). So what becomes copies is
  just the whole sectors that are held, each in one copy.
* `StagedQ`: what is staged reads as what it is to replace, so that the kernel's
  comparison agrees (`CallAccepted`, `TailAccepted`).
* `MoveQ`: while a stretch is redirected, each whole sector of it has been moved to
  its place in the temporary or a call for it is still to be made, and two that
  were one still are unless one of them has been moved; `ShareQ`: between
  stretches they all are.
* `RestQ`: what still leads to the extent is whole and in a copy not redirected
  yet, or is a part sector not seen to yet. Nothing is left at the last check,
  which makes `DoneQ`.
* `KeptQ`: each sector staged, but for the temporary at hand, is led to by a
  sector that no call to come moves again.

That the extent is held by some file at first is an assumption
(`ReallocAssumption`): the walk looks up only extents that it met in the tree, and
without a holder the second lookup says that the extent has changed.

### The run (`RunProofs`)

**`RunTypeCorrect`, `RunFailuresAgree`, `RunSuccessIsCommitted`,
`RunStopsAtError`**: the accounts of a run of any length. The
invariant adds that an error is only ever pending where nothing more is done
with an extent (`ErrorEnds`), and that a dry run has nothing to commit
(`DryIsClean`). Lemma `UsedBound` is the arithmetic of `disk_free_bytes`:
scaling cannot make more of an extent used than it has, so the unsigned
subtraction cannot wrap.

**`RunEachExtentOnce`, `RunReportAddsUp`**: the sums. `Accounted` and `Split`
are the two equations with the extent at hand, and the one whose lookup ended
the run, on the side where they are still missing.

### Live ranges (`MergeRangesProofs`)

**`MergeCorrect`**: the merge's ranges stay apart and
cover just what it has gone over, for sorted inputs of any length. The
strengthening `IInv` adds that no range to come starts before the last merged
one, which is where the sorting is needed.

**`MergeReturnsLiveRanges`**: what the loop ends with is `LiveRanges`, the
definition by maximal covered stretches. `Bounds` adds that merged ranges start
and end where some reference does, which makes each of them one of those
stretches; that they are apart and cover the rest makes them all there are.

### Tree search (`SearchProofs`)

**`SearchTypeCorrect`, `SearchMissesNothing`, `SearchInOrder`**: for keys of any
width, any buffer, any range and any sequence of searches. The order of keys is
strict and total, and `Advance` is the successor in it, with its carries. `SInv`
says of a search that is under way that the buffer is sorted and within the
range left, that all handed over is before that range or in the buffer, and that
what has been there throughout and is before the range has been handed over; and
that a buffer with room to spare has all there is (`RoomOK`), which is what
`Complete` relies on.

### The walk (`WalkProofs`)

**`WalkMeetsInOrder`, `WalkLooksUpNothing`** rest on the order of what has been
met, what is in the batch and where the next search begins (`OrderOK`), and on
what is empty when (`PhaseOK`). **`WalkPassesOverCopies`** rests on `OwnOK`:
every copy in the tree, and every one read, is newer than the generation.
**`WalkPassesOverNothing`** rests on `FoundOK`: an extent that stays is met, in
the batch, read, or still ahead of the search, wherever the buffer ends and
whatever is read again there. `KeptFilters` says that the filtering of a batch
loses nothing it should keep, and keeps the order.

### Looking an extent up (`ResolveProofs`)

**`ResolveFindsEveryReference`**: `Spec => []EveryReferenceFound`. `FsInv` is
about btrfs: a leaf that another subvolume owns, and that is without full
backreferences, is still that subvolume's own leaf, and from before its last
snapshot (`OwnersOK`). `TreeInv` is the argument for `may_be_shared`, which the
comments in the code give in part. While the extent tree is trusted, and is
right, what it says has been collected or is to be (`Accounted`). If a reference
is in a leaf lent by another subvolume, that subvolume is among those collected,
its references were read from that same leaf, even if it has another by now, and
its last snapshot, from the cache or not, is no older (`Exposed`): so the check
comes upon it and falls back on the walk. That the cache is emptied for each
batch is what makes it so. `WalkInv` is the like for the walk, and simpler.

**`QuietExtentsResolve`**: `Spec => []QuietResolves`. What the walk counts, and
what it makes room for, is the number of pairs of a subvolume and a reference
(`NeededFacts`); `QuietInv` keeps that it stays what it was when the lookup
began, so that no retry is in vain and what was counted is collected.

### From the account to the items (`DataRefProofs`)

**`FilesAreEverything`, `OpaqueOnlyForAReason`**: for accounts of any length, in
the extent item or behind it. `ReadInv` says that what is left to be read is the
end of what there was, `AddedInv` that the number counted and the DataRefs kept
are those of the entries up to there, as long as none was passed over. That each
reference counts for something (`CountGrows`) makes the numbers agree only where
nothing is left.

**`EachIsCollectedOnce`, `CollectFailsOnlyIfChanged`**: `BaseCovers` is the
arithmetic of `data_ref_extents`: the stretch of a base has the items with that
base, for a word of any size, if it wraps and if it does not. `OnceInv` says that
no two DataRefs still to be looked for stand for the same item, nor one of them
for an item collected; `AllInv` that each item there all along is collected or
still stood for; `UnchangedInv` that, before anything changes, each DataRef has
as many items as it says. `NamedFit` and `WalkFit` show that what the extent
tree and what the backreference walk say is fit for that: the one because items
of a file have one base each, the other because a file has one item at an
offset.

### Paths (`SubvolumesProofs`)

**`SubvolumesOpenTheHolder`, `SubvolumesLoseTheDeleted`**: for any tree of
subvolumes. `StackOK` says that whoever waits for another subvolume to be found
has the backreference that named it, so that the directory looked up is one
there has been. `SitsOK` says that where a subvolume sits there is a directory,
whatever users do: so a lookup that fails means that the directory is gone and
that the subvolume it was looked up for has left it, which is `LostOnTheWay`.

**`SubvolumesReachTheUndisturbed`**: `Spec => []UndisturbedIsReached`. The
subvolumes above one are a chain, the least set that is closed under going up
(`Chain`); as long as nobody has touched any of a chain, its names make a path
that leads down it again, and what the climb has on its stack and in its cache
of such a subvolume is that path.

### Only model-checked

* `Terminates`, `SearchEnds`, `WalkEnds`, `ResolutionEnds`: liveness is out of
  the prover's reach.

## What is left out

* A read that overlaps a write may return a mixture. The comparison in the
  kernel makes it harmless, and the theorem covers it in effect, but the reads
  of the model are atomic.
* Addresses are not reused while the tool runs, and extents are not freed: the
  model's `disk` only grows.
* Writes into nodatacow files, which happen in place. The tool leaves such
  files alone; the model has their users leave them alone too.
* Growth of a file into space reserved past its end.
* A copy is one extent. btrfs may split or compress it.
* Loss of power. Until the commit at the end of a run everything may be lost
  together, which is the filesystem's affair.
* Formatting, logging, argument parsing and the checks on the mount, which are
  single system calls that keep no state. The split of the totals by size class.
* Answers the kernel does not give: items that run past the search buffer or are
  too short to read. The code refuses them; the model's kernel does not send
  them.
* In `Walk`, the reread of one extent is a step, and so is the reading of one
  file in `Resolve`. `Search` has what happens within such a step. An extent
  freed and allocated anew at one address during a walk is another extent,
  which nothing promises to meet.
* In `Resolve`, a tree is a leaf under a root node that each snapshot has for
  itself; leaves are not split, and balance does not move them.
* In `Subvolumes`, symbolic links and mounts, which `open_beneath` refuses, and
  hard links.

## Plan

1. *Done:* `Extent`, `Btrfs`, `UserView`, `Realloc`, `Run`, `MergeRanges`, their
   runs and the theorems above.
2. *Done:* `Search`, `Tally`, `DataRef`, `Walk`, `Resolve`, `Subvolumes` and their
   runs.
3. *Done:* the accounts and the merge in full, `Search`, `Walk`, the references
   `Resolve` finds, the release of an extent, a dry run, `OpenedIsTheHolder` and
   `LostOnTheWay`.
4. *Done:* `DataRef` with `Tally`, and what is promised where nothing changes:
   `QuietResolves` and `UndisturbedIsReached`; and the type invariant of
   `Realloc`.
5. *Done:* the arithmetic of `fill`, and with it what an undisturbed rewrite
   promises: `RewriteSucceeds`, `SharingPreserved` and `CopiesFullyReferenced`.
   Only liveness is left to TLC.
