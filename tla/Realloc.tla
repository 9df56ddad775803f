------------------------------ MODULE Realloc -------------------------------
(***************************************************************************)
(* The rewrite of one extent, on a filesystem in use: from the lookup of   *)
(* its holders just before acting (Filesystem::resolve_again, kernel.rs)   *)
(* through Runner::process and realloc_extent (run.rs) to the outcome that *)
(* the run accounts for.  One step is one system call that can see or      *)
(* change what users do, with the computation up to the next one.  Calls   *)
(* on the temporary, which nobody else can reach, go with the step before  *)
(* them, and the attributes of a file are read in the step that opens it.  *)
(* Users write, truncate, reflink, rename, unlink and close files between  *)
(* any two steps.                                                          *)
(*                                                                         *)
(* The filesystem and its users are in module Btrfs.  Ext is the address   *)
(* of the extent being rewritten.                                          *)
(***************************************************************************)
EXTENDS Extent, Btrfs

CONSTANTS
    ExtentSectors,  \* uncompressed sectors of Ext
    DiskBytes,      \* on-disk bytes of Ext
    Modes,          \* whether --apply may be given, or not
    Faults          \* what the kernel may do: see Fault, Moves and DedupeShort

Ext == 1

\* An extent is there for as long as some file leads to it.
ASSUME ReallocAssumption ==
    /\ ExtentSectors \in Nat /\ DiskBytes \in Nat /\ Modes \subseteq BOOLEAN
    /\ Ext \in DOMAIN InitDisk /\ DOMAIN InitDisk[Ext] = 0 .. ExtentSectors - 1
    /\ \A fs \in InitFiles : \E f \in Files, i \in Sectors : fs[f].map[i].addr = Ext

VARIABLES
    apply,    \* Options::apply; a dry run is one without
    pc,       \* where the tool is
    outcome,  \* how the extent is accounted for
    found,    \* what logical_ino says of each file: first and last offset, count
    refs,     \* the references each holder has to Ext
    todo,     \* the holders the loop at pc has still to visit
    name,     \* the path each holder was found at
    before,   \* HolderBefore: size and mtime of each holder
    ranges,   \* live ranges read_liveranges has still to read
    rd,       \* fill's locals
    buf,      \* the bytes read, by position in Ext
    copies,   \* the stretches read and not yet redirected
    temp,     \* the temporary staged last: its extent and its size
    calls     \* the dedupe calls redirect_chunks has still to make

lookup   == <<found, refs, name>>
reading  == <<ranges, rd, buf>>
tool     == <<pc, outcome, lookup, todo, before, reading, copies, temp, calls>>
vars     == <<fsvars, ops, apply, tool>>

\* The sector just past the item that starts at sector i.
ItemEnd(map, i) == Min({j \in i + 1 .. MaxSectors :
                          j = MaxSectors \/ map[j].head})

\* The file extent items of a file that point into Ext (search_extent_refs).
Items(map) ==
    { [file_offset   |-> Pos(i, 0),
       extent_offset |-> Pos(map[i].sec, 0),
       num_bytes     |-> Pos(ItemEnd(map, i) - i, 0)] :
          i \in {j \in Sectors : map[j].addr = Ext /\ map[j].head} }

-----------------------------------------------------------------------------
(* Helpers of the tool's steps.                                            *)

Holders == {f \in Files : found[f].count > 0}

\* The holders are visited in order of subvolume and inode.
cur == Min(todo)

AllRefs == UNION {refs[f] : f \in Holders}

\* open_inode: the path must still lead to the inode it was found for.
Opens(f) == files[f].link = name[f]

\* Mutant: the rewrite ends without saying how.
StopUnsaid(out) ==
    /\ pc' = "done"
    /\ UNCHANGED <<outcome, fsvars, ops, apply, lookup, todo, before, reading, copies, temp, calls>>

Stop(out) ==
    /\ pc' = "done"
    /\ outcome' = out
    /\ UNCHANGED <<fsvars, ops, apply, lookup, todo, before, reading, copies, temp, calls>>

\* On to the next holder of the loop that starts at here, or past the loop.
NextHolder(here, after) ==
    /\ todo' = IF todo = {cur} THEN Holders ELSE todo \ {cur}
    /\ pc'   = IF todo = {cur} THEN after ELSE here

First(set) == CHOOSE x \in set : \A y \in set : x.start <= y.start

-----------------------------------------------------------------------------
(* Looking the extent up again: Filesystem::resolve_again.                 *)

\* The backreference walk, which reports each file's items by offset.
LogicalIno ==
    /\ pc = "resolve"
    /\ LET offsets(f) == {r.file_offset : r \in Items(files[f].map)}
           held == {f \in Files : offsets(f) # {}}
       IN  \/ /\ held = {}
              /\ Stop("Changed")
           \/ /\ held # {}
              /\ found' = [f \in Files |->
                    IF f \in held
                      THEN [first |-> Min(offsets(f)), last |-> Max(offsets(f)),
                            count |-> Cardinality(offsets(f))]
                      ELSE found[f]]
              /\ todo' = held
              /\ pc' = "collect"
              /\ UNCHANGED <<fsvars, ops, apply, outcome, refs, name, before, reading,
                             copies, temp, calls>>

\* Each file's items are then read from the stretch the walk gave for it, and
\* have to add up to what it counted.
Collect ==
    /\ pc = "collect"
    /\ LET want == found[cur]
           got  == {r \in Items(files[cur].map) :
                      want.first <= r.file_offset /\ r.file_offset <= want.last}
       IN  \/ /\ Cardinality(got) # want.count
              /\ Stop("Changed")
           \/ /\ Cardinality(got) = want.count
              /\ refs' = [refs EXCEPT ![cur] = got]
              /\ NextHolder("collect", "judge")
              /\ UNCHANGED <<fsvars, ops, apply, outcome, found, name, before, reading,
                             copies, temp, calls>>

\* run (lib.rs) judges the extent again as it is now.
Judge ==
    /\ pc = "judge"
    /\ LET live == live_uncompressed_bytes(AllRefs)
           free == disk_free_bytes(live, DiskBytes, Pos(ExtentSectors, 0))
           reason == not_worth_rewriting(free, live)
       IN  \/ free = 0 /\ Stop("NothingToFree")
           \/ free # 0 /\ reason # "none" /\ Stop(reason)
           \/ /\ free # 0 /\ reason = "none"
              /\ pc' = "path"
              /\ UNCHANGED <<fsvars, ops, apply, outcome, lookup, todo, before, reading,
                             copies, temp, calls>>

-----------------------------------------------------------------------------
(* locate_holders: a path to every holder, and whether it can be rewritten. *)

InodePath ==
    /\ pc = "path"
    /\ \/ files[cur].link = 0 /\ Stop("Deleted")
       \/ /\ files[cur].link # 0
          /\ name' = [name EXCEPT ![cur] = files[cur].link]
          /\ pc' = "inspect"
          /\ UNCHANGED <<fsvars, ops, apply, outcome, found, refs, todo, before, reading,
                         copies, temp, calls>>

\* Whether one of the holder's references runs past its file's last sector.
PastEnd(f) ==
    LET end == Pos((files[f].size + SectorSize - 1) \div SectorSize, 0)
    IN  \E r \in refs[f] : r.file_offset + r.num_bytes > end

\* fill begins at a position of Ext, with every reference before it.
Stretch(start) == [start |-> start, at |-> start, src |-> 0, from |-> 0, to |-> 0,
                   left |-> {p \in Files \X AllRefs : p[2] \in refs[p[1]]}]

\* Mutant: a dry run goes on to rewrite.
InspectIgnoringDryRun ==
    /\ pc = "inspect"
    /\ Opens(cur) /\ ~files[cur].nocow /\ ~PastEnd(cur)
    /\ todo = {cur}
    /\ todo' = Holders
    /\ ranges' = LiveRanges(AllRefs)
    /\ rd' = Stretch(First(ranges').start)
    /\ pc' = "fill"
    /\ UNCHANGED <<fsvars, ops, apply, outcome, lookup, before, buf, copies, temp, calls>>

Inspect ==
    /\ pc = "inspect"
    /\ \/ ~Opens(cur) /\ Stop("Failed")
       \/ Opens(cur) /\ files[cur].nocow /\ Stop("NoDataCow")
       \/ Opens(cur) /\ ~files[cur].nocow /\ PastEnd(cur) /\ Stop("PastEnd")
       \/ /\ Opens(cur) /\ ~files[cur].nocow /\ ~PastEnd(cur)
          /\ \/ /\ todo # {cur}
                /\ todo' = todo \ {cur}
                /\ pc' = "path"
                /\ UNCHANGED <<fsvars, ops, apply, outcome, lookup, before, reading,
                               copies, temp, calls>>
             \/ todo = {cur} /\ ~apply /\ Stop("WouldRewrite")
             \/ /\ todo = {cur} /\ apply
                /\ todo' = Holders
                /\ ranges' = LiveRanges(AllRefs)
                /\ rd' = Stretch(First(ranges').start)
                /\ pc' = "fill"
                /\ UNCHANGED <<fsvars, ops, apply, outcome, lookup, before, buf,
                               copies, temp, calls>>

-----------------------------------------------------------------------------
(* read_liveranges: every live stretch is read into memory, each part from *)
(* a file that holds it.                                                   *)

range == First(ranges)

\* The references fill has not passed that cover the position it is at.  It
\* goes through them by position in the extent, equal ones in any order.
Sources == {p \in rd.left : rd.at \in Span(p[2])}
Nearest == {p \in Sources : \A q \in Sources :
              p[2].extent_offset <= q[2].extent_offset}

FillOpen ==
    /\ pc = "fill"
    /\ rd.at < range.end
    /\ \E p \in Nearest :
         LET f    == p[1]
             r    == p[2]
             from == r.file_offset + (rd.at - r.extent_offset)
             to   == Min({range.end, r.extent_offset + r.num_bytes,
                          rd.at + Max({files[f].size - from, 0})})
             left == {q \in rd.left : q[2].extent_offset >= r.extent_offset} \ {p}
         IN  \/ ~Opens(f) /\ Stop("Failed")
             \/ /\ Opens(f)
                /\ rd' = IF to <= rd.at
                           THEN [rd EXCEPT !.left = left]
                           ELSE [rd EXCEPT !.left = left, !.src = f,
                                           !.from = from, !.to = to]
                /\ pc' = IF to <= rd.at THEN "fill" ELSE "pread"
                /\ UNCHANGED <<fsvars, ops, apply, outcome, lookup, todo, before, ranges,
                               buf, copies, temp, calls>>

\* read_exact_at: the file may have been cut short since its size was read.
FillRead ==
    /\ pc = "pread"
    /\ \/ /\ files[rd.src].size < rd.from + (rd.to - rd.at)
          /\ Stop("Failed")
       \/ /\ files[rd.src].size >= rd.from + (rd.to - rd.at)
          /\ buf' = [p \in DOMAIN buf |->
                       IF p \in rd.at .. rd.to - 1
                         THEN ByteAt(rd.src, rd.from + (p - rd.at)) ELSE buf[p]]
          /\ rd' = [rd EXCEPT !.at = rd.to]
          /\ pc' = "fill"
          /\ UNCHANGED <<fsvars, ops, apply, outcome, lookup, todo, before, ranges,
                         copies, temp, calls>>

\* Mutants: a gap ends the stretch; or the next reference may start where the
\* last one stopped.
NextStartNone == range.end
NextStartHere == LET later == {r.extent_offset : r \in {q \in AllRefs : q.extent_offset >= rd.at}}
                 IN  IF later = {} THEN range.end ELSE Min(later)

\* What follows a gap that a file's end left in the stretch, if anything does.
NextStart == LET later == {r.extent_offset : r \in {q \in AllRefs : q.extent_offset > rd.at}}
             IN  IF later = {} THEN range.end ELSE Min(later)

\* Mutant: the part sector is kept.
PartEnd == Pos((rd.at + SectorSize - 1) \div SectorSize, 0)

\* Where the whole sectors read so far end.
WholeEnd == Pos(rd.at \div SectorSize, 0)

\* Nothing is left to read on from: the whole sectors read become a copy.
EndStretch ==
    /\ pc = "fill"
    /\ rd.at >= range.end \/ Sources = {}
    /\ copies' = IF WholeEnd > rd.start
                   THEN copies \union {[start |-> rd.start, end |-> WholeEnd]}
                   ELSE copies
    /\ IF NextStart < range.end
         THEN /\ rd' = Stretch(NextStart)
              /\ UNCHANGED <<pc, ranges>>
         ELSE /\ ranges' = ranges \ {range}
              /\ IF ranges' = {}
                   THEN pc' = "before" /\ UNCHANGED rd
                   ELSE rd' = Stretch(First(ranges').start) /\ UNCHANGED pc
    /\ UNCHANGED <<fsvars, ops, apply, outcome, lookup, todo, before, buf, temp, calls>>

-----------------------------------------------------------------------------
(* realloc_extent: each stretch is staged and every holder pointed at it.  *)

Before ==
    /\ pc = "before"
    /\ \/ ~Opens(cur) /\ Stop("Failed")
       \/ /\ Opens(cur)
          /\ before' = [before EXCEPT ![cur] =
                          [size |-> files[cur].size, mtime |-> files[cur].mtime]]
          /\ NextHolder("before", IF copies = {} THEN "finish" ELSE "stage")
          /\ UNCHANGED <<fsvars, ops, apply, outcome, lookup, reading, copies, temp, calls>>

copy == First(copies)

\* The bytes go to a new extent of an unnamed file, one sector into it.
Stage ==
    /\ pc = "stage"
    /\ disk' = Append(disk,
          [i \in 0 .. (copy.end - copy.start) \div SectorSize - 1 |->
             [o \in Offsets |-> buf[copy.start + Pos(i, o)]]])
    /\ temp' = [addr |-> Len(disk) + 1, size |-> Pos(1, copy.end - copy.start)]
    /\ pc' = "redirect"
    /\ UNCHANGED <<files, ops, apply, outcome, lookup, todo, before, reading, copies, calls>>

\* The dedupe calls that point what f holds of the staged stretch at it, with
\* the file taken to be as long as it was before anything moved.
Chunks(f) ==
    LET lo(r)   == Max({r.extent_offset, copy.start})
        to(r)   == Min({r.extent_offset + r.num_bytes, copy.end})
        dest(r) == r.file_offset + (lo(r) - r.extent_offset)
        end(r)  == Min({r.file_offset + r.num_bytes, before[f].size})
    IN  { [at  |-> dest(r) \div SectorSize,
           sec |-> (lo(r) - copy.start) \div SectorSize,
           len |-> Min({to(r) - lo(r), end(r) - dest(r)})] :
             r \in {q \in refs[f] : lo(q) < to(q) /\ dest(q) < end(q)} }

\* Mutant: every holder has the stretch staged for itself.
RedirectedApart ==
    /\ NextHolder("stage", IF copies = {copy} THEN "finish" ELSE "stage")
    /\ copies' = IF todo = {cur} THEN copies \ {copy} ELSE copies

\* The holder at hand is done with this stretch.
Redirected ==
    /\ NextHolder("redirect", IF copies = {copy} THEN "finish" ELSE "stage")
    /\ copies' = IF todo = {cur} THEN copies \ {copy} ELSE copies

RedirectOpen ==
    /\ pc = "redirect"
    /\ \/ ~Opens(cur) /\ Stop("Failed")
       \/ /\ Opens(cur)
          /\ calls' = Chunks(cur)
          /\ IF calls' = {} THEN Redirected
                            ELSE pc' = "dedupe" /\ UNCHANGED <<todo, copies>>
          /\ UNCHANGED <<fsvars, ops, apply, outcome, lookup, before, reading, temp>>

call == CHOOSE c \in calls : \A d \in calls : c.at <= d.at

\* A dedupe reports success whether or not it moved anything.
Moves(f, c) == {DedupeSectors(f, c, temp)} \union (IF "idle" \in Faults THEN {0} ELSE {})

DedupeChunk ==
    /\ pc = "dedupe"
    /\ \E n \in Moves(cur, call) :
           \/ DedupeRefused(cur, call, n, temp) /\ Stop("Failed")
           \/ /\ Dedupe(cur, call, n, temp)
              /\ calls' = calls \ {call}
              /\ IF calls' = {} THEN Redirected
                                ELSE UNCHANGED <<pc, todo, copies>>
              /\ UNCHANGED <<disk, ops, apply, outcome, lookup, before, reading, temp>>

\* The kernel may do less than asked, a whole number of sectors; the loop then
\* carries on from there, and gives up if nothing moved at all.
DedupeShort ==
    /\ pc = "dedupe"
    /\ "short" \in Faults
    /\ \E k \in 0 .. call.len \div SectorSize :
         /\ Pos(k, 0) < call.len
         /\ \/ k = 0 /\ Stop("Failed")
            \/ /\ k > 0
               /\ Dedupe(cur, call, k, temp)
               /\ calls' = (calls \ {call}) \union
                     {[at |-> call.at + k, sec |-> call.sec + k,
                       len |-> call.len - Pos(k, 0)]}
               /\ UNCHANGED <<disk, ops, apply, pc, outcome, lookup, todo, before, reading,
                              copies, temp>>

-----------------------------------------------------------------------------
(* finish_holder, and the check that the extent has been let go.           *)

Verified(f) ==
    /\ files[f].size = before[f].size
    /\ files[f].mtime = before[f].mtime

\* The file's last sector, if it is a part sector that Ext holds.
TailSector(f) == before[f].size \div SectorSize
HoldsTail(f) ==
    /\ before[f].size % SectorSize # 0
    /\ \E r \in refs[f] : Pos(TailSector(f), 0) \in r.file_offset .. r.file_offset + r.num_bytes - 1

\* A part sector gets a copy of its own, read from the file and staged.
FinishHolder ==
    /\ pc = "finish"
    /\ \/ ~Opens(cur) /\ Stop("Failed")
       \/ /\ Opens(cur) /\ HoldsTail(cur) /\ files[cur].size < before[cur].size
          /\ Stop("Failed")
       \/ /\ Opens(cur) /\ HoldsTail(cur) /\ files[cur].size >= before[cur].size
          /\ disk' = Append(disk, [i \in {0} |-> [o \in Offsets |->
                IF Pos(TailSector(cur), o) < before[cur].size
                  THEN Byte(cur, TailSector(cur), o) ELSE 0]])
          /\ temp' = [addr |-> Len(disk) + 1,
                      size |-> Pos(1, before[cur].size % SectorSize)]
          /\ pc' = "tail"
          /\ UNCHANGED <<files, ops, apply, outcome, lookup, todo, before, reading, copies, calls>>
       \/ /\ Opens(cur) /\ ~HoldsTail(cur)
          /\ pc' = "verify"
          /\ UNCHANGED <<fsvars, ops, apply, outcome, lookup, todo, before, reading,
                         copies, temp, calls>>

RedirectTail ==
    /\ pc = "tail"
    /\ LET c == [at |-> TailSector(cur), sec |-> 0, len |-> before[cur].size % SectorSize]
       IN  \E n \in Moves(cur, c) :
           \/ DedupeRefused(cur, c, n, temp) /\ Stop("Failed")
           \/ /\ Dedupe(cur, c, n, temp)
              /\ pc' = "verify"
              /\ UNCHANGED <<disk, ops, apply, outcome, lookup, todo, before, reading,
                             copies, temp, calls>>

Verify ==
    /\ pc = "verify"
    /\ \/ ~Verified(cur) /\ Stop("Modified")
       \/ /\ Verified(cur)
          /\ NextHolder("finish", "check")
          /\ UNCHANGED <<fsvars, ops, apply, outcome, lookup, before, reading, copies,
                         temp, calls>>

\* Mutant: the check looks at the first offset only.
StillHoldsFirst(f) ==
    \E r \in Items(files[f].map) :
       \A q \in refs[f] : r.file_offset <= q.file_offset

\* inode_holds_extent, over the offsets the holder had references at.
StillHolds(f) ==
    \E r \in Items(files[f].map) :
       /\ \E q \in refs[f] : q.file_offset <= r.file_offset
       /\ \E q \in refs[f] : r.file_offset <= q.file_offset + q.num_bytes - 1

CheckReleased ==
    /\ pc = "check"
    /\ \/ StillHolds(cur) /\ Stop("Failed")
       \/ ~StillHolds(cur) /\ todo = {cur} /\ Stop("Rewritten")
       \/ /\ ~StillHolds(cur) /\ todo # {cur}
          /\ todo' = todo \ {cur}
          /\ UNCHANGED <<fsvars, ops, apply, pc, outcome, lookup, before, reading,
                         copies, temp, calls>>

\* Any system call can fail.  Report::failed and leave_unresolved tell the
\* errors that end the run from those that leave one extent alone.
Fault ==
    /\ pc \notin {"judge", "done"}
    /\ \/ "fatal" \in Faults /\ Stop("Fatal")
       \/ /\ "other" \in Faults
          /\ Stop(IF pc \in {"resolve", "collect"} THEN "Unresolved" ELSE "Failed")

-----------------------------------------------------------------------------
(* The users of the filesystem.                                            *)

\* The file the tool has open across the step to come.
Held == CASE pc = "pread" -> {rd.src}
          [] pc \in {"dedupe", "tail", "verify"} -> {cur}
          [] OTHER -> {}

-----------------------------------------------------------------------------
Init ==
    /\ FsInit
    /\ apply \in Modes
    /\ pc = "resolve"
    /\ outcome = "none"
    /\ found = [f \in Files |-> [first |-> 0, last |-> 0, count |-> 0]]
    /\ refs = [f \in Files |-> {}]
    /\ todo = {}
    /\ name = [f \in Files |-> 0]
    /\ before = [f \in Files |-> [size |-> 0, mtime |-> 0]]
    /\ ranges = {}
    /\ rd = [start |-> 0, at |-> 0, src |-> 0, from |-> 0, to |-> 0, left |-> {}]
    /\ buf = [p \in 0 .. Pos(ExtentSectors, 0) - 1 |-> 0]
    /\ copies = {}
    /\ temp = [addr |-> 0, size |-> 0]
    /\ calls = {}

ToolNext ==
    \/ LogicalIno \/ Collect \/ Judge
    \/ InodePath \/ Inspect
    \/ FillOpen \/ FillRead \/ EndStretch
    \/ Before \/ Stage \/ RedirectOpen \/ DedupeChunk \/ DedupeShort
    \/ FinishHolder \/ RedirectTail \/ Verify \/ CheckReleased

UserNext == pc # "done" /\ UserStep(Held) /\ UNCHANGED <<apply, tool>>

\* The extent is accounted for; nothing more is said about it here.
Done == pc = "done" /\ UNCHANGED vars

Next == ToolNext \/ Fault \/ UserNext \/ Done

\* The tool is one thread that keeps running; users owe it nothing.
Spec == Init /\ [][Next]_vars /\ WF_vars(ToolNext)

-----------------------------------------------------------------------------
(* What is to be shown.                                                    *)

Outcomes == (LeftAlone \ {"Failed"}) \union
            {"none", "NothingToFree", "WouldRewrite", "Rewritten", "Failed",
             "Modified", "Fatal"}
Labels == {"resolve", "collect", "judge", "path", "inspect", "fill", "pread",
           "before", "stage", "redirect", "dedupe", "finish", "tail", "verify",
           "check", "done"}

\* The type invariant: every variable holds a value of the kind the code keeps
\* in it, and every mapping of a file leads to an extent there is.
TypeOK ==
    /\ files \in [Files -> File]
    /\ \A f \in Files, i \in Sectors : files[f].map[i].addr \in 0 .. Len(disk)
    /\ ops \in 0 .. MaxOps /\ apply \in BOOLEAN
    /\ pc \in Labels
    /\ outcome \in Outcomes
    /\ found \in [Files -> [first : Nat, last : Nat, count : Nat]]
    /\ refs \in [Files -> SUBSET ExtentRef]
    /\ todo \subseteq Files
    /\ name \in [Files -> Nat]
    /\ before \in [Files -> [size : Nat, mtime : Nat]]
    /\ buf \in [0 .. Pos(ExtentSectors, 0) - 1 -> Bytes]
    /\ temp.addr \in 0 .. Len(disk) /\ temp.size \in Nat
    /\ (pc = "done") <=> (outcome # "none")

\* Contents and metadata are the users' alone (README.md, "The files touched
\* should only have had their extents reallocated"): no step of the tool, at
\* any point, whatever users do meanwhile, changes a byte, a size, an mtime or
\* a path that a user can see.
NothingVisible == UV!Spec

\* A dry run makes no change to the filesystem (README.md, "Usage"): whatever
\* changes while it runs, a user changed.
DryRunWritesNothing == [][(~apply /\ ops' = ops) => UNCHANGED fsvars]_vars

\* With nobody else about, and no failing system call, a rewrite that is begun
\* is carried through: it never fails, and nothing holds the extent after it
\* (realloc_extent, whose last check says so).
Undisturbed == ops = MaxOps /\ Faults = {}
RewriteSucceeds ==
    (pc = "done" /\ Undisturbed) =>
        /\ outcome \notin {"Failed", "Modified", "Changed", "Unresolved", "Fatal"}
        /\ outcome = "Rewritten" => \A f \in Files : Items(files[f].map) = {}

\* Two files that shared a whole sector of the extent share it still once the
\* extent is rewritten (README.md: existing deduplication is preserved).
SharedSectors(f, g) ==
    { p \in Sectors \X Sectors :
        \E r \in refs[f], s \in refs[g] :
           /\ Pos(p[1], 0) \in r.file_offset .. r.file_offset + r.num_bytes - 1
           /\ Pos(p[2], 0) \in s.file_offset .. s.file_offset + s.num_bytes - 1
           /\ r.extent_offset + (Pos(p[1], 0) - r.file_offset)
                = s.extent_offset + (Pos(p[2], 0) - s.file_offset) }
SameSector(m, n) == m.addr = n.addr /\ m.sec = n.sec
SharingPreserved ==
    (outcome = "Rewritten" /\ Undisturbed) =>
        \A f \in Files, g \in Files : \A p \in SharedSectors(f, g) :
           (Pos(p[1] + 1, 0) <= files[f].size /\ Pos(p[2] + 1, 0) <= files[g].size)
              => SameSector(files[f].map[p[1]], files[g].map[p[2]])

\* So they do the part last sector that both of them end in, at the same place
\* in it (README.md says so of all that files share).
EndIn(f, i) == Min({files[f].size - Pos(i, 0), SectorSize})
DeduplicationPreserved ==
    (outcome = "Rewritten" /\ Undisturbed) =>
        \A f \in Files, g \in Files : \A p \in SharedSectors(f, g) :
           EndIn(f, p[1]) = EndIn(g, p[2])
              => SameSector(files[f].map[p[1]], files[g].map[p[2]])

\* The copies a rewrite makes are fully referenced when it is done, as
\* ExtentWalk says (kernel.rs): it leaves no unreachable space of its own.
CopiesFullyReferenced ==
    (outcome = "Rewritten" /\ Undisturbed) =>
        \A a \in Len(InitDisk) + 1 .. Len(disk) : \A s \in DOMAIN disk[a] :
           \E f \in Files, i \in Sectors :
              files[f].map[i].addr = a /\ files[f].map[i].sec = s

\* An extent reported as rewritten has been let go by every file, so that its
\* space really is free (Report::freed_bytes).
RewrittenIsReleased ==
    outcome = "Rewritten" => \A f \in Files : Items(files[f].map) = {}

\* So it has, whatever users do but for reflinks and whatever dedupes leave
\* undone, if every sector that leads to the extent was among the references
\* that the second lookup came to (realloc_extent, whose last check looks at
\* those only).
AllFound ==
    \A f \in Files, i \in Sectors : files[f].map[i].addr = Ext =>
        /\ f \in Holders
        /\ \E r \in refs[f] : Pos(i, 0) \in r.file_offset .. r.file_offset + r.num_bytes - 1
FoundIsReleased ==
    [](pc = "judge" /\ AllFound /\ "clone" \notin UserOps => []RewrittenIsReleased)

\* The rewrite of one extent always comes to an end, whatever users do.
Terminates == <>(pc = "done")
=============================================================================
