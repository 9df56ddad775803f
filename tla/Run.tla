-------------------------------- MODULE Run ---------------------------------
(***************************************************************************)
(* A whole run: lib.rs's run, with the Scanner (scan.rs) it takes extents  *)
(* from and the Runner (run.rs) it hands them to, and main's exit status.  *)
(*                                                                         *)
(* What the walk comes up with at each address is a choice: an extent, one *)
(* it could not resolve, or an error that ends it.  So is what becomes of  *)
(* an extent handed to Runner::process; module Realloc has how.  An extent *)
(* is its size on disk, its uncompressed size and the bytes of it that are *)
(* live, which may have changed by the time it is resolved again.          *)
(***************************************************************************)
EXTENDS Extent, Sequences

CONSTANTS
    MaxExtents,    \* addresses the walk goes through
    WalkExtents,   \* the extents there can be
    Drift          \* how far an extent's live bytes may move under the run

ASSUME RunAssumption ==
    /\ MaxExtents \in Nat
    /\ WalkExtents \subseteq [disk : Nat, unc : Nat, live : Nat]
    /\ Drift \subseteq Int

VARIABLES
    apply,       \* Options::apply; a dry run is one without
    read_only,   \* Filesystem::read_only
    pc,          \* where the run is
    walked,      \* addresses the walk is past
    extent,      \* the extent at hand
    extents,     \* ScanStats::extents
    totals,      \* ScanStats::totals
    left_alone,  \* ScanStats::left_alone, by reason
    report,      \* Report
    error,       \* Scanner::error
    synced,      \* whether everything rewritten has been committed
    result,      \* what run returns, which is main's exit status
    nothing,     \* extents handed over that had nothing to free
    unresolved,  \* extents the walk could not hand over
    moved        \* unreachable bytes that came, or went, between two lookups

stats == <<extents, totals, left_alone, nothing, unresolved>>
setup == <<apply, read_only>>
vars  == <<setup, pc, walked, extent, stats, report, error, synced, result, moved>>

Bucket == [count : Nat, allocated : Nat, used : Nat, unreachable : Nat]
ZERO   == [count |-> 0, allocated |-> 0, used |-> 0, unreachable |-> 0]

Used(e) == disk_used_bytes(e.live, e.disk, e.unc)
Free(e) == disk_free_bytes(e.live, e.disk, e.unc)
Reason(e) == not_worth_rewriting(Free(e), e.live)

\* Bucket arithmetic of Totals::add and LeftAloneStats::add.
Add(bucket, e) == [count       |-> bucket.count + 1,
                   allocated   |-> bucket.allocated + e.disk,
                   used        |-> bucket.used + Used(e),
                   unreachable |-> bucket.unreachable + Free(e)]

Leave(reason, e) == left_alone' = [left_alone EXCEPT ![reason] = Add(@, e)]

\* LeftAloneStats::total, reason by reason.
Sum(n) == n["TooLittleToFree"] + n["TooMuchToCopy"] + n["NoDataCow"] + n["PastEnd"]
            + n["Changed"] + n["Unresolved"] + n["Failed"] + n["Deleted"]

Total == [count       |-> Sum([reason \in LeftAlone |-> left_alone[reason].count]),
          unreachable |-> Sum([reason \in LeftAlone |-> left_alone[reason].unreachable])]

-----------------------------------------------------------------------------
Init ==
    /\ apply \in BOOLEAN /\ read_only \in BOOLEAN
    /\ pc = "open"
    /\ walked = 0 /\ moved = 0
    /\ extent = [disk |-> 0, unc |-> 0, live |-> 0]
    /\ extents = 0 /\ nothing = 0 /\ unresolved = 0
    /\ totals = ZERO
    /\ left_alone = [reason \in LeftAlone |-> ZERO]
    /\ report = [rewritten |-> 0, copied |-> 0, freed |-> 0, skipped |-> 0, modified |-> 0]
    /\ error = "none"
    /\ synced = TRUE
    /\ result = "none"

\* Filesystem::open and Scanner::new either work or end the run at once.
Open ==
    /\ pc = "open"
    /\ \/ /\ pc' = "exit" /\ result' = "err"
       \/ /\ ~(apply /\ read_only)
          /\ pc' = "next"
          /\ UNCHANGED result
    /\ UNCHANGED <<walked, extent, stats, report, error, synced, moved>>

\* Mutant: the walk goes on after an error.
NextExtentRegardless ==
    /\ pc = "next"
    /\ walked < MaxExtents
    /\ walked' = walked + 1
    /\ \E e \in WalkExtents :
         /\ extent' = e
         /\ extents' = extents + 1
         /\ totals' = Add(totals, e)
    /\ pc' = "judge"
    /\ UNCHANGED <<left_alone, nothing, unresolved, report, error, synced, result, moved>>

\* Scanner::next, as long as the walk has more: extents are counted as they
\* are handed over.
NextExtent ==
    /\ pc = "next"
    /\ error = "none" /\ walked < MaxExtents
    /\ walked' = walked + 1
    /\ \E e \in WalkExtents :
         /\ extent' = e
         /\ extents' = extents + 1
         /\ totals' = Add(totals, e)
    /\ pc' = "judge"
    /\ UNCHANGED <<left_alone, nothing, unresolved, report, error, synced, result, moved>>

\* leave_unresolved for an extent the walk could not resolve, of which nothing
\* but its address is known.
NextUnresolved ==
    /\ pc = "next"
    /\ error = "none" /\ walked < MaxExtents
    /\ walked' = walked + 1
    /\ \/ error' = "walk" /\ UNCHANGED <<left_alone, unresolved>>
       \/ /\ \E reason \in {"Changed", "Unresolved"} :
               left_alone' = [left_alone EXCEPT ![reason].count = @ + 1]
          /\ unresolved' = unresolved + 1
          /\ UNCHANGED error
    /\ UNCHANGED <<pc, extent, extents, totals, nothing, report, synced, result, moved>>

\* The walk is over, or a search of the extent tree failed, or an error ended
\* it before.
NextNone ==
    /\ pc = "next"
    /\ \/ error # "none" /\ UNCHANGED error
       \/ error = "none" /\ walked = MaxExtents /\ UNCHANGED error
       \/ error = "none" /\ error' = "search"
    /\ pc' = "finish"
    /\ UNCHANGED <<walked, extent, stats, report, synced, result, moved>>

\* Mutant: an extent not worth rewriting is counted and rewritten all the same.
WeighOnly(on) ==
    \/ /\ Free(extent) = 0
       /\ nothing' = nothing + 1
       /\ pc' = "next"
       /\ UNCHANGED left_alone
    \/ /\ Free(extent) # 0
       /\ IF Reason(extent) # "none" THEN Leave(Reason(extent), extent)
                                     ELSE UNCHANGED left_alone
       /\ pc' = on
       /\ UNCHANGED nothing

\* The extent is passed over for having nothing to free, or left alone for not
\* being worth it, or else goes on.
Weigh(on) ==
    \/ /\ Free(extent) = 0
       /\ nothing' = nothing + 1
       /\ pc' = "next"
       /\ UNCHANGED left_alone
    \/ /\ Free(extent) # 0 /\ Reason(extent) # "none"
       /\ Leave(Reason(extent), extent)
       /\ pc' = "next"
       /\ UNCHANGED nothing
    \/ /\ Free(extent) # 0 /\ Reason(extent) = "none"
       /\ pc' = on
       /\ UNCHANGED <<left_alone, nothing, moved>>

Judge ==
    /\ pc = "judge"
    /\ Weigh("resolve")
    /\ UNCHANGED <<walked, extent, extents, totals, unresolved, report, error, synced, result,
                   moved>>

\* Scanner::resolve_again: the extent as it is now.
ResolveAgain ==
    /\ pc = "resolve"
    /\ \/ /\ \E d \in Drift :
               /\ extent.live + d \in 1 .. extent.unc
               /\ extent' = [extent EXCEPT !.live = @ + d]
          /\ moved' = moved + Free(extent') - Free(extent)
          /\ pc' = "again"
          /\ UNCHANGED <<left_alone, error>>
       \/ /\ \/ error' = "resolve" /\ UNCHANGED left_alone
             \/ /\ \E reason \in {"Changed", "Unresolved"} : Leave(reason, extent)
                /\ UNCHANGED error
          /\ pc' = "next"
          /\ UNCHANGED <<extent, moved>>
    /\ UNCHANGED <<walked, extents, totals, nothing, unresolved, report, synced, result>>

JudgeAgain ==
    /\ pc = "again"
    /\ Weigh("process")
    /\ UNCHANGED <<walked, extent, extents, totals, unresolved, report, error, synced, result,
                   moved>>

\* Mutant: what is freed is counted in uncompressed bytes.
ProcessRewritesUncompressed ==
    /\ pc = "process"
    /\ report' = [report EXCEPT !.rewritten = @ + 1, !.copied = @ + extent.live,
                                !.freed = @ + extent.unc - extent.live]
    /\ synced' = ~apply
    /\ pc' = "next"
    /\ UNCHANGED <<walked, extent, stats, error, result, moved>>

\* Runner::process: rewritten, or on a dry run found that it would be.
ProcessRewrites ==
    /\ pc = "process"
    /\ report' = [report EXCEPT !.rewritten = @ + 1, !.copied = @ + extent.live,
                                !.freed = @ + Free(extent)]
    /\ synced' = ~apply
    /\ pc' = "next"
    /\ UNCHANGED <<walked, extent, stats, error, result, moved>>

\* ... or left alone for what its holders are, or because something failed,
\* which Report::failed files under what it means.
ProcessLeaves ==
    /\ pc = "process"
    /\ \/ /\ \E reason \in {"NoDataCow", "PastEnd", "Deleted"} : Leave(reason, extent)
          /\ UNCHANGED report
       \/ /\ Leave("Failed", extent)
          /\ \/ report' = [report EXCEPT !.skipped = @ + 1]
             \/ apply /\ report' = [report EXCEPT !.modified = @ + 1]
    /\ synced' \in {synced, synced /\ ~apply}
    /\ pc' = "next"
    /\ UNCHANGED <<walked, extent, extents, totals, nothing, unresolved, error, result, moved>>

\* Mutant: the extent the run stops at is not counted.
ProcessFatalUncounted ==
    /\ pc = "process"
    /\ error' = "process"
    /\ synced' \in {synced, synced /\ ~apply}
    /\ pc' = "finish"
    /\ UNCHANGED <<walked, extent, stats, report, result, moved>>

\* ... or the end of the run: nothing after it could be rewritten either.
ProcessFatal ==
    /\ pc = "process"
    /\ Leave("Failed", extent)
    /\ error' = "process"
    /\ synced' \in {synced, synced /\ ~apply}
    /\ pc' = "finish"
    /\ UNCHANGED <<walked, extent, extents, totals, nothing, unresolved, report, result, moved>>

\* Mutant: success is reported without a commit.
FinishUnsynced ==
    /\ pc = "finish"
    /\ result' = IF error = "none" THEN "ok" ELSE "err"
    /\ pc' = "exit"
    /\ UNCHANGED <<walked, extent, stats, report, error, synced, moved>>

\* What was rewritten is committed before the run is said to have worked.
Finish ==
    /\ pc = "finish"
    /\ \/ error # "none" /\ result' = "err" /\ UNCHANGED synced
       \/ error = "none" /\ ~apply /\ result' = "ok" /\ UNCHANGED synced
       \/ /\ error = "none" /\ apply
          /\ \/ result' = "ok" /\ synced' = TRUE
             \/ result' = "err" /\ UNCHANGED synced
    /\ pc' = "exit"
    /\ UNCHANGED <<walked, extent, stats, report, error, moved>>

Exit == pc = "exit" /\ UNCHANGED vars

Step == \/ Open \/ NextExtent \/ NextUnresolved \/ NextNone
        \/ Judge \/ ResolveAgain \/ JudgeAgain
        \/ ProcessRewrites \/ ProcessLeaves \/ ProcessFatal
        \/ Finish \/ Exit

Next == Step /\ UNCHANGED setup

Spec == Init /\ [][Next]_vars /\ WF_vars(Next)

-----------------------------------------------------------------------------
(* What is to be shown.                                                    *)

\* The type invariant: the accounts are counters, none of which has gone below
\* zero, and a run has a result just when it is over.
TypeOK ==
    /\ apply \in BOOLEAN /\ read_only \in BOOLEAN
    /\ walked \in 0 .. MaxExtents /\ moved \in Int
    /\ extent \in [disk : Nat, unc : Nat, live : Nat]
    /\ extents \in Nat /\ nothing \in Nat /\ unresolved \in Nat
    /\ totals \in Bucket
    /\ left_alone \in [LeftAlone -> Bucket]
    /\ report \in [rewritten : Nat, copied : Nat, freed : Nat, skipped : Nat, modified : Nat]
    /\ error \in {"none", "walk", "resolve", "search", "process"}
    /\ synced \in BOOLEAN
    /\ result \in {"none", "ok", "err"}
    /\ pc \in {"open", "next", "judge", "resolve", "again", "process", "finish", "exit"}
    /\ (pc = "exit") <=> (result # "none")

\* Every extent the scan handed over ends up in one account and no more than
\* one (run, lib.rs): rewritten, left alone for a reason, or with nothing to
\* free; all but the one whose second lookup ended the run.
EachExtentOnce ==
    pc \in {"next", "finish", "exit"} =>
        extents = nothing + report.rewritten + (Total.count - unresolved)
                    + (IF error = "resolve" THEN 1 ELSE 0)

\* The table of what was left alone and the report agree about failures: each
\* extent left alone as failed has an entry of its own in the report, or is
\* the one the run stopped at (Report::failed, run).
FailuresAgree ==
    left_alone["Failed"].count =
        report.skipped + report.modified + (IF error = "process" THEN 1 ELSE 0)

\* Once an error has ended the walk, no further extent is touched or counted
\* (README.md, "applying"; Scanner::next).
StopsAtError == [][error # "none" => UNCHANGED <<stats, report>>]_vars

\* A run that exits with success has met no error that ends a run, and has
\* committed everything it rewrote (run, lib.rs).
SuccessIsCommitted == result = "ok" => error = "none" /\ synced

\* The unreachable space that a run reports is split into what it freed, or on
\* a dry run would free, and what it left alone (ScanStats::report, scan.rs):
\* the two add up to the whole but for what came or went between the scan of an
\* extent and its second lookup, and to the whole itself if nothing did.
ReportAddsUp ==
    result = "ok" =>
        report.freed + Total.unreachable = totals.unreachable + moved
=============================================================================
