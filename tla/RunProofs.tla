----------------------------- MODULE RunProofs ------------------------------
(***************************************************************************)
(* A run's accounts and its exit status, for any number of extents of any  *)
(* size and any drift: what module Run checks with TLC on four extents.    *)
(***************************************************************************)
EXTENDS Run, TLAPS

-----------------------------------------------------------------------------
(* The subtraction of disk_free_bytes.                                     *)

\* A quotient of a product that is no larger than d * n is no larger than d.
LEMMA QuotientBound ==
    ASSUME NEW p \in Nat, NEW d \in Nat, NEW n \in Nat \ {0}, p <= d * n
    PROVE  p \div n \in 0 .. d
<1>1. p \div n \in Nat /\ n * (p \div n) <= p BY SMT
<1>2. ASSUME NEW q \in Nat, q > d PROVE n * q >= d * n + n
  <2>1. PICK k \in Nat : q = d + 1 + k BY <1>2
  <2>2. n * q = d * n + n + n * k BY <2>1
  <2>3. n * k \in Nat OBVIOUS
  <2>4. d * n \in Nat OBVIOUS
  <2> QED BY <2>2, <2>3, <2>4
<1>3. d * n \in Nat /\ n * (p \div n) \in Nat BY <1>1
<1>4. SUFFICES ASSUME p \div n > d PROVE FALSE BY <1>1
<1>5. n * (p \div n) >= d * n + n BY <1>1, <1>2, <1>4
<1> QED BY <1>1, <1>3, <1>5

\* No more of an extent is in use than it has, however its live bytes compare
\* with its uncompressed size (extent.rs, disk_free_bytes: the subtraction of
\* unsigned numbers cannot wrap).
LEMMA UsedBound ==
    ASSUME NEW live \in Nat, NEW disk \in Nat, NEW unc \in Nat
    PROVE  /\ disk_used_bytes(live, disk, unc) \in 0 .. disk
           /\ disk_free_bytes(live, disk, unc) \in 0 .. disk
<1>1. CASE unc = 0 BY <1>1 DEF disk_used_bytes, disk_free_bytes
<1>2. CASE unc # 0
  <2> DEFINE m == IF live < unc THEN live ELSE unc
  <2>1. m \in Nat /\ m <= unc OBVIOUS
  <2> HIDE DEF m
  <2>2. m * disk \in Nat /\ m * disk <= disk * unc
    <3>1. PICK k \in Nat : unc = m + k BY <2>1
    <3>2. disk * unc = m * disk + k * disk BY <3>1, <2>1
    <3> QED BY <2>1, <3>2
  <2>3. (m * disk) \div unc \in 0 .. disk BY <1>2, <2>2, QuotientBound
  <2>4. disk_used_bytes(live, disk, unc) = (m * disk) \div unc
      BY <1>2 DEF disk_used_bytes, m
  <2> QED BY <2>3, <2>4 DEF disk_free_bytes
<1> QED BY <1>1, <1>2

-----------------------------------------------------------------------------
(* The inductive invariant.                                                *)

\* An error ends the walk before anything else is done with an extent, and the
\* one from Runner::process ends the loop at once.
ErrorEnds ==
    /\ pc \in {"judge", "resolve", "again", "process"} => error = "none"
    /\ error = "process" => pc \in {"finish", "exit"}

\* A dry run has nothing to commit, which is why it may succeed without.
DryIsClean == ~apply => synced

Inv == TypeOK /\ FailuresAgree /\ SuccessIsCommitted /\ ErrorEnds /\ DryIsClean

ExtentRecord == [disk : Nat, unc : Nat, live : Nat]

LEMMA FreeNat ==
    ASSUME NEW e \in ExtentRecord
    PROVE  Free(e) \in Nat
<1>1. e.live \in Nat /\ e.disk \in Nat /\ e.unc \in Nat BY DEF ExtentRecord
<1>2. disk_free_bytes(e.live, e.disk, e.unc) \in 0 .. e.disk BY <1>1, UsedBound
<1> QED BY <1>1, <1>2 DEF Free

LEMMA AddBucket ==
    ASSUME NEW bucket \in Bucket, NEW e \in ExtentRecord
    PROVE  Add(bucket, e) \in Bucket /\ Add(bucket, e).count = bucket.count + 1
<1>1. Used(e) \in Nat /\ Free(e) \in Nat BY UsedBound DEF Used, Free, ExtentRecord
<1> QED BY <1>1 DEF Add, Bucket, ExtentRecord

\* Leaving an extent alone counts it under its reason and no other.
LEMMA LeaveOne ==
    ASSUME left_alone \in [LeftAlone -> Bucket], extent \in ExtentRecord,
           NEW reason \in LeftAlone, Leave(reason, extent)
    PROVE  /\ left_alone' \in [LeftAlone -> Bucket]
           /\ left_alone'["Failed"].count =
                 left_alone["Failed"].count + (IF reason = "Failed" THEN 1 ELSE 0)
<1>1. /\ Add(left_alone[reason], extent) \in Bucket
      /\ Add(left_alone[reason], extent).count = left_alone[reason].count + 1
    BY AddBucket
<1>2. left_alone' = [left_alone EXCEPT ![reason] = Add(left_alone[reason], extent)]
    BY DEF Leave
<1>3. left_alone' \in [LeftAlone -> Bucket] BY <1>1, <1>2
<1>4. "Failed" \in LeftAlone BY DEF LeftAlone
<1>5. left_alone["Failed"].count \in Nat BY <1>4 DEF Bucket
<1>6. CASE reason = "Failed" BY <1>1, <1>2, <1>3, <1>4, <1>5, <1>6
<1>7. CASE reason # "Failed" BY <1>2, <1>3, <1>4, <1>5, <1>7
<1> QED BY <1>3, <1>6, <1>7

LEMMA InitInv == Init => Inv
BY RunAssumption DEF Init, Inv, TypeOK, FailuresAgree, SuccessIsCommitted, ErrorEnds,
   DryIsClean, Bucket, ZERO, LeftAlone

\* Judging an extent counts it, or goes on with it.
LEMMA WeighKeeps ==
    ASSUME TypeOK, NEW on, Weigh(on)
    PROVE  /\ left_alone' \in [LeftAlone -> Bucket]
           /\ left_alone'["Failed"].count = left_alone["Failed"].count
           /\ nothing' \in Nat
           /\ pc' \in {"next", on}
<1>1. left_alone \in [LeftAlone -> Bucket] /\ extent \in ExtentRecord /\ nothing \in Nat
    BY DEF TypeOK, ExtentRecord
<1>2. Reason(extent) # "none" =>
         Reason(extent) \in LeftAlone /\ Reason(extent) # "Failed"
    BY DEF Reason, not_worth_rewriting, LeftAlone
<1>3. "Failed" \in LeftAlone /\ left_alone["Failed"].count \in Nat
    BY <1>1 DEF LeftAlone, Bucket
<1>4. ASSUME NEW r \in LeftAlone, r # "Failed", Leave(r, extent)
      PROVE  /\ left_alone' \in [LeftAlone -> Bucket]
             /\ left_alone'["Failed"].count = left_alone["Failed"].count
    BY <1>1, <1>3, <1>4, LeaveOne
<1>5. CASE Free(extent) = 0 /\ nothing' = nothing + 1 /\ pc' = "next" /\ UNCHANGED left_alone
    BY <1>1, <1>5
<1>6. CASE /\ Free(extent) # 0 /\ Reason(extent) # "none"
           /\ Leave(Reason(extent), extent) /\ pc' = "next" /\ UNCHANGED nothing
    BY <1>1, <1>2, <1>4, <1>6
<1>7. CASE pc' = on /\ UNCHANGED <<left_alone, nothing>> BY <1>1, <1>7
<1> QED BY <1>5, <1>6, <1>7 DEF Weigh

LEMMA NextInv == Inv /\ [Next]_vars => Inv'
<1> SUFFICES ASSUME Inv, [Next]_vars PROVE Inv' OBVIOUS
<1> USE DEF Inv, TypeOK, FailuresAgree, SuccessIsCommitted, ErrorEnds, DryIsClean, stats, setup
<1>1. CASE Open /\ UNCHANGED setup BY <1>1 DEF Open
<1>2. CASE NextExtent /\ UNCHANGED setup
  <2>1. PICK e \in WalkExtents : extent' = e /\ totals' = Add(totals, e)
      BY <1>2 DEF NextExtent
  <2>2. e \in ExtentRecord BY RunAssumption DEF ExtentRecord
  <2>3. totals' \in Bucket BY <2>1, <2>2, AddBucket
  <2> QED BY <1>2, <2>1, <2>2, <2>3, RunAssumption DEF NextExtent, ExtentRecord
<1>3. CASE NextUnresolved /\ UNCHANGED setup
  <2>1. CASE error' = "walk" /\ UNCHANGED <<left_alone, unresolved>>
      BY <1>3, <2>1, RunAssumption DEF NextUnresolved
  <2>2. CASE /\ \E reason \in {"Changed", "Unresolved"} :
                   left_alone' = [left_alone EXCEPT ![reason].count = @ + 1]
             /\ unresolved' = unresolved + 1 /\ UNCHANGED error
    <3>1. PICK reason \in {"Changed", "Unresolved"} :
             left_alone' = [left_alone EXCEPT ![reason].count = @ + 1]
        BY <2>2
    <3>2. /\ left_alone' \in [LeftAlone -> Bucket]
          /\ left_alone'["Failed"] = left_alone["Failed"]
        BY <3>1 DEF LeftAlone, Bucket
    <3> QED BY <1>3, <2>2, <3>2, RunAssumption DEF NextUnresolved
  <2> QED BY <1>3, <2>1, <2>2 DEF NextUnresolved
<1>4. CASE NextNone /\ UNCHANGED setup BY <1>4 DEF NextNone
<1>5. CASE Judge /\ UNCHANGED setup
  <2>1. Weigh("resolve") BY <1>5 DEF Judge
  <2>2. /\ left_alone' \in [LeftAlone -> Bucket]
        /\ left_alone'["Failed"].count = left_alone["Failed"].count
        /\ nothing' \in Nat /\ pc' \in {"next", "resolve"}
      BY <2>1, WeighKeeps
  <2> QED BY <1>5, <2>2 DEF Judge
<1>6. CASE ResolveAgain /\ UNCHANGED setup
  <2>1. CASE /\ \E d \in Drift : /\ extent.live + d \in 1 .. extent.unc
                                 /\ extent' = [extent EXCEPT !.live = @ + d]
             /\ moved' = moved + Free(extent') - Free(extent)
             /\ pc' = "again" /\ UNCHANGED <<left_alone, error>>
    <3>1. extent' \in [disk : Nat, unc : Nat, live : Nat] BY <2>1
    <3>2. Free(extent') \in Nat /\ Free(extent) \in Nat BY <3>1, FreeNat DEF ExtentRecord
    <3>3. moved' \in Int BY <2>1, <3>2
    <3> QED BY <1>6, <2>1, <3>1, <3>3 DEF ResolveAgain
  <2>2. CASE error' = "resolve" /\ UNCHANGED <<left_alone, extent, moved>> /\ pc' = "next"
      BY <1>6, <2>2 DEF ResolveAgain
  <2>3. CASE /\ \E reason \in {"Changed", "Unresolved"} : Leave(reason, extent)
             /\ pc' = "next" /\ UNCHANGED <<error, extent, moved>>
    <3>1. PICK reason \in {"Changed", "Unresolved"} : Leave(reason, extent) BY <2>3
    <3>2. reason \in LeftAlone /\ reason # "Failed" BY DEF LeftAlone
    <3>3. left_alone["Failed"].count \in Nat BY DEF LeftAlone, Bucket
    <3>4. /\ left_alone' \in [LeftAlone -> Bucket]
          /\ left_alone'["Failed"].count = left_alone["Failed"].count
        BY <3>1, <3>2, <3>3, LeaveOne DEF ExtentRecord
    <3> QED BY <1>6, <2>3, <3>4 DEF ResolveAgain
  <2> QED BY <1>6, <2>1, <2>2, <2>3 DEF ResolveAgain
<1>7. CASE JudgeAgain /\ UNCHANGED setup
  <2>1. Weigh("process") BY <1>7 DEF JudgeAgain
  <2>2. /\ left_alone' \in [LeftAlone -> Bucket]
        /\ left_alone'["Failed"].count = left_alone["Failed"].count
        /\ nothing' \in Nat /\ pc' \in {"next", "process"}
      BY <2>1, WeighKeeps
  <2> QED BY <1>7, <2>2 DEF JudgeAgain
<1>8. CASE ProcessRewrites /\ UNCHANGED setup
  <2>1. Free(extent) \in Nat BY UsedBound DEF Free
  <2>2. /\ report' \in [rewritten : Nat, copied : Nat, freed : Nat, skipped : Nat, modified : Nat]
        /\ report'.skipped = report.skipped /\ report'.modified = report.modified
    <3>1. report' = [report EXCEPT !.rewritten = @ + 1, !.copied = @ + extent.live,
                                   !.freed = @ + Free(extent)]
        BY <1>8 DEF ProcessRewrites
    <3>2. report' = [rewritten |-> report.rewritten + 1, copied |-> report.copied + extent.live,
                     freed |-> report.freed + Free(extent),
                     skipped |-> report.skipped, modified |-> report.modified]
        BY <3>1
    <3> QED BY <2>1, <3>2
  <2> QED BY <1>8, <2>2, RunAssumption DEF ProcessRewrites
<1>9. CASE ProcessLeaves /\ UNCHANGED setup
  <2>1. left_alone["Failed"].count \in Nat BY DEF LeftAlone, Bucket
  <2>2. synced' \in BOOLEAN BY <1>9 DEF ProcessLeaves
  <2>3. CASE (\E reason \in {"NoDataCow", "PastEnd", "Deleted"} : Leave(reason, extent))
             /\ UNCHANGED report
    <3>1. PICK reason \in {"NoDataCow", "PastEnd", "Deleted"} : Leave(reason, extent) BY <2>3
    <3>2. reason \in LeftAlone /\ reason # "Failed" BY DEF LeftAlone
    <3>3. /\ left_alone' \in [LeftAlone -> Bucket]
          /\ left_alone'["Failed"].count = left_alone["Failed"].count
        BY <3>1, <3>2, <2>1, LeaveOne DEF ExtentRecord
    <3> QED BY <1>9, <2>2, <2>3, <3>3 DEF ProcessLeaves
  <2>4. CASE /\ Leave("Failed", extent)
             /\ \/ report' = [report EXCEPT !.skipped = @ + 1]
                \/ apply /\ report' = [report EXCEPT !.modified = @ + 1]
    <3>1. /\ left_alone' \in [LeftAlone -> Bucket]
          /\ left_alone'["Failed"].count = left_alone["Failed"].count + 1
        BY <2>4, LeaveOne DEF ExtentRecord, LeftAlone
    <3>2. /\ report' \in [rewritten : Nat, copied : Nat, freed : Nat, skipped : Nat, modified : Nat]
          /\ report'.skipped + report'.modified = report.skipped + report.modified + 1
        BY <2>4
    <3>3. error = "none" /\ error' = error BY <1>9 DEF ProcessLeaves
    <3> QED BY <1>9, <2>2, <3>1, <3>2, <3>3 DEF ProcessLeaves
  <2> QED BY <1>9, <2>3, <2>4 DEF ProcessLeaves
<1>10. CASE ProcessFatal /\ UNCHANGED setup
  <2>1. /\ left_alone' \in [LeftAlone -> Bucket]
        /\ left_alone'["Failed"].count = left_alone["Failed"].count + 1
      BY <1>10, LeaveOne DEF ProcessFatal, ExtentRecord, LeftAlone
  <2>2. synced' \in BOOLEAN BY <1>10 DEF ProcessFatal
  <2> QED BY <1>10, <2>1, <2>2 DEF ProcessFatal
<1>11. CASE Finish /\ UNCHANGED setup
  <2>1. CASE error # "none" /\ result' = "err" /\ UNCHANGED synced
      BY <1>11, <2>1 DEF Finish
  <2>2. CASE error = "none" /\ ~apply /\ result' = "ok" /\ UNCHANGED synced
      BY <1>11, <2>2 DEF Finish
  <2>3. CASE error = "none" /\ apply /\ result' = "ok" /\ synced' = TRUE
      BY <1>11, <2>3 DEF Finish
  <2>4. CASE error = "none" /\ apply /\ result' = "err" /\ UNCHANGED synced
      BY <1>11, <2>4 DEF Finish
  <2> QED BY <1>11, <2>1, <2>2, <2>3, <2>4 DEF Finish
<1>12. CASE UNCHANGED vars BY <1>12 DEF vars
<1>13. (Step /\ UNCHANGED setup) \/ UNCHANGED vars BY DEF Next
<1> QED BY <1>1, <1>2, <1>3, <1>4, <1>5, <1>6, <1>7, <1>8, <1>9, <1>10, <1>11, <1>12, <1>13
        DEF Step, Exit

-----------------------------------------------------------------------------
(* The accounts, which hold between any two steps once the extent at hand  *)
(* is reckoned with.                                                       *)

\* An extent is at hand and in no account yet.
AtHand == pc \in {"judge", "resolve", "again", "process"}

Accounted ==
    extents + unresolved = nothing + report.rewritten + Total.count
                             + (IF AtHand \/ error = "resolve" THEN 1 ELSE 0)

\* What the extent at hand would free is part of the whole too, and so it is
\* with the one whose second lookup ended the run.
Split ==
    report.freed + Total.unreachable + (IF AtHand \/ error = "resolve" THEN Free(extent) ELSE 0)
        = totals.unreachable + moved

Accounts == Accounted /\ Split

\* Adding to one reason adds to the sum.
LEMMA SumOne ==
    ASSUME NEW n \in [LeftAlone -> Nat], NEW r \in LeftAlone, NEW k \in Nat
    PROVE  Sum(n) \in Nat /\ Sum([n EXCEPT ![r] = n[r] + k]) = Sum(n) + k
<1> DEFINE m == [n EXCEPT ![r] = n[r] + k]
<1>1. /\ n["TooLittleToFree"] \in Nat /\ n["TooMuchToCopy"] \in Nat /\ n["NoDataCow"] \in Nat
      /\ n["PastEnd"] \in Nat /\ n["Changed"] \in Nat /\ n["Unresolved"] \in Nat
      /\ n["Failed"] \in Nat /\ n["Deleted"] \in Nat
    BY DEF LeftAlone
<1>2. \A q \in LeftAlone : m[q] = IF q = r THEN n[q] + k ELSE n[q] OBVIOUS
<1> HIDE DEF m
<1>3. Sum(m) = Sum(n) + k BY <1>1, <1>2 DEF Sum, LeftAlone
<1> QED BY <1>1, <1>3 DEF Sum, m

\* The sums are those of functions to the natural numbers.
Counts      == [reason \in LeftAlone |-> left_alone[reason].count]
Unreachable == [reason \in LeftAlone |-> left_alone[reason].unreachable]

LEMMA TotalIs ==
    ASSUME left_alone \in [LeftAlone -> Bucket]
    PROVE  /\ Counts \in [LeftAlone -> Nat] /\ Unreachable \in [LeftAlone -> Nat]
           /\ Total.count = Sum(Counts) /\ Total.unreachable = Sum(Unreachable)
           /\ Total.count \in Nat /\ Total.unreachable \in Nat
<1>1. Counts \in [LeftAlone -> Nat] /\ Unreachable \in [LeftAlone -> Nat]
    BY DEF Counts, Unreachable, Bucket
<1>2. Sum(Counts) \in Nat /\ Sum(Unreachable) \in Nat
  <2>1. "Failed" \in LeftAlone /\ 0 \in Nat BY DEF LeftAlone
  <2> QED BY <1>1, <2>1, SumOne
<1>3. Total.count = Sum(Counts) /\ Total.unreachable = Sum(Unreachable)
    BY DEF Total, Counts, Unreachable
<1> QED BY <1>1, <1>2, <1>3

\* One more extent under one reason.
LEMMA TotalOne ==
    ASSUME left_alone \in [LeftAlone -> Bucket], left_alone' \in [LeftAlone -> Bucket],
           NEW r \in LeftAlone, NEW k \in Nat,
           \A q \in LeftAlone : /\ q # r => left_alone'[q] = left_alone[q]
                                /\ q = r => /\ left_alone'[q].count = left_alone[q].count + 1
                                            /\ left_alone'[q].unreachable
                                                 = left_alone[q].unreachable + k
    PROVE  Total.count' = Total.count + 1 /\ Total.unreachable' = Total.unreachable + k
<1>1. Counts' = [Counts EXCEPT ![r] = Counts[r] + 1] BY DEF Counts
<1>2. Unreachable' = [Unreachable EXCEPT ![r] = Unreachable[r] + k] BY DEF Unreachable
<1>3. Total.count' = Sum(Counts') /\ Total.unreachable' = Sum(Unreachable')
    BY DEF Total, Counts, Unreachable
<1>4. /\ Counts \in [LeftAlone -> Nat] /\ Unreachable \in [LeftAlone -> Nat]
      /\ Total.count = Sum(Counts) /\ Total.unreachable = Sum(Unreachable)
      /\ 1 \in Nat
    BY TotalIs
<1>5. Sum([Counts EXCEPT ![r] = Counts[r] + 1]) = Sum(Counts) + 1 BY <1>4, SumOne
<1>6. Sum([Unreachable EXCEPT ![r] = Unreachable[r] + k]) = Sum(Unreachable) + k
    BY <1>4, SumOne
<1> QED BY <1>1, <1>2, <1>3, <1>4, <1>5, <1>6

LEMMA LeaveTotal ==
    ASSUME TypeOK, TypeOK', NEW r \in LeftAlone, Leave(r, extent)
    PROVE  Total.count' = Total.count + 1 /\ Total.unreachable' = Total.unreachable + Free(extent)
<1>1. /\ left_alone \in [LeftAlone -> Bucket] /\ left_alone' \in [LeftAlone -> Bucket]
      /\ Free(extent) \in Nat
    BY FreeNat DEF TypeOK, ExtentRecord
<1>2. left_alone' = [left_alone EXCEPT ![r] = Add(left_alone[r], extent)] BY DEF Leave
<1>3. /\ Add(left_alone[r], extent).count = left_alone[r].count + 1
      /\ Add(left_alone[r], extent).unreachable = left_alone[r].unreachable + Free(extent)
    BY DEF Add
<1> QED BY <1>1, <1>2, <1>3, TotalOne

\* Judging an extent puts it into an account, or goes on with it.
LEMMA WeighAccounts ==
    ASSUME TypeOK, TypeOK', NEW on, Weigh(on)
    PROVE  \/ /\ pc' = "next" /\ Free(extent) = 0
              /\ nothing' = nothing + 1
              /\ Total.count' = Total.count /\ Total.unreachable' = Total.unreachable
           \/ /\ pc' = "next" /\ nothing' = nothing
              /\ Total.count' = Total.count + 1
              /\ Total.unreachable' = Total.unreachable + Free(extent)
           \/ /\ pc' = on /\ nothing' = nothing
              /\ Total.count' = Total.count /\ Total.unreachable' = Total.unreachable
<1>1. CASE Free(extent) = 0 /\ nothing' = nothing + 1 /\ pc' = "next" /\ UNCHANGED left_alone
    BY <1>1 DEF Total
<1>2. CASE /\ Free(extent) # 0 /\ Reason(extent) # "none"
           /\ Leave(Reason(extent), extent) /\ pc' = "next" /\ UNCHANGED nothing
  <2>1. Reason(extent) \in LeftAlone
      BY <1>2 DEF Reason, not_worth_rewriting, LeftAlone
  <2> QED BY <1>2, <2>1, LeaveTotal
<1>3. CASE pc' = on /\ UNCHANGED <<left_alone, nothing>> BY <1>3 DEF Total
<1> QED BY <1>1, <1>2, <1>3 DEF Weigh

LEMMA InitAccounts == Init => Accounts
BY DEF Init, Accounts, Accounted, Split, AtHand, Total, Sum, ZERO, LeftAlone

\* A step that counts nothing keeps the accounts.
LEMMA SameAccounts ==
    ASSUME Accounts, UNCHANGED <<stats, report, extent, moved>>, AtHand' = AtHand,
           (error' = "resolve") <=> (error = "resolve")
    PROVE  Accounts'
BY DEF Accounts, Accounted, Split, Total, stats, Free

\* What the accounts are made of.
LEMMA Numbers ==
    ASSUME TypeOK
    PROVE  /\ extents \in Nat /\ unresolved \in Nat /\ nothing \in Nat /\ moved \in Int
           /\ report.rewritten \in Nat /\ report.freed \in Nat /\ totals.unreachable \in Nat
           /\ Total.count \in Nat /\ Total.unreachable \in Nat /\ Free(extent) \in Nat
           /\ left_alone \in [LeftAlone -> Bucket]
<1>1. left_alone \in [LeftAlone -> Bucket] /\ extent \in ExtentRecord
    BY DEF TypeOK, ExtentRecord
<1> QED BY <1>1, TotalIs, FreeNat DEF TypeOK, Bucket

LEMMA NextAccounts ==
    ASSUME Inv, Inv', Accounts, [Next]_vars
    PROVE  Accounts'
<1>1. TypeOK /\ TypeOK' /\ ErrorEnds BY DEF Inv
<1>2. /\ extents \in Nat /\ unresolved \in Nat /\ nothing \in Nat /\ moved \in Int
      /\ report.rewritten \in Nat /\ report.freed \in Nat /\ totals.unreachable \in Nat
      /\ Total.count \in Nat /\ Total.unreachable \in Nat /\ Free(extent) \in Nat
      /\ left_alone \in [LeftAlone -> Bucket]
    BY <1>1, Numbers
<1>3. left_alone' \in [LeftAlone -> Bucket] /\ Free(extent)' \in Nat
    BY <1>1, FreeNat DEF TypeOK, ExtentRecord
<1> USE DEF stats, AtHand
<1>4. CASE Open BY <1>4, SameAccounts DEF Open
<1>5. CASE NextExtent
  <2>1. PICK e \in WalkExtents : /\ extent' = e /\ totals' = Add(totals, e)
                                 /\ extents' = extents + 1
      BY <1>5 DEF NextExtent
  <2>2. totals.unreachable' = totals.unreachable + Free(extent') BY <2>1 DEF Add
  <2>3. Total' = Total BY <1>5 DEF NextExtent, Total
  <2> QED BY <1>2, <1>3, <1>5, <2>1, <2>2, <2>3 DEF NextExtent, Accounts, Accounted, Split
<1>6. CASE NextUnresolved
  <2>1. CASE error' = "walk" /\ UNCHANGED <<left_alone, unresolved>>
      BY <1>6, <2>1, SameAccounts DEF NextUnresolved
  <2>2. CASE /\ \E reason \in {"Changed", "Unresolved"} :
                   left_alone' = [left_alone EXCEPT ![reason].count = @ + 1]
             /\ unresolved' = unresolved + 1 /\ UNCHANGED error
    <3>1. PICK r \in {"Changed", "Unresolved"} :
             left_alone' = [left_alone EXCEPT ![r].count = @ + 1]
        BY <2>2
    <3>2. r \in LeftAlone BY DEF LeftAlone
    <3>3. /\ left_alone'[r].count = left_alone[r].count + 1
          /\ left_alone'[r].unreachable = left_alone[r].unreachable + 0
        BY <1>2, <3>1, <3>2 DEF Bucket
    <3>4. \A q \in LeftAlone : q # r => left_alone'[q] = left_alone[q]
        BY <1>2, <3>1, <3>2
    <3>5. 0 \in Nat OBVIOUS
    <3>6. Total.count' = Total.count + 1 /\ Total.unreachable' = Total.unreachable + 0
        BY <1>2, <1>3, <3>2, <3>3, <3>4, <3>5, TotalOne
    <3>7. Free(extent)' = Free(extent) /\ UNCHANGED <<extents, nothing, report, totals, moved>>
        BY <1>6 DEF NextUnresolved, Free
    <3>8. pc = "next" /\ pc' = "next" /\ error = "none" /\ error' = "none"
          /\ unresolved' = unresolved + 1
        BY <1>6, <2>2 DEF NextUnresolved
    <3>9. Accounted' BY <1>2, <3>6, <3>7, <3>8 DEF Accounts, Accounted
    <3>10. Split' BY <1>2, <3>6, <3>7, <3>8 DEF Accounts, Split
    <3> QED BY <3>9, <3>10 DEF Accounts
  <2> QED BY <1>6, <2>1, <2>2 DEF NextUnresolved
<1>7. CASE NextNone BY <1>7, SameAccounts DEF NextNone
<1>8. CASE Judge
  <2>1. Weigh("resolve") BY <1>8 DEF Judge
  <2>2. /\ error = "none" /\ error' = "none" /\ Free(extent)' = Free(extent)
        /\ UNCHANGED <<extents, unresolved, report, totals, moved>>
      BY <1>1, <1>8 DEF Judge, Free, ErrorEnds
  <2> QED BY <1>1, <1>2, <1>8, <2>1, <2>2, WeighAccounts DEF Judge, Accounts, Accounted, Split
<1>9. CASE ResolveAgain
  <2>1. CASE moved' = moved + Free(extent') - Free(extent) /\ pc' = "again"
             /\ UNCHANGED <<left_alone, error>>
      BY <1>2, <1>3, <1>9, <2>1 DEF ResolveAgain, Accounts, Accounted, Split, Total
  <2>2. CASE error' = "resolve" /\ UNCHANGED <<left_alone, extent, moved>>
      BY <1>9, <2>2 DEF ResolveAgain, Accounts, Accounted, Split, Total, Free
  <2>3. CASE /\ \E reason \in {"Changed", "Unresolved"} : Leave(reason, extent)
             /\ pc' = "next" /\ UNCHANGED <<error, extent, moved>>
    <3>1. PICK r \in {"Changed", "Unresolved"} : Leave(r, extent) BY <2>3
    <3>2. r \in LeftAlone BY DEF LeftAlone
    <3>3. /\ Total.count' = Total.count + 1
          /\ Total.unreachable' = Total.unreachable + Free(extent)
        BY <1>1, <3>1, <3>2, LeaveTotal
    <3> QED BY <1>1, <1>2, <1>9, <2>3, <3>3
            DEF ResolveAgain, Accounts, Accounted, Split, Free, ErrorEnds
  <2> QED BY <1>9, <2>1, <2>2, <2>3 DEF ResolveAgain
<1>10. CASE JudgeAgain
  <2>1. Weigh("process") BY <1>10 DEF JudgeAgain
  <2>2. /\ error = "none" /\ error' = "none" /\ Free(extent)' = Free(extent)
        /\ UNCHANGED <<extents, unresolved, report, totals, moved>>
      BY <1>1, <1>10 DEF JudgeAgain, Free, ErrorEnds
  <2> QED BY <1>1, <1>2, <1>10, <2>1, <2>2, WeighAccounts
          DEF JudgeAgain, Accounts, Accounted, Split
<1>11. CASE ProcessRewrites
  <2>1. /\ report.rewritten' = report.rewritten + 1
        /\ report.freed' = report.freed + Free(extent)
      BY <1>1, <1>11 DEF ProcessRewrites, TypeOK
  <2>2. Total' = Total /\ Free(extent)' = Free(extent) BY <1>11 DEF ProcessRewrites, Total, Free
  <2> QED BY <1>1, <1>2, <1>11, <2>1, <2>2
          DEF ProcessRewrites, Accounts, Accounted, Split, ErrorEnds
<1>12. CASE ProcessLeaves
  <2>1. PICK r \in LeftAlone : Leave(r, extent)
      BY <1>12 DEF ProcessLeaves, LeftAlone
  <2>2. /\ Total.count' = Total.count + 1
        /\ Total.unreachable' = Total.unreachable + Free(extent)
      BY <1>1, <2>1, LeaveTotal
  <2>3. report.rewritten' = report.rewritten /\ report.freed' = report.freed
      BY <1>1, <1>12 DEF ProcessLeaves, TypeOK
  <2>4. /\ pc = "process" /\ pc' = "next" /\ error = "none" /\ error' = "none"
        /\ Free(extent)' = Free(extent)
        /\ UNCHANGED <<extents, nothing, unresolved, totals, moved>>
      BY <1>1, <1>12 DEF ProcessLeaves, Free, ErrorEnds
  <2> QED BY <1>2, <2>2, <2>3, <2>4 DEF Accounts, Accounted, Split
<1>13. CASE ProcessFatal
  <2>1. "Failed" \in LeftAlone /\ Leave("Failed", extent)
      BY <1>13 DEF ProcessFatal, LeftAlone
  <2>2. /\ Total.count' = Total.count + 1
        /\ Total.unreachable' = Total.unreachable + Free(extent)
      BY <1>1, <2>1, LeaveTotal
  <2> QED BY <1>1, <1>2, <1>13, <2>2
          DEF ProcessFatal, Accounts, Accounted, Split, Free, ErrorEnds
<1>14. CASE Finish BY <1>14, SameAccounts DEF Finish
<1>15. CASE UNCHANGED vars BY <1>15, SameAccounts DEF vars
<1> QED BY <1>4, <1>5, <1>6, <1>7, <1>8, <1>9, <1>10, <1>11, <1>12, <1>13, <1>14, <1>15
        DEF Next, Step, Exit

-----------------------------------------------------------------------------
(* The theorems.                                                           *)

LEMMA SpecInv == Spec => []Inv
BY InitInv, NextInv, PTL DEF Spec

\* No account of a run goes below zero or is left undefined, whatever sizes the
\* extents have: the type invariant.
THEOREM RunTypeCorrect == Spec => []TypeOK
<1>1. Inv => TypeOK BY DEF Inv
<1> QED BY <1>1, SpecInv, PTL

\* The failures the table counts are the ones the report lists, with the one
\* the run stopped at (run, lib.rs; Report::failed, run.rs).
THEOREM RunFailuresAgree == Spec => []FailuresAgree
<1>1. Inv => FailuresAgree BY DEF Inv
<1> QED BY <1>1, SpecInv, PTL

\* A run that exits with success met no error and committed what it rewrote
\* (run, lib.rs).
THEOREM RunSuccessIsCommitted == Spec => []SuccessIsCommitted
<1>1. Inv => SuccessIsCommitted BY DEF Inv
<1> QED BY <1>1, SpecInv, PTL

\* Nothing is counted or rewritten after an error has ended the walk
\* (Scanner::next, scan.rs).
THEOREM RunStopsAtError == Spec => StopsAtError
<1>1. Inv /\ [Next]_vars => [error # "none" => UNCHANGED <<stats, report>>]_vars
  <2> SUFFICES ASSUME Inv, Next, error # "none" PROVE UNCHANGED <<stats, report>>
      OBVIOUS
  <2> USE DEF Inv, TypeOK, ErrorEnds, stats
  <2>1. pc \notin {"judge", "resolve", "again", "process"} BY DEF ErrorEnds
  <2>2. Open \/ NextNone \/ Finish \/ Exit
      BY <2>1 DEF Next, Step, NextExtent, NextUnresolved, Judge, ResolveAgain, JudgeAgain,
                  ProcessRewrites, ProcessLeaves, ProcessFatal
  <2> QED BY <2>2 DEF Open, NextNone, Finish, Exit, vars
<1> QED BY <1>1, SpecInv, PTL DEF Spec, StopsAtError

LEMMA SpecAccounts == Spec => [](Inv /\ Accounts)
<1>1. Init => Inv /\ Accounts BY InitInv, InitAccounts
<1>2. Inv /\ Accounts /\ [Next]_vars => (Inv /\ Accounts)' BY NextInv, NextAccounts
<1> QED BY <1>1, <1>2, PTL DEF Spec

\* However many extents a run goes through, each is in one account and no more
\* than one once it has been dealt with (run, lib.rs).
THEOREM RunEachExtentOnce == Spec => []EachExtentOnce
<1>1. Inv /\ Accounts => EachExtentOnce
  <2> SUFFICES ASSUME TypeOK, Accounted, pc \in {"next", "finish", "exit"}
               PROVE  extents = nothing + report.rewritten + (Total.count - unresolved)
                                  + (IF error = "resolve" THEN 1 ELSE 0)
      BY DEF Inv, Accounts, EachExtentOnce
  <2> QED BY Numbers DEF Accounted, AtHand
<1> QED BY <1>1, SpecAccounts, PTL

\* The space a run reports as freed and as left alone adds up to what it found
\* unreachable, but for what came or went before its second lookup, whatever
\* the sizes of the extents and however much they change (ScanStats::report).
THEOREM RunReportAddsUp == Spec => []ReportAddsUp
<1>1. Inv /\ Accounts => ReportAddsUp
  <2> SUFFICES ASSUME Inv, Split, result = "ok"
               PROVE  report.freed + Total.unreachable = totals.unreachable + moved
      BY DEF Accounts, ReportAddsUp
  <2>1. error = "none" /\ pc = "exit" BY DEF Inv, SuccessIsCommitted, TypeOK
  <2>2. report.freed \in Nat /\ Total.unreachable \in Nat BY Numbers DEF Inv
  <2> QED BY <2>1, <2>2 DEF Split, AtHand
<1> QED BY <1>1, SpecAccounts, PTL
=============================================================================
