---------------------------- MODULE RemoteImages ----------------------------
(***************************************************************************)
(* The import of remote images (modules/remoteImage.ts, remoteImageJob,    *)
(* remoteImageBackfill) beside the asset sweep (modules/assetSweep.ts):    *)
(* writes register the URLs they hold, cycles lease the rows that are due  *)
(* and import them, the sweep collects what nothing references.            *)
(*                                                                         *)
(* Cycles run in several processes and die with them. A lease outlasts     *)
(* every import of its cycle (20 rows, 4 at a time, 10 s a fetch: under a  *)
(* minute of its five), so it lapses only once its holder is gone.         *)
(***************************************************************************)
EXTENDS Naturals, FiniteSets

CONSTANTS Urls,
          Bytes,        \* the hash of what each URL serves
          Cycles,       \* slots for import cycles
          Retries,      \* the waits of RETRY_DELAYS_MS
          MaxWrites,    \* bound: writes by members
          MaxCrashes    \* bound: processes that die, database errors

VARIABLES row,       \* RemoteImage, by URL
          asset,     \* Asset, by hash
          refs,      \* the URLs stored content references
          writing,   \* the URLs registered for content that is not yet stored
          cycle,     \* what each cycle has done with each row
          sweep,     \* the asset sweep in flight
          writes, crashes

vars == <<row, asset, refs, writing, cycle, sweep, writes, crashes>>

\* What the constants are assumed to be.
Assumptions ==
    IsFiniteSet(Urls) /\ Retries \in Nat /\ MaxWrites \in Nat /\ MaxCrashes \in Nat

Hashes == {Bytes[u] : u \in Urls}

\* wait: what keeps a pending row from being due; old: past the sweep's grace.
Rows ==
    [status : {"none", "pending", "imported", "failed"}, attempts : 0 .. Retries + 1,
     wait : {"none", "backoff", "lease"}, old : BOOLEAN]

\* read, then moved when another cycle or failure has written nextAttemptAt
\* since; leased, then stored; gone when the row has been deleted under a lease.
Phases == {"none", "read", "moved", "leased", "stored", "gone"}

SweepStates ==
    [step : {"idle", "columns", "assets", "swept", "prune"}, urls : SUBSET Urls,
     doomed : SUBSET Hashes]

TypeOK ==
    /\ row \in [Urls -> Rows]
    /\ asset \in [Hashes -> {"none", "young", "old"}]
    /\ refs \subseteq Urls /\ writing \subseteq Urls
    /\ cycle \in [Cycles -> [Urls -> Phases]]
    /\ sweep \in SweepStates
    /\ writes \in 0 .. MaxWrites /\ crashes \in 0 .. MaxCrashes

NoRow == [status |-> "none", attempts |-> 0, wait |-> "none", old |-> FALSE]
NewRow == [NoRow EXCEPT !.status = "pending"]
NoCycle == [u \in Urls |-> "none"]
NoSweep == [step |-> "idle", urls |-> {}, doomed |-> {}]

\* The bytes may be on the site already, as an upload nothing references.
Init ==
    /\ row = [u \in Urls |-> NoRow]
    /\ asset \in [Hashes -> {"none", "old"}]
    /\ refs = {} /\ writing = {}
    /\ cycle = [c \in Cycles |-> NoCycle]
    /\ sweep = NoSweep
    /\ writes = 0 /\ crashes = 0

Known(u) == row[u].status # "none"
Imported == {u \in Urls : row[u].status = "imported"}
Holds(c, u) == cycle[c][u] \in {"leased", "stored"}

-----------------------------------------------------------------------------
(* Members: a write registers its URLs before it stores its content.       *)

\* registerRemoteImages; a URL already known is left alone.
Register(u) ==
    /\ u \notin writing /\ writes < MaxWrites
    /\ row' = IF Known(u) THEN row ELSE [row EXCEPT ![u] = NewRow]
    /\ writing' = writing \cup {u}
    /\ writes' = writes + 1
    /\ UNCHANGED <<asset, refs, cycle, sweep, crashes>>

Store(u) ==
    /\ u \in writing
    /\ refs' = refs \cup {u}
    /\ writing' = writing \ {u}
    /\ UNCHANGED <<row, asset, cycle, sweep, writes, crashes>>

\* The content is edited or deleted, or the write that registered it fails.
Drop(u) ==
    /\ u \in refs \cup writing
    /\ refs' = refs \ {u}
    /\ writing' = writing \ {u}
    /\ UNCHANGED <<row, asset, cycle, sweep, writes, crashes>>

-----------------------------------------------------------------------------
(* processDueRemoteImages.                                                 *)

DueRead(c) ==
    /\ cycle[c] = NoCycle
    /\ LET due == {u \in Urls : row[u].status = "pending" /\ row[u].wait = "none"}
       IN /\ due # {}
          /\ cycle' = [cycle EXCEPT ![c] = [u \in Urls |-> IF u \in due THEN "read" ELSE "none"]]
    /\ UNCHANGED <<row, asset, refs, writing, sweep, writes, crashes>>

\* What cycle cs becomes when c has written u's nextAttemptAt.
Rescheduled(cs, c, u) ==
    [d \in Cycles |-> IF d # c /\ cs[d][u] = "read" THEN [cs[d] EXCEPT ![u] = "moved"] ELSE cs[d]]

\* Mutant: the lease does not compare nextAttemptAt with what was read.
LeasesPending(c, u) == row[u].status = "pending"

\* The condition of the conditional update.
Leases(c, u) == row[u].status = "pending" /\ cycle[c][u] = "read"

Lease(c, u) ==
    /\ cycle[c][u] \in {"read", "moved"}
    /\ IF Leases(c, u)
       THEN /\ row' = [row EXCEPT ![u].wait = "lease"]
            /\ cycle' = Rescheduled([cycle EXCEPT ![c][u] = "leased"], c, u)
       ELSE /\ cycle' = [cycle EXCEPT ![c][u] = "none"]
            /\ UNCHANGED row
    /\ UNCHANGED <<asset, refs, writing, sweep, writes, crashes>>

\* Every row is leased before the first is imported.
Importing(c, u) ==
    /\ Holds(c, u) \/ cycle[c][u] = "gone"
    /\ \A v \in Urls : cycle[c][v] \notin {"read", "moved"}

Settled(c, u) == [cycle EXCEPT ![c][u] = "none"]

\* Mutant: a failed attempt is not counted.
Uncounted(r) == r.attempts

\* The attempts an import writes.
Counted(r) == r.attempts + 1

\* recordFetchFailure: back off while retries remain. A row that is gone is
\* neither failed nor retried.
FetchFails(c, u, retryable) ==
    /\ Importing(c, u) /\ cycle[c][u] # "stored"
    /\ LET n == Counted(row[u])
       IN row' = IF cycle[c][u] = "gone" THEN row
                 ELSE [row EXCEPT ![u].attempts = n,
                          ![u].status = IF retryable /\ n <= Retries THEN @ ELSE "failed",
                          ![u].wait = IF retryable /\ n <= Retries THEN "backoff" ELSE @]
    /\ cycle' = IF cycle[c][u] = "gone" THEN Settled(c, u) ELSE Rescheduled(Settled(c, u), c, u)
    /\ UNCHANGED <<asset, refs, writing, sweep, writes, crashes>>

\* putAsset stores the fetched image, or finds its bytes stored already. It
\* does so for a row that is gone, too, which is then done with.
PutAsset(c, u) ==
    /\ Importing(c, u) /\ cycle[c][u] # "stored"
    /\ asset' = [asset EXCEPT ![Bytes[u]] = IF @ = "none" THEN "young" ELSE @]
    /\ cycle' = IF cycle[c][u] = "gone" THEN Settled(c, u)
                ELSE [cycle EXCEPT ![c][u] = "stored"]
    /\ UNCHANGED <<row, refs, writing, sweep, writes, crashes>>

\* recordImported. An asset swept meanwhile leaves the row leased, as it was.
RecordImported(c, u) ==
    /\ cycle[c][u] = "stored"
    /\ IF asset[Bytes[u]] # "none"
       THEN row' = [row EXCEPT ![u].status = "imported", ![u].attempts = Counted(row[u])]
       ELSE UNCHANGED row
    /\ cycle' = Settled(c, u)
    /\ UNCHANGED <<asset, refs, writing, sweep, writes, crashes>>

\* A database error leaves one row leased.
ImportErrs(c, u) ==
    /\ Importing(c, u) /\ crashes < MaxCrashes
    /\ cycle' = Settled(c, u)
    /\ crashes' = crashes + 1
    /\ UNCHANGED <<row, asset, refs, writing, sweep, writes>>

\* The process dies, with what it has leased.
Crash(c) ==
    /\ cycle[c] # NoCycle /\ crashes < MaxCrashes
    /\ cycle' = [cycle EXCEPT ![c] = NoCycle]
    /\ crashes' = crashes + 1
    /\ UNCHANGED <<row, asset, refs, writing, sweep, writes>>

\* nextAttemptAt comes to pass.
ComesDue(u) ==
    /\ row[u].status = "pending" /\ row[u].wait # "none"
    /\ row[u].wait = "lease" => \A c \in Cycles : ~Holds(c, u)
    /\ row' = [row EXCEPT ![u].wait = "none"]
    /\ UNCHANGED <<asset, refs, writing, cycle, sweep, writes, crashes>>

-----------------------------------------------------------------------------
(* The asset sweep.                                                        *)

\* collectImageColumns.
SweepColumns ==
    /\ sweep.step = "idle"
    /\ sweep' = [sweep EXCEPT !.step = "columns", !.urls = refs]
    /\ UNCHANGED <<row, asset, refs, writing, cycle, writes, crashes>>

\* referencedImportHashes and the candidates.
SweepCandidates ==
    /\ sweep.step = "columns"
    /\ LET kept == {Bytes[u] : u \in sweep.urls \cap Imported}
       IN sweep' = [sweep EXCEPT !.step = "assets",
                                 !.doomed = {h \in Hashes \ kept : asset[h] = "old"}]
    /\ UNCHANGED <<row, asset, refs, writing, cycle, writes, crashes>>

\* What a cycle is left with when rows are deleted.
Deleted(gone) ==
    [c \in Cycles |-> [u \in Urls |->
        IF u \notin gone THEN cycle[c][u] ELSE IF Holds(c, u) THEN "gone" ELSE
        IF cycle[c][u] = "read" THEN "moved" ELSE cycle[c][u]]]

\* An asset takes the rows imported into it along.
SweepAssets ==
    /\ sweep.step = "assets"
    /\ LET gone == {u \in Imported : Bytes[u] \in sweep.doomed}
       IN /\ asset' = [h \in Hashes |-> IF h \in sweep.doomed THEN "none" ELSE asset[h]]
          /\ row' = [u \in Urls |-> IF u \in gone THEN NoRow ELSE row[u]]
          /\ cycle' = Deleted(gone)
    /\ sweep' = [NoSweep EXCEPT !.step = "swept"]
    /\ UNCHANGED <<refs, writing, writes, crashes>>

\* pruneUnreferencedRemoteImages.
PruneColumns ==
    /\ sweep.step = "swept"
    /\ sweep' = [sweep EXCEPT !.step = "prune", !.urls = refs]
    /\ UNCHANGED <<row, asset, refs, writing, cycle, writes, crashes>>

PruneRows ==
    /\ sweep.step = "prune"
    /\ LET gone == {u \in Urls \ sweep.urls : row[u].status \in {"pending", "failed"}
                                              /\ row[u].old}
       IN /\ row' = [u \in Urls |-> IF u \in gone THEN NoRow ELSE row[u]]
          /\ cycle' = Deleted(gone)
    /\ sweep' = NoSweep
    /\ UNCHANGED <<asset, refs, writing, writes, crashes>>

\* A day's grace ends; no write, no import and no sweep takes that long.
RowAges(u) ==
    /\ Known(u) /\ ~row[u].old
    /\ u \notin writing /\ sweep = NoSweep
    /\ row' = [row EXCEPT ![u].old = TRUE]
    /\ UNCHANGED <<asset, refs, writing, cycle, sweep, writes, crashes>>

AssetAges(h) ==
    /\ asset[h] = "young" /\ sweep = NoSweep
    /\ \A c \in Cycles, u \in Urls : cycle[c][u] = "stored" => Bytes[u] # h
    /\ asset' = [asset EXCEPT ![h] = "old"]
    /\ UNCHANGED <<row, refs, writing, cycle, sweep, writes, crashes>>

-----------------------------------------------------------------------------
CycleNext(c) ==
    \/ DueRead(c)
    \/ \E u \in Urls :
          \/ Lease(c, u) \/ PutAsset(c, u) \/ RecordImported(c, u)
          \/ \E retryable \in BOOLEAN : FetchFails(c, u, retryable)

SweepNext == SweepColumns \/ SweepCandidates \/ SweepAssets \/ PruneColumns \/ PruneRows

Next ==
    \/ \E c \in Cycles : CycleNext(c) \/ Crash(c) \/ \E u \in Urls : ImportErrs(c, u)
    \/ \E u \in Urls : Register(u) \/ Store(u) \/ Drop(u) \/ ComesDue(u) \/ RowAges(u)
    \/ SweepNext
    \/ \E h \in Hashes : AssetAges(h)

Spec == Init /\ [][Next]_vars

\* Time passes and the job runs its cycles to the end.
Fairness ==
    /\ \A u \in Urls : WF_vars(ComesDue(u))
    /\ \A c \in Cycles : WF_vars(CycleNext(c))

FairSpec == Spec /\ Fairness

-----------------------------------------------------------------------------
(* "so an overlapping cycle never imports the same row twice"              *)
(* (remoteImage.ts:50): whatever cycles overlap, crash or are pruned from  *)
(* under, no row is held by two of them.                                   *)
OneImportAtATime ==
    \A u \in Urls, c, d \in Cycles : Holds(c, u) /\ Holds(d, u) => c = d

(* No row is pending for ever (remoteImage.ts:41, 55, #812): in spite of   *)
(* processes that die with leased rows and assets swept under an import,   *)
(* every pending row is imported, failed for good, or pruned.              *)
PendingRowsSettle ==
    \A u \in Urls : row[u].status = "pending" ~> row[u].status # "pending"
=============================================================================
