--------------------------- MODULE FeatureRefresh ---------------------------
(***************************************************************************)
(* The feature store across refreshes.                                     *)
(*                                                                         *)
(* `muzaiten-features refresh` decodes the files that the library changed, *)
(* groups files with alike audio, and fills one row of scalars for each    *)
(* group, copied from the row of the group's first file or decoded anew.   *)
(* It may be asked to stop, or be killed, anywhere.  Files change while it *)
(* runs, the library is scanned by another program, packs are imported,    *)
(* and a new version makes the scalars of the old one stale.               *)
(*                                                                         *)
(* The commands exclude each other by the store's lock file, so one runs   *)
(* at a time; QLockFile breaks the lock of a process that died.  Audio     *)
(* stands for what a decode yields: its hash, its fingerprint and its      *)
(* scalars.  The order in which candidates are analysed is any: the        *)
(* threads are those of AnalysisPool.                                      *)
(***************************************************************************)
EXTENDS Integers, FiniteSets, FiniteSetsExt

CONSTANTS
    FileCount,      \* the files are 1 .. FileCount, in the order of their paths
    Audio,          \* what may be in a file
    Alike,          \* the pairs of audio whose fingerprints are within the threshold
    FirstAudio,     \* what is in the files at first
    NoAudio,        \* nothing known of a file
    Bounds          \* the bounds considered: on the changes of files, the upgrades, the failed
                    \* decodes, and the stops and crashes

Files == 1 .. FileCount
None == 0

ASSUME RefreshAssumption ==
    /\ FileCount \in Nat \ {0} /\ Audio # {} /\ NoAudio \notin Audio
    /\ Alike \subseteq Audio \X Audio
    /\ \A x, y \in Audio : <<x, y>> \in Alike => <<y, x>> \in Alike
    /\ FirstAudio \in [Files -> Audio]
    /\ Bounds \subseteq [changes : Nat, upgrades : Nat, failures : Nat, breaks : Nat]

VARIABLES
    disk,           \* each file: its stamp (mtime and size) and its audio
    library,        \* the stamp the library's database has of each file
    db,             \* the feature store, as the connection sees it
    durable,        \* the feature store, as a crash leaves it
    run,            \* the refresh that is running
    version,        \* the version of the program's analysis (Dsp::kDspVersion)
    torn,           \* whether a decode failed of a file that took part in the grouping: "here", in this
                    \* refresh, or "lost", in one that broke off before its grouping (for the properties)
    remaining       \* what is left of the bounds

vars == <<disk, library, db, durable, run, version, torn, remaining>>

Stamps == Nat
GroupIds == Nat \ {0}
Versions == Nat \ {0}
Scalars == [audio : Audio \union {NoAudio}, version : Versions \union {None}]
NoScalars == [audio |-> NoAudio, version |-> None]

\* A row of the table files; stamp -1 is no row.
Row == [stamp : Stamps \union {-1}, audio : Audio \union {NoAudio}, ok : BOOLEAN,
        group : GroupIds \union {None}]
NoRow == [stamp |-> -1, audio |-> NoAudio, ok |-> FALSE, group |-> None]

\* The rows of features are those of the ids in its domain.
IsStore(store) ==
    /\ store = [files |-> store.files, groups |-> store.groups, features |-> store.features,
                fileFeatures |-> store.fileFeatures]
    /\ store.files \in [Files -> Row] /\ store.fileFeatures \in [Files -> Scalars]
    /\ store.groups \subseteq GroupIds /\ DOMAIN store.features \subseteq GroupIds
    /\ store.features = [g \in DOMAIN store.features |-> store.features[g]]
    /\ \A g \in DOMAIN store.features : store.features[g] \in Scalars

Stages == {"identity", "features", "all"}
Run == [at : {"idle", "scan", "group", "fill", "backfill"}, stage : Stages, stop : BOOLEAN,
        pending : SUBSET Files, stamp : [Files -> Stamps], decoded : [Files -> Audio \union {NoAudio}],
        affected : SUBSET GroupIds, full : BOOLEAN, extracted : [Files -> Audio \union {NoAudio}],
        copies : SUBSET GroupIds, decodes : SUBSET GroupIds, failed : SUBSET GroupIds,
        file : Files \union {None}]

TypeOK ==
    /\ disk \in [Files -> [stamp : Stamps, audio : Audio]] /\ library \in [Files -> Stamps]
    /\ IsStore(db) /\ IsStore(durable) /\ run \in Run /\ version \in Versions
    /\ torn \in {"no", "here", "lost"}
    /\ remaining \in [changes : Nat, upgrades : Nat, failures : Nat, breaks : Nat]

Idle == [at |-> "idle", stage |-> "all", stop |-> FALSE, pending |-> {}, stamp |-> [f \in Files |-> 0],
         decoded |-> [f \in Files |-> NoAudio], affected |-> {}, full |-> FALSE,
         extracted |-> [f \in Files |-> NoAudio], copies |-> {}, decodes |-> {}, failed |-> {},
         file |-> None]

EmptyStore == [files |-> [f \in Files |-> NoRow], groups |-> {},
               features |-> [g \in {} |-> NoScalars], fileFeatures |-> [f \in Files |-> NoScalars]]

Init ==
    /\ disk = [f \in Files |-> [stamp |-> 0, audio |-> FirstAudio[f]]]
    /\ library = [f \in Files |-> 0]
    /\ db = EmptyStore /\ durable = EmptyStore /\ run = Idle /\ version = 1 /\ torn = "no"
    /\ remaining \in Bounds

\* Committed at once: a transaction of its own, or a single statement.
Committed(store) == db' = store /\ durable' = db'

-----------------------------------------------------------------------------
(* Grouping. *)

\* The rows that take part in it, and those that await it.
Grouped(store) == {f \in Files : store.files[f].ok}
Ungrouped(store) == {f \in Grouped(store) : store.files[f].group = None}

Match(x, y) == x = y \/ <<x, y>> \in Alike

\* The connected components of a set of rows under a symmetric relation, given by its pairs.
Component(rows, links, f) ==
    {g \in rows : \A part \in SUBSET rows :
        f \in part /\ (\A x \in part, y \in rows : <<x, y>> \in links => y \in part) => g \in part}
Components(rows, links) == {Component(rows, links, f) : f \in rows}

\* groupedRows(): all pairs are compared.
FullLinks(store) ==
    {p \in Grouped(store) \X Grouped(store) : Match(store.files[p[1]].audio, store.files[p[2]].audio)}
FullGroups(store) == Components(Grouped(store), FullLinks(store))

\* groupRowAffected()
Affected(row, affectedIds) == row.group = None \/ row.group \in affectedIds

\* Mutant: only changed rows are compared with each other.
LinkedIfChanged(x, y, affectedIds) ==
    \/ x.group = y.group /\ ~Affected(x, affectedIds)
    \/ x.audio = y.audio
    \/ Affected(x, affectedIds) /\ Affected(y, affectedIds) /\ Match(x.audio, y.audio)

\* incrementallyGroupedRows(): an old group without a changed member is taken as it is, and only
\* pairs with an affected row are compared; equal hashes count anywhere.
Linked(x, y, affectedIds) ==
    \/ x.group = y.group /\ ~Affected(x, affectedIds)
    \/ x.audio = y.audio
    \/ (Affected(x, affectedIds) \/ Affected(y, affectedIds)) /\ Match(x.audio, y.audio)

IncrementalLinks(store, affectedIds) ==
    {p \in Grouped(store) \X Grouped(store) : Linked(store.files[p[1]], store.files[p[2]], affectedIds)}
IncrementalGroups(store, affectedIds) == Components(Grouped(store), IncrementalLinks(store, affectedIds))

\* Mutant: only the ids that files have are reserved.
ReservedByFiles(store) == Max({None} \union {store.files[f].group : f \in Files})

\* maxReservedGroupId(): the highest id anywhere in the store.
Reserved(store) ==
    Max({None} \union store.groups \union {store.files[f].group : f \in Files}
            \union DOMAIN store.features)

Members(store, g) == {f \in Grouped(store) : store.files[f].group = g}
Representative(store, g) == Min(Members(store, g))

\* The ids that the files of a part have, and those of them whose first file is in it.
OldIds(store, p) == {store.files[f].group : f \in p} \ {None}
Kept(store, p) == {id \in OldIds(store, p) : Representative(store, id) \in p}
Claimed(store, parts) == {Min(Kept(store, p)) : p \in {q \in parts : Kept(store, q) # {}}}

\* What is left for a part in the second pass, given what the others get.
Free(store, parts, p, given) ==
    OldIds(store, p) \ (Claimed(store, parts) \union {given[q] : q \in {e \in parts : Min(e) < Min(p)}})

\* A group keeps the smallest id whose first file it has; or else the smallest id of its files that is
\* not taken; or else none.
Reused(store, parts) ==
    LET reused[p \in parts] ==
            IF Kept(store, p) # {} THEN Min(Kept(store, p))
            ELSE IF Free(store, parts, p, reused) = {} THEN None
            ELSE Min(Free(store, parts, p, reused))
    IN reused

\* assignStableGroupIds(): a group without an old id gets a fresh one.
AssignIds(store, parts) ==
    LET reused == Reused(store, parts)
        fresh(p) == Cardinality({q \in parts : reused[q] = None /\ Min(q) =< Min(p)})
    IN [p \in parts |-> IF reused[p] = None THEN Reserved(store) + fresh(p) ELSE reused[p]]

\* The store after the grouping's transaction, orphaned rows deleted.
Regrouped(store, parts) ==
    LET ids == AssignIds(store, parts)
        groups == {ids[p] : p \in parts}
        part(f) == CHOOSE p \in parts : f \in p
    IN [files |-> [f \in Files |->
            [store.files[f] EXCEPT !.group = IF f \in Grouped(store) THEN ids[part(f)] ELSE None]],
        groups |-> groups,
        features |-> [g \in groups \intersect DOMAIN store.features |-> store.features[g]],
        fileFeatures |-> [f \in Files |->
            IF store.files[f] = NoRow THEN NoScalars ELSE store.fileFeatures[f]]]

-----------------------------------------------------------------------------
(* Filling the rows of the groups. *)

GroupIdsOf(store) == {store.files[f].group : f \in Grouped(store)} \ {None}
HasScalars(store, g) == g \in DOMAIN store.features /\ store.features[g].version = version
StaleGroups(store) == {g \in GroupIdsOf(store) : ~HasScalars(store, g)}

\* A row written, or written over.
WithScalars(features, g, x) ==
    [h \in DOMAIN features \union {g} |-> IF h = g THEN [audio |-> x, version |-> version] ELSE features[h]]

\* materializeStaleReps(): which groups are copied and which decoded is settled at the start.
Copyable(store, g) == store.fileFeatures[Representative(store, g)].version = version

Fill(r, store) ==
    [r EXCEPT !.at = "fill", !.copies = {g \in StaleGroups(store) : Copyable(store, g)},
              !.decodes = {g \in StaleGroups(store) : ~Copyable(store, g)}]

-----------------------------------------------------------------------------
(* The refresh. *)

\* loadCandidates() and splitPending(): what the library has otherwise than the store.
Pending == {f \in Files : db.files[f].stamp # library[f]}

\* Mutant: rows that a stop left ungrouped are passed over when nothing else is pending.
BeginOnlyPending(stage) ==
    /\ run.at = "idle"
    /\ LET fresh == [Idle EXCEPT !.stage = stage, !.stamp = library, !.full = Ungrouped(db) # {}]
       IN \/ /\ stage # "features" /\ Pending # {}
             /\ run' = [fresh EXCEPT !.at = "scan", !.pending = Pending,
                            !.affected = {db.files[f].group : f \in Pending} \ {None}]
             /\ UNCHANGED <<db, durable, torn>>
          \/ /\ stage = "features" \/ (stage = "all" /\ Pending = {})
             /\ Committed(db) /\ run' = Fill(fresh, db) /\ UNCHANGED torn
    /\ UNCHANGED <<disk, library, version, remaining>>

\* runNativeRefresh() up to its first decode.
Begin(stage) ==
    /\ run.at = "idle"
    /\ LET fresh == [Idle EXCEPT !.stage = stage, !.stamp = library, !.full = Ungrouped(db) # {}]
           regroup == Ungrouped(db) # {}
       IN \/ /\ stage # "features" /\ Pending # {}
             /\ run' = [fresh EXCEPT !.at = "scan", !.pending = Pending,
                            !.affected = {db.files[f].group : f \in Pending} \ {None}]
             /\ UNCHANGED <<db, durable, torn>>
          \/ /\ stage = "features" \/ (stage = "all" /\ Pending = {})
             /\ Committed(IF regroup THEN Regrouped(db, FullGroups(db)) ELSE db)
             /\ run' = Fill(fresh, db') /\ torn' = IF regroup THEN "no" ELSE torn
    /\ UNCHANGED <<disk, library, version, remaining>>

\* A worker decodes a candidate.
Decode(f) ==
    /\ run.at = "scan" /\ f \in run.pending /\ run.decoded[f] = NoAudio
    /\ run' = [run EXCEPT !.decoded[f] = disk[f].audio]
    /\ UNCHANGED <<disk, library, db, durable, version, torn, remaining>>

\* Mutant: the stamp is the file's when the analysis is stored.
StoredAsOfNow(f, ok) ==
    LET row == [stamp |-> disk[f].stamp, audio |-> IF ok THEN run.decoded[f] ELSE NoAudio, ok |-> ok,
                group |-> None]
    IN [db EXCEPT !.files[f] = row,
                  !.fileFeatures[f] = IF ok THEN [audio |-> run.decoded[f], version |-> version] ELSE @]

\* completion(): upsertFile() clears the group and, of a good analysis, upsertFileFeatures().
Stored(f, ok) ==
    LET row == [stamp |-> run.stamp[f], audio |-> IF ok THEN run.decoded[f] ELSE NoAudio, ok |-> ok,
                group |-> None]
    IN [db EXCEPT !.files[f] = row,
                  !.fileFeatures[f] = IF ok THEN [audio |-> run.decoded[f], version |-> version] ELSE @]

StoreAnalysis(f) ==
    /\ run.at = "scan" /\ f \in run.pending /\ run.decoded[f] # NoAudio
    /\ \E ok \in BOOLEAN :
        /\ ~ok => remaining.failures > 0
        /\ remaining' = [remaining EXCEPT !.failures = IF ok THEN @ ELSE @ - 1]
        /\ db' = Stored(f, ok)
        /\ run' = [run EXCEPT !.pending = @ \ {f}, !.decoded[f] = NoAudio,
                              !.extracted[f] = IF ok THEN run.decoded[f] ELSE @]
        /\ torn' = IF ~ok /\ db.files[f].ok /\ torn = "no" THEN "here" ELSE torn
    /\ UNCHANGED <<disk, library, durable, version>>

\* commitIfNeeded(): every 25 files or 5 seconds.
Commit ==
    /\ run.at = "scan" /\ durable # db
    /\ durable' = db
    /\ UNCHANGED <<disk, library, db, run, version, torn, remaining>>

\* A refresh that ends before its grouping forgets which groups had the files that failed.
Forgotten == IF torn = "here" THEN "lost" ELSE torn

\* The pool has returned: everything is analysed, or a stop left the rest; what was decoded is stored.
EndScan ==
    /\ run.at = "scan" /\ \A f \in run.pending : run.decoded[f] = NoAudio
    /\ run.pending = {} \/ run.stop
    /\ durable' = db
    /\ run' = IF run.stop THEN Idle ELSE [run EXCEPT !.at = "group"]
    /\ torn' = IF run.stop THEN Forgotten ELSE torn
    /\ UNCHANGED <<disk, library, db, version, remaining>>

Group ==
    /\ run.at = "group"
    /\ Committed(Regrouped(db, IF run.full THEN FullGroups(db) ELSE IncrementalGroups(db, run.affected)))
    /\ run' = IF run.stage = "all" THEN Fill(run, db') ELSE Idle
    /\ torn' = IF run.full \/ torn = "here" THEN "no" ELSE torn
    /\ UNCHANGED <<disk, library, version, remaining>>

\* ensureFeatureRows(): a row is copied.
FillCopy(g) ==
    /\ run.at = "fill" /\ ~run.stop
    /\ Committed([db EXCEPT !.features =
            WithScalars(@, g, db.fileFeatures[Representative(db, g)].audio)])
    /\ run' = [run EXCEPT !.copies = @ \ {g}]
    /\ UNCHANGED <<disk, library, version, torn, remaining>>

\* scalarsForRepresentative(): what this run extracted, or the file as it is now.
Analysed(f) == IF run.extracted[f] # NoAudio THEN run.extracted[f] ELSE disk[f].audio

\* The row of a group whose first file is decoded; the file's own row is a second statement.  The
\* store does not change between the decode and the statement, which are one step.
FillDecode(g) ==
    /\ run.at = "fill" /\ ~run.stop /\ run.copies = {}
    /\ LET f == Representative(db, g)
       IN \/ /\ Committed([db EXCEPT !.features = WithScalars(@, g, Analysed(f))])
             /\ run' = [run EXCEPT !.at = "backfill", !.decodes = @ \ {g}, !.file = f,
                                   !.decoded[f] = Analysed(f)]
             /\ UNCHANGED remaining
          \/ /\ run.extracted[f] = NoAudio /\ remaining.failures > 0
             /\ remaining' = [remaining EXCEPT !.failures = @ - 1]
             /\ run' = [run EXCEPT !.decodes = @ \ {g}, !.failed = @ \union {g}]
             /\ UNCHANGED <<db, durable>>
    /\ UNCHANGED <<disk, library, version, torn>>

Backfill ==
    /\ run.at = "backfill"
    /\ LET f == run.file
       IN /\ Committed([db EXCEPT !.fileFeatures[f] = [audio |-> run.decoded[f], version |-> version]])
          /\ run' = [run EXCEPT !.at = "fill", !.file = None, !.decoded[f] = NoAudio]
    /\ UNCHANGED <<disk, library, version, torn, remaining>>

EndFill ==
    /\ run.at = "fill"
    /\ run.stop \/ run.copies \union run.decodes = {}
    /\ run' = Idle
    /\ UNCHANGED <<disk, library, db, durable, version, torn, remaining>>

RequestStop ==
    /\ run.at # "idle" /\ ~run.stop /\ remaining.breaks > 0
    /\ run' = [run EXCEPT !.stop = TRUE] /\ remaining' = [remaining EXCEPT !.breaks = @ - 1]
    /\ UNCHANGED <<disk, library, db, durable, version, torn>>

Crash ==
    /\ run.at # "idle" /\ remaining.breaks > 0
    /\ db' = durable /\ run' = Idle /\ remaining' = [remaining EXCEPT !.breaks = @ - 1]
    /\ torn' = Forgotten
    /\ UNCHANGED <<disk, library, durable, version>>

-----------------------------------------------------------------------------
(* Packs. *)

\* pack import: the records of the running version, each adopted for the one group whose first file
\* has its hash.
Import(records, replace) ==
    /\ run.at = "idle"
    /\ LET hash(g) == db.files[Representative(db, g)].audio
           adopting == {g \in GroupIdsOf(db) :
               /\ hash(g) \in records /\ \A h \in GroupIdsOf(db) : hash(h) = hash(g) => h = g
               /\ replace \/ ~HasScalars(db, g)}
       IN Committed([db EXCEPT !.features = [g \in DOMAIN db.features \union adopting |->
              IF g \in adopting THEN [audio |-> hash(g), version |-> version] ELSE db.features[g]]])
    /\ UNCHANGED <<disk, library, run, version, torn, remaining>>

-----------------------------------------------------------------------------
(* The others. *)

\* A change is assumed to leave the file another mtime, in whole seconds, or another size.
Change(f, x) ==
    /\ remaining.changes > 0
    /\ remaining' = [remaining EXCEPT !.changes = @ - 1]
    /\ disk' = [disk EXCEPT ![f] = [stamp |-> @.stamp + 1, audio |-> x]]
    /\ UNCHANGED <<library, db, durable, run, version, torn>>

\* A scan of module Library, which has its steps: each file's mtime and size as stored.
ScanLibrary ==
    /\ library' = [f \in Files |-> disk[f].stamp] /\ library' # library
    /\ UNCHANGED <<disk, db, durable, run, version, torn, remaining>>

Upgrade ==
    /\ run.at = "idle" /\ remaining.upgrades > 0
    /\ version' = version + 1 /\ remaining' = [remaining EXCEPT !.upgrades = @ - 1]
    /\ UNCHANGED <<disk, library, db, durable, run, torn>>

Refresh ==
    \/ Commit \/ EndScan \/ Group \/ Backfill \/ EndFill
    \/ \E f \in Files : Decode(f) \/ StoreAnalysis(f)
    \/ (\E g \in run.copies : FillCopy(g)) \/ (\E g \in run.decodes : FillDecode(g))

Next ==
    \/ Refresh
    \/ \E stage \in Stages : Begin(stage)
    \/ RequestStop \/ Crash \/ ScanLibrary \/ Upgrade
    \/ \E x \in Audio, f \in Files : Change(f, x)
    \/ \E records \in SUBSET Audio, replace \in BOOLEAN : Import(records, replace)

Spec == Init /\ [][Next]_vars

-----------------------------------------------------------------------------
(* Properties. *)

\* What is stored under the file's present stamp, its audio and its own scalars, is of what the file
\* holds, though the file may have changed between the scan of the library, the decode and the store: the
\* stamp is the library's, taken before the decode.  This is what makes a pack true, as far as no two
\* contents of a file have the same size and the same second.
AnalysisIsOfFile ==
    \A f \in Files : db.files[f].ok /\ db.files[f].stamp = disk[f].stamp =>
        /\ db.files[f].audio = disk[f].audio
        /\ db.fileFeatures[f].version # None => db.fileFeatures[f].audio = disk[f].audio

\* Between refreshes, if no row awaits grouping, the groups are the connected components of the files'
\* audio, as a grouping from nothing would have them: comparing only what changed loses no split and no
\* merge, whatever was interrupted before.  The exception is the failed decode of a file that took part:
\* a refresh that breaks off before its grouping forgets that a group may have been split, until the next
\* grouping of everything.
GroupsAreComponents ==
    run.at = "idle" /\ Ungrouped(db) = {} /\ torn = "no" =>
        {Members(db, g) : g \in db.groups} = FullGroups(db)

\* A group has the scalars stored under its id only if one of its files was in the group of that id: a
\* fresh id never takes over what an earlier group left.
RowFollowsFiles ==
    [][\A g \in GroupIdsOf(db') \intersect DOMAIN db'.features :
            \E f \in Members(db', g) : g \in {db.files[f].group, durable.files[f].group}]_vars

\* A full refresh that ends unstopped leaves nothing undone of what the library had when it began: every
\* file analysed, every file grouped, every group with scalars of this version but those whose decode
\* failed.
Finishes == run.at = "fill" /\ run'.at = "idle" /\ ~run.stop /\ remaining' = remaining
RefreshCompletes ==
    [][Finishes /\ run.stage = "all" =>
        /\ \A f \in Files : db.files[f].stamp = run.stamp[f]
        /\ Ungrouped(db) = {}
        /\ StaleGroups(db) \subseteq run.failed]_vars
=============================================================================
