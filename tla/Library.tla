------------------------------- MODULE Library -------------------------------
(***************************************************************************)
(* The library: audio files, their rows in the database, scans, and        *)
(* ratings.                                                                *)
(*                                                                         *)
(* A foreground scan enumerates the files, adds a placeholder row for each *)
(* new one, reads the changed ones again and marks the vanished ones       *)
(* missing; a background fill reads the placeholders.  Both run on threads *)
(* of their own and post what they find to the GUI thread, which alone     *)
(* writes the track rows of a scan.  The user rates tracks; a third thread *)
(* writes the ratings into the files and takes them off the pending list.  *)
(* Files are changed, removed and put back by other programs at any time,  *)
(* statements on the database may fail, and the process may be killed.     *)
(*                                                                         *)
(* A file's stamp stands for its mtime, in whole seconds, and its size: a  *)
(* write gives the file a new one, or leaves it one that it had before.    *)
(*                                                                         *)
(* The library is the local one, not MPD's, and its source directories     *)
(* stay enabled.  Album ratings, which nothing but the window reads, are   *)
(* left out.                                                               *)
(***************************************************************************)
EXTENDS Integers, FiniteSets, Sequences

CONSTANTS
    Files,
    Ratings,
    Unset,          \* Rating::unset, or NULL in the database
    Present,        \* the files there at first
    Tagged,         \* the ratings they may have in their tags at first, Unset for none
    BatchSize,      \* Options::batchSize
    MayCrash,
    MaxStamp,       \* bound on the stamps a file has in turn
    MaxChanges,     \* bound on what other programs do to the files
    MaxScans,       \* bound on the scans started
    MaxEdits,       \* bound on the ratings set or cleared and the syncs asked for
    MaxTogether,    \* bound on both together
    MaxFaults       \* bound on failed statements, and on directories or tags not read

ASSUME LibraryAssumption ==
    /\ Files # {} /\ Unset \notin Ratings
    /\ Present \subseteq Files /\ Tagged \subseteq Ratings \union {Unset}
    /\ BatchSize \in Nat \ {0}
    /\ MayCrash \in BOOLEAN
    /\ MaxStamp \in Nat \ {0} /\ MaxChanges \in Nat /\ MaxScans \in Nat
    /\ MaxEdits \in Nat /\ MaxTogether \in Nat /\ MaxFaults \in Nat

VARIABLES
    disk,           \* the files
    row,            \* table tracks
    user,           \* table user_track_ratings
    pending,        \* table pending_track_rating_writes: the rating, or Unset
    waiting,        \* those of its rows whose status is 'pending', not a failure
    queued,         \* PlayerCore's queue rows: the rating shown, and the file's
    gui,            \* the rating edit the GUI thread is in the middle of
    mail,           \* what is posted to the GUI thread
    pipe,           \* the two pipelines, "scan" and "fill"
    sync,           \* the rating writer
    syncPending,    \* m_ratingTagSyncPending
    \* history
    gone,           \* files absent at some moment of the scan under way
    written,        \* the rating last written into each file and verified
    torn,           \* files whose last rating edit ended after its first statement
    past,           \* the newest stamp of each file, and may its stamp be of two contents
    used            \* what was used up of each bound

tables == <<row, user, pending, waiting>>
history == <<gone, written, torn, past, used>>
vars == <<disk, tables, queued, gui, mail, pipe, sync, syncPending, history>>

Stamps == 0 .. MaxStamp     \* 0: what QFileInfo has for a file that is not there
MaybeRating == Ratings \union {Unset}
Pipelines == {"scan", "fill"}

Disk == [there : BOOLEAN, stamp : Stamps, rating : MaybeRating]
Past == [newest : Stamps, alike : BOOLEAN]
Row == [kind : {"none", "placeholder", "scanned"}, missing : BOOLEAN, error : BOOLEAN,
        stamp : Stamps, rating : MaybeRating]
QueueRow == [shown : MaybeRating, file : MaybeRating]
Track == [file : Files, stamp : Stamps, rating : MaybeRating, error : BOOLEAN]
Found == [file : Files, stamp : Stamps]
Fingerprint == [file : Files, stamp : Stamps, scanned : BOOLEAN]
Update == [file : Files, rating : MaybeRating]
Wanted == [file : Files, rating : Ratings]
Edit == [at : {"idle", "setPending", "clearPending"}, now : Update]
Pipe == [phase : {"off", "enumerating", "reading", "ended"}, cancelled : BOOLEAN, force : BOOLEAN,
         incomplete : BOOLEAN, prints : SUBSET Fingerprint, left : SUBSET Files,
         found : SUBSET Found, opened : SUBSET Found, batch : SUBSET Track]
Sync == [at : {"off", "next", "write", "reread", "update", "clear", "ended"}, saved : BOOLEAN,
         todo : SUBSET Wanted, now : Update, stamp : Stamps, read : MaybeRating,
         updates : SUBSET Update]
Used == [change : 0 .. MaxChanges, scan : 0 .. MaxScans, edit : 0 .. MaxEdits,
         fault : 0 .. MaxFaults, crash : 0 .. 1]
Messages ==
    [type : {"pump", "scheduled", "rerun"}]
    \union [type : {"placeholders"}, tracks : SUBSET Found]
    \union [type : {"batch"}, tracks : SUBSET Track]
    \union [type : {"missing"}, files : SUBSET Files]
    \union [type : {"finished"}, of : Pipelines]
    \union [type : {"synced"}, updates : SUBSET Update]

TypeOK ==
    /\ disk \in [Files -> Disk]
    /\ row \in [Files -> Row]
    /\ user \in [Files -> MaybeRating] /\ pending \in [Files -> MaybeRating]
    /\ waiting \in SUBSET Files
    /\ queued \in [Files -> QueueRow]
    /\ gui \in Edit
    /\ mail \in Seq(Messages)
    /\ pipe \in [Pipelines -> Pipe]
    /\ sync \in Sync /\ syncPending \in BOOLEAN
    /\ gone \in SUBSET Files /\ written \in [Files -> MaybeRating]
    /\ torn \in SUBSET Files /\ past \in [Files -> Past] /\ used \in Used

NoUpdate == [file |-> CHOOSE f \in Files : TRUE, rating |-> Unset]
NoEdit == [at |-> "idle", now |-> NoUpdate]
NoPipe == [phase |-> "off", cancelled |-> FALSE, force |-> FALSE, incomplete |-> FALSE,
           prints |-> {}, left |-> {}, found |-> {}, opened |-> {}, batch |-> {}]
NoSync == [at |-> "off", saved |-> FALSE, todo |-> {}, now |-> NoUpdate, stamp |-> 0,
           read |-> Unset, updates |-> {}]
NoRow == [kind |-> "none", missing |-> FALSE, error |-> FALSE, stamp |-> 0, rating |-> Unset]

Use(bound, limit) ==
    /\ used[bound] < limit
    /\ used' = [used EXCEPT ![bound] = @ + 1]

Together == used.scan + used.edit < MaxTogether

----------------------------------------------------------------------------
(* The database. *)

\* resolveEffectiveRating(): the user's rating while its write is pending, then the file's.
Effective(r, u, p) ==
    IF p # Unset /\ u # Unset THEN u ELSE IF r.rating # Unset THEN r.rating ELSE u

ScannedNow(t) == [kind |-> "scanned", missing |-> FALSE, error |-> t.error,
                  stamp |-> disk[t.file].stamp, rating |-> t.rating]
\* upsertTrack().
Scanned(t) == [kind |-> "scanned", missing |-> FALSE, error |-> t.error, stamp |-> t.stamp,
               rating |-> t.rating]

\* insertEnumeratedPlaceholders(): a row that exists stays as it is.
Placeholder(f, stamp) ==
    IF row[f].kind # "none" THEN row[f]
    ELSE [NoRow EXCEPT !.kind = "placeholder", !.stamp = stamp]

\* enumeratedOnlyPaths(), every source directory being enabled.
Backlog(rows) == {f \in Files : rows[f].kind = "placeholder" /\ ~rows[f].missing}

\* tracksWithPendingRatingWrites() and tracksWithUserRatings(), as a request's tracks.
PendingWrites ==
    {u \in Wanted : row[u.file].kind # "none" /\ pending[u.file] = u.rating}
SavedRatings ==
    {u \in Update : /\ row[u.file].kind # "none" /\ user[u.file] # Unset
                    /\ u.rating = Effective(row[u.file], user[u.file], pending[u.file])}

RecordAnyFailure(u) ==
    /\ pending' = IF pending[u.file] = Unset THEN [pending EXCEPT ![u.file] = u.rating] ELSE pending
    /\ waiting' = waiting \ {u.file}
    /\ UNCHANGED <<row, user>>
\* recordRatingWriteFailure(): only for the rating the user still wants.
RecordFailure(u) ==
    LET insert == user[u.file] = u.rating /\ pending[u.file] = Unset
        update == user[u.file] = u.rating /\ pending[u.file] = u.rating
    IN /\ pending' = IF insert THEN [pending EXCEPT ![u.file] = u.rating] ELSE pending
       /\ waiting' = IF update THEN waiting \ {u.file} ELSE waiting
       /\ UNCHANGED <<row, user>>

ClearAnyPending(u) ==
    /\ pending' = [pending EXCEPT ![u.file] = Unset]
    /\ waiting' = waiting \ {u.file}
    /\ UNCHANGED <<row, user>>
\* clearPendingTrackRatingWrite() with the rating it expects.
ClearPending(u) ==
    LET match == pending[u.file] = u.rating
    IN /\ pending' = IF match THEN [pending EXCEPT ![u.file] = Unset] ELSE pending
       /\ waiting' = IF match THEN waiting \ {u.file} ELSE waiting
       /\ UNCHANGED <<row, user>>

----------------------------------------------------------------------------
(* Files change under the program. *)

\* A write within the second of an earlier one, of the same size, keeps its stamp; a file put
\* back may have an old one.
Write(f, r) ==
    \E s \in Stamps \ {0} :
        /\ s <= past[f].newest + 1
        /\ disk' = [disk EXCEPT ![f].rating = r, ![f].stamp = s]
        /\ past' = [past EXCEPT ![f] = [newest |-> IF s > @.newest THEN s ELSE @.newest,
                                        alike |-> s <= @.newest]]

\* TagReader::read(): the stamp first, the tags later.
Tags(f, stamp) ==
    [file |-> f, stamp |-> stamp, error |-> ~disk[f].there,
     rating |-> IF disk[f].there THEN disk[f].rating ELSE Unset]
StampOf(f) == IF disk[f].there THEN disk[f].stamp ELSE 0

Retag(f) ==
    /\ disk[f].there /\ Use("change", MaxChanges)
    /\ \E r \in MaybeRating \ {disk[f].rating} : Write(f, r)
    /\ UNCHANGED <<tables, queued, gui, mail, pipe, sync, syncPending, gone, written, torn>>

Move(f) ==
    /\ Use("change", MaxChanges)
    /\ disk' = [disk EXCEPT ![f].there = ~@]
    /\ gone' = IF disk[f].there THEN gone \union {f} ELSE gone
    /\ UNCHANGED <<tables, queued, gui, mail, pipe, sync, syncPending, written, torn, past>>

----------------------------------------------------------------------------
(* ScanController, on the GUI thread. *)

Free == gui.at = "idle"
Post(m) == mail' = Append(mail, m)
Arrives(type) == Free /\ mail # <<>> /\ Head(mail).type = type
Off(p) == pipe[p].phase = "off"

\* pumpMetadataFill(), for the local library, with the pipelines as they are now: any part of
\* the backlog is a chunk, for the directory looked at comes first.
Pump(pipes, rows) ==
    \/ /\ pipes["scan"].phase = "off" /\ pipes["fill"].phase = "off"
       /\ \E chunk \in SUBSET Backlog(rows) :
              /\ chunk # {}
              /\ pipe' = [pipes EXCEPT !["fill"] =
                              [NoPipe EXCEPT !.phase = "reading", !.left = chunk]]
    \/ /\ ~ (pipes["scan"].phase = "off" /\ pipes["fill"].phase = "off" /\ Backlog(rows) # {})
       /\ pipe' = pipes

\* trackFingerprints(): every known track, missing or not.
Fingerprints == {p \in Fingerprint : /\ row[p.file].kind # "none" /\ p.stamp = row[p.file].stamp
                         /\ p.scanned = (row[p.file].kind = "scanned")}

\* startScan(), forced or not; a fill under way is cancelled.
StartScan(force) ==
    /\ Free /\ Off("scan") /\ Use("scan", MaxScans) /\ Together
    /\ pipe' = [pipe EXCEPT
            !["scan"] = [NoPipe EXCEPT !.phase = "enumerating", !.force = force,
                                       !.prints = Fingerprints, !.left = Files],
            !["fill"].cancelled = ~Off("fill")]
    /\ gone' = {f \in Files : ~disk[f].there}
    /\ UNCHANGED <<disk, tables, queued, gui, mail, sync, syncPending, written, torn, past>>

\* abortScanBeforeStart(): the fingerprints could not be read, however often.
AbortScan ==
    /\ Free /\ Off("scan")
    /\ Pump(pipe, row)
    /\ UNCHANGED <<disk, tables, queued, gui, mail, sync, syncPending, history>>

CancelScan ==
    /\ Free /\ ~Off("scan") /\ ~pipe["scan"].cancelled
    /\ pipe' = [pipe EXCEPT !["scan"].cancelled = TRUE]
    /\ UNCHANGED <<disk, tables, queued, gui, mail, sync, syncPending, history>>

\* MainWindow's constructor resumes the fill.
HandlePump ==
    /\ Arrives("pump")
    /\ mail' = Tail(mail)
    /\ Pump(pipe, row)
    /\ UNCHANGED <<disk, tables, queued, gui, sync, syncPending, history>>

IngestPlaceholders ==
    /\ Arrives("placeholders")
    /\ mail' = Tail(mail)
    /\ \/ /\ row' = [f \in Files |->
                 IF \E t \in Head(mail).tracks : t.file = f
                 THEN Placeholder(f, (CHOOSE t \in Head(mail).tracks : t.file = f).stamp)
                 ELSE row[f]]
          /\ UNCHANGED used
       \/ Use("fault", MaxFaults) /\ UNCHANGED row
    /\ UNCHANGED <<disk, user, pending, waiting, queued, gui, pipe, sync, syncPending,
                   gone, written, torn, past>>

\* PlayerCore::patchTracksFromMetadata(): the whole row becomes what TagReader read,
\* which has no effective rating.
Patched(t) == [shown |-> Unset, file |-> t.rating]

\* ingestScanBatch(): all of the batch in one transaction, or none of it.
IngestBatch ==
    /\ Arrives("batch")
    /\ mail' = Tail(mail)
    /\ LET tracks == Head(mail).tracks
           of(f)  == CHOOSE t \in tracks : t.file = f
           in     == {t.file : t \in tracks}
       IN \/ /\ row' = [f \in Files |-> IF f \in in THEN Scanned(of(f)) ELSE row[f]]
             /\ queued' = [f \in Files |-> IF f \in in THEN Patched(of(f)) ELSE queued[f]]
             /\ UNCHANGED used
          \/ Use("fault", MaxFaults) /\ UNCHANGED <<row, queued>>
    /\ UNCHANGED <<disk, user, pending, waiting, gui, pipe, sync, syncPending,
                   gone, written, torn, past>>

\* markScannedTracksMissing().
MarkMissing ==
    /\ Arrives("missing")
    /\ mail' = Tail(mail)
    /\ \/ /\ row' = [f \in Files |-> IF f \in Head(mail).files /\ row[f].kind # "none"
                                     THEN [row[f] EXCEPT !.missing = TRUE] ELSE row[f]]
          /\ UNCHANGED used
       \/ Use("fault", MaxFaults) /\ UNCHANGED row
    /\ UNCHANGED <<disk, user, pending, waiting, queued, gui, pipe, sync, syncPending,
                   gone, written, torn, past>>

FinishOnly ==
    /\ Arrives("finished")
    /\ mail' = Tail(mail)
    /\ pipe' = [pipe EXCEPT ![Head(mail).of] = NoPipe]
    /\ UNCHANGED <<disk, tables, queued, gui, sync, syncPending, history>>

\* finishScan() or finishMetadataFill(), and the end of the thread that follows.
HandleFinished ==
    /\ Arrives("finished")
    /\ mail' = Tail(mail)
    /\ Pump([pipe EXCEPT ![Head(mail).of] = NoPipe], row)
    /\ UNCHANGED <<disk, tables, queued, gui, sync, syncPending, history>>

\* removeMissingTracks(); the ratings stay.
RemoveMissing ==
    /\ Free /\ \E f \in Files : row[f].missing
    /\ row' = [f \in Files |-> IF row[f].missing THEN NoRow ELSE row[f]]
    /\ UNCHANGED <<disk, user, pending, waiting, queued, gui, mail, pipe, sync, syncPending,
                   history>>

----------------------------------------------------------------------------
(* ScanPipeline, on its threads. *)

\* DirectoryWalker: one entry looked at.  A directory that cannot be read leaves the
\* enumeration incomplete.
Enumerate(f) ==
    LET p == pipe["scan"]
    IN /\ p.phase = "enumerating" /\ f \in p.left /\ ~p.cancelled
       /\ \/ /\ pipe' = [pipe EXCEPT !["scan"].left = @ \ {f},
                    !["scan"].found = IF disk[f].there
                                      THEN @ \union {[file |-> f, stamp |-> disk[f].stamp]}
                                      ELSE @]
             /\ UNCHANGED used
          \/ /\ pipe' = [pipe EXCEPT !["scan"].left = @ \ {f}, !["scan"].incomplete = TRUE]
             /\ Use("fault", MaxFaults)
       /\ UNCHANGED <<disk, tables, queued, gui, mail, sync, syncPending, gone, written, torn, past>>

PrintOf(p, f) == {q \in p.prints : q.file = f}

\* runScan(): what was enumerated against what was known.  New files become placeholders,
\* changed ones are read again, and placeholders are left to the fill.
NewFiles(p) == {t \in p.found : PrintOf(p, t.file) = {}}
Changed(p) == {t.file : t \in {t \in p.found :
                  \E q \in PrintOf(p, t.file) : q.scanned /\ (p.force \/ q.stamp # t.stamp)}}
Vanished(p) == {q.file : q \in p.prints} \ {t.file : t \in p.found}

Partition ==
    LET p == pipe["scan"]
    IN /\ p.phase = "enumerating" /\ (p.left = {} \/ p.cancelled)
       /\ IF p.cancelled
          THEN /\ Post([type |-> "finished", of |-> "scan"])
               /\ pipe' = [pipe EXCEPT !["scan"] = [NoPipe EXCEPT !.phase = "ended"]]
          ELSE /\ IF NewFiles(p) = {} THEN UNCHANGED mail
                  ELSE Post([type |-> "placeholders", tracks |-> NewFiles(p)])
               /\ pipe' = [pipe EXCEPT !["scan"].phase = "reading",
                                       !["scan"].left = Changed(p)]
       /\ UNCHANGED <<disk, tables, queued, gui, sync, syncPending, history>>

\* A directory that is no longer there, or is a link.
RootUnavailable ==
    /\ pipe["scan"].phase = "enumerating" /\ pipe["scan"].left = Files
    /\ Use("fault", MaxFaults)
    /\ Post([type |-> "finished", of |-> "scan"])
    /\ pipe' = [pipe EXCEPT !["scan"] = [NoPipe EXCEPT !.phase = "ended"]]
    /\ UNCHANGED <<disk, tables, queued, gui, sync, syncPending, gone, written, torn, past>>

\* processPaths(): a worker takes a path and reads the file, in two steps.
OpenFile(p, f) ==
    /\ pipe[p].phase = "reading" /\ f \in pipe[p].left /\ ~pipe[p].cancelled
    /\ pipe' = [pipe EXCEPT ![p].left = @ \ {f},
                            ![p].opened = @ \union {[file |-> f, stamp |-> StampOf(f)]}]
    /\ UNCHANGED <<disk, tables, queued, gui, mail, sync, syncPending, history>>

\* The track goes through the results queue to the batch, which is posted when full.
ReadFile(p, o) ==
    /\ o \in pipe[p].opened
    /\ LET batch == pipe[p].batch \union {Tags(o.file, o.stamp)}
           full  == Cardinality(batch) >= BatchSize
       IN /\ pipe' = [pipe EXCEPT ![p].opened = @ \ {o},
                                  ![p].batch = IF full THEN {} ELSE batch]
          /\ IF full THEN Post([type |-> "batch", tracks |-> batch]) ELSE UNCHANGED mail
    /\ UNCHANGED <<disk, tables, queued, gui, sync, syncPending, history>>

NotCancelled(p) == ~p.cancelled
CompleteScan(p) == ~p.cancelled /\ ~p.incomplete

\* The workers are done: the rest of the batch, the missing files, the end.
EndPipe(p) ==
    LET it      == pipe[p]
        rest    == IF it.batch = {} THEN <<>> ELSE <<[type |-> "batch", tracks |-> it.batch]>>
        missing == IF p = "scan" /\ CompleteScan(it) /\ Vanished(it) # {}
                   THEN <<[type |-> "missing", files |-> Vanished(it)]>> ELSE <<>>
    IN /\ it.phase = "reading" /\ it.opened = {} /\ (it.left = {} \/ it.cancelled)
       /\ mail' = mail \o rest \o missing \o <<[type |-> "finished", of |-> p]>>
       /\ pipe' = [pipe EXCEPT ![p] = [NoPipe EXCEPT !.phase = "ended"]]
       /\ UNCHANGED <<disk, tables, queued, gui, sync, syncPending, history>>

----------------------------------------------------------------------------
(* Ratings, on the GUI thread. *)

\* PlayerCore::updateTrackRating().
Rated(q, r) == [q EXCEPT !.shown = IF r # Unset THEN r ELSE q.file]

\* applyTrackRating(), first statement: the user's rating set, or cleared.
BeginEdit(f, r) ==
    /\ Free /\ Use("edit", MaxEdits) /\ Together
    /\ user' = [user EXCEPT ![f] = r]
    /\ gui' = [at |-> IF r = Unset THEN "clearPending" ELSE "setPending",
               now |-> [file |-> f, rating |-> r]]
    /\ UNCHANGED <<disk, row, pending, waiting, queued, mail, pipe, sync, syncPending,
                   gone, written, torn, past>>

\* Then the pending write, whose failure goes unnoticed, the queue rows, and, from the
\* window, the sync.  A rating that comes over IPC waits for the next one.
EndEdit(schedule) ==
    LET f == gui.now.file
    IN /\ ~Free
       /\ schedule => gui.at = "setPending"
       /\ \/ /\ pending' = [pending EXCEPT ![f] = gui.now.rating]
             /\ waiting' = IF gui.at = "setPending" THEN waiting \union {f} ELSE waiting \ {f}
             /\ torn' = torn \ {f}
             /\ UNCHANGED used
          \/ /\ Use("fault", MaxFaults)
             /\ torn' = torn \union {f}
             /\ UNCHANGED <<pending, waiting>>
       /\ queued' = [queued EXCEPT ![f] = Rated(@, gui.now.rating)]
       /\ gui' = NoEdit
       /\ IF schedule THEN syncPending' = TRUE /\ Post([type |-> "scheduled"])
          ELSE UNCHANGED <<syncPending, mail>>
       /\ UNCHANGED <<disk, row, user, pipe, sync, gone, written, past>>

\* startRatingTagSync(); flag is m_ratingTagSyncPending by then.
StartSync(todo, saved, flag) ==
    IF todo # {} /\ sync.at = "off"
    THEN /\ sync' = [NoSync EXCEPT !.at = "next", !.saved = saved, !.todo = todo]
         /\ syncPending' = flag
    ELSE /\ syncPending' = (flag \/ todo # {})
         /\ UNCHANGED sync

\* syncCurrentArtistRatingTags(): of one artist's files, the rated ones and the pending rest.
OfArtist(files) ==
    {u \in SavedRatings \union {p \in PendingWrites : user[p.file] = Unset} : u.file \in files}

\* The syncs asked for: of the pending writes, of all saved ratings, of an artist, and of the
\* current track with the rating its queue row shows.  With nothing to write there is no step.
SyncFromMenu ==
    /\ Free /\ Use("edit", MaxEdits) /\ Together
    /\ \/ PendingWrites # {} /\ StartSync(PendingWrites, FALSE, syncPending)
       \/ SavedRatings # {} /\ StartSync(SavedRatings, TRUE, syncPending)
       \/ \E files \in SUBSET Files :
              OfArtist(files) # {} /\ StartSync(OfArtist(files), TRUE, syncPending)
       \/ \E f \in Files :
              /\ queued[f].shown # Unset
              /\ StartSync({[file |-> f, rating |-> queued[f].shown]}, TRUE, syncPending)
    /\ UNCHANGED <<disk, tables, queued, gui, mail, pipe, gone, written, torn, past>>

\* schedulePendingRatingTagSync(), the queued part.
HandleScheduled ==
    /\ Arrives("scheduled")
    /\ mail' = Tail(mail)
    /\ IF sync.at = "off" /\ syncPending THEN StartSync(PendingWrites, FALSE, FALSE)
       ELSE UNCHANGED <<sync, syncPending>>
    /\ UNCHANGED <<disk, tables, queued, gui, pipe, history>>

HandleRerun ==
    /\ Arrives("rerun")
    /\ mail' = Tail(mail)
    /\ StartSync(PendingWrites, FALSE, syncPending)
    /\ UNCHANGED <<disk, tables, queued, gui, pipe, history>>

SyncedAsWritten(f, r) == [shown |-> r, file |-> r]
\* The writer finished: its rows are shown as the database has them now, the file's rating
\* as it was read back; then the thread ends, and what came up meanwhile is run.
Synced(f, r) ==
    Rated([shown |-> r, file |-> r],
          IF user[f] # Unset THEN Effective(row[f], user[f], pending[f]) ELSE Unset)

HandleSyncedAlone ==
    /\ Arrives("synced")
    /\ mail' = Tail(mail) /\ syncPending' = FALSE /\ sync' = NoSync
    /\ UNCHANGED <<disk, tables, queued, gui, pipe, history>>

HandleSynced ==
    /\ Arrives("synced")
    /\ LET updates == {u \in Head(mail).updates : row[u.file].kind # "none"}
       IN queued' = [f \in Files |->
              IF \E u \in updates : u.file = f
              THEN Synced(f, (CHOOSE u \in updates : u.file = f).rating) ELSE queued[f]]
    /\ mail' = IF syncPending THEN Append(Tail(mail), [type |-> "rerun"]) ELSE Tail(mail)
    /\ syncPending' = FALSE
    /\ sync' = NoSync
    /\ UNCHANGED <<disk, tables, gui, pipe, history>>

----------------------------------------------------------------------------
(* RatingTagSyncWorker. *)

\* The track is skipped when it is gone, was rated anew, or was cleared: unless the sync is
\* not of pending writes, which also writes the ratings of tracks without a user's.
Skips(u) == \/ row[u.file].kind = "none"
            \/ user[u.file] # Unset /\ user[u.file] # u.rating
            \/ user[u.file] = Unset /\ ~sync.saved

SyncNext(u) ==
    /\ sync.at = "next" /\ u \in sync.todo
    /\ sync' = [sync EXCEPT !.todo = @ \ {u}, !.now = u, !.read = Unset,
                            !.at = IF Skips(u) THEN "next" ELSE "write"]
    /\ UNCHANGED <<disk, tables, queued, gui, mail, pipe, syncPending, history>>

\* No writable path, or the tag could not be written; or it was saved and not found there
\* again; or the failure was not recorded, and nobody looks.
FailWrite ==
    LET f == sync.now.file
    IN /\ sync.at = "write"
       /\ \/ RecordFailure(sync.now) /\ UNCHANGED <<disk, past, used>>
          \/ /\ Use("fault", MaxFaults)
             /\ \/ disk[f].there /\ Write(f, sync.now.rating) /\ RecordFailure(sync.now)
                \/ UNCHANGED <<disk, past, tables>>
       /\ sync' = [sync EXCEPT !.at = "next"]
       /\ UNCHANGED <<queued, gui, mail, pipe, syncPending, gone, written, torn>>

WriteTag ==
    LET f == sync.now.file
    IN /\ sync.at = "write" /\ disk[f].there
       /\ Write(f, sync.now.rating)
       /\ written' = [written EXCEPT ![f] = sync.now.rating]
       /\ sync' = [sync EXCEPT !.at = "reread"]
       /\ UNCHANGED <<tables, queued, gui, mail, pipe, syncPending, gone, torn, used>>

Reread ==
    /\ sync.at = "reread"
    /\ sync' = [sync EXCEPT !.at = "update", !.stamp = StampOf(sync.now.file)]
    /\ UNCHANGED <<disk, tables, queued, gui, mail, pipe, syncPending, history>>

\* updateScannedTrackRating() with what the second reading gave; on failure the write stays
\* pending.
UpdateRow ==
    LET f == sync.now.file
        t == Tags(f, sync.stamp)
    IN /\ sync.at = "update"
       /\ \/ /\ row[f].kind # "none" /\ t.rating # Unset
             /\ row' = [row EXCEPT ![f].rating = t.rating, ![f].stamp = t.stamp]
             /\ sync' = [sync EXCEPT !.at = "clear", !.read = t.rating]
             /\ UNCHANGED used
          \/ /\ row[f].kind = "none" \/ t.rating = Unset
             /\ sync' = [sync EXCEPT !.at = "next"]
             /\ UNCHANGED <<row, used>>
          \/ /\ Use("fault", MaxFaults)
             /\ sync' = [sync EXCEPT !.at = "next"]
             /\ UNCHANGED row
       /\ UNCHANGED <<disk, user, pending, waiting, queued, gui, mail, pipe, syncPending,
                      gone, written, torn, past>>

ClearWritten ==
    /\ sync.at = "clear"
    /\ \/ /\ ClearPending(sync.now)
          /\ sync' = [sync EXCEPT !.at = "next", !.updates =
                  @ \union {[file |-> sync.now.file, rating |-> sync.read]}]
          /\ UNCHANGED used
       \/ /\ Use("fault", MaxFaults)
          /\ sync' = [sync EXCEPT !.at = "next"]
          /\ UNCHANGED tables
    /\ UNCHANGED <<disk, queued, gui, mail, pipe, syncPending, gone, written, torn, past>>

\* The writer's connection to the database cannot be opened.
CannotOpen ==
    /\ sync.at = "next" /\ sync.now = NoUpdate /\ Use("fault", MaxFaults)
    /\ Post([type |-> "synced", updates |-> {}])
    /\ sync' = [NoSync EXCEPT !.at = "ended"]
    /\ UNCHANGED <<disk, tables, queued, gui, pipe, syncPending, gone, written, torn, past>>

EndSync ==
    /\ sync.at = "next" /\ sync.todo = {}
    /\ Post([type |-> "synced", updates |-> sync.updates])
    /\ sync' = [NoSync EXCEPT !.at = "ended"]
    /\ UNCHANGED <<disk, tables, queued, gui, pipe, syncPending, history>>

----------------------------------------------------------------------------
(* The process. *)

\* QueueSnapshotStore::loadQueueState() takes the rows from the database.
Loaded(f) == [shown |-> Effective(row[f], user[f], pending[f]), file |-> row[f].rating]

\* Killed, or closed in the middle of what it does, and started again.
Crash ==
    /\ MayCrash /\ Use("crash", 1)
    /\ queued' = [f \in Files |-> Loaded(f)]
    /\ gui' = NoEdit
    /\ mail' = <<[type |-> "pump"]>>
    /\ pipe' = [p \in Pipelines |-> NoPipe]
    /\ sync' = NoSync /\ syncPending' = FALSE
    /\ torn' = IF Free THEN torn ELSE torn \union {gui.now.file}
    /\ UNCHANGED <<disk, tables, gone, written, past>>

\* An empty library, or one whose first files were scanned before, with ratings of theirs.
Init ==
    /\ disk \in [Files -> Disk]
    /\ \A f \in Present : disk[f].rating \in Tagged
    /\ \A f \in Files : disk[f] = IF f \in Present
           THEN [there |-> TRUE, stamp |-> 1, rating |-> disk[f].rating]
           ELSE [there |-> FALSE, stamp |-> 1, rating |-> Unset]
    /\ \E known \in {{}, Present} : row = [f \in Files |->
           IF f \in known THEN [NoRow EXCEPT !.kind = "scanned", !.stamp = 1,
                                             !.rating = disk[f].rating]
           ELSE NoRow]
    /\ user = [f \in Files |-> Unset] /\ pending = user /\ waiting = {}
    /\ queued = [f \in Files |-> Loaded(f)]
    /\ gui = NoEdit
    /\ mail = <<[type |-> "pump"]>>
    /\ pipe = [p \in Pipelines |-> NoPipe]
    /\ sync = NoSync /\ syncPending = FALSE
    /\ gone = {} /\ written = user /\ torn = {}
    /\ past = [f \in Files |-> [newest |-> 1, alike |-> FALSE]]
    /\ used = [b \in {"change", "scan", "edit", "fault", "crash"} |-> 0]

Scanning ==
    \/ \E force \in BOOLEAN : StartScan(force)
    \/ AbortScan \/ CancelScan \/ HandlePump \/ IngestPlaceholders \/ IngestBatch
    \/ MarkMissing \/ HandleFinished \/ RemoveMissing \/ Partition \/ RootUnavailable
    \/ \E f \in Files : Enumerate(f)
    \/ \E p \in Pipelines :
           \/ \E f \in Files : OpenFile(p, f)
           \/ \E o \in pipe[p].opened : ReadFile(p, o)
           \/ EndPipe(p)

Rating ==
    \/ \E f \in Files, r \in MaybeRating : BeginEdit(f, r)
    \/ \E schedule \in BOOLEAN : EndEdit(schedule)
    \/ SyncFromMenu \/ HandleScheduled \/ HandleRerun \/ HandleSynced
    \/ \E u \in sync.todo : SyncNext(u)
    \/ FailWrite \/ WriteTag \/ Reread \/ UpdateRow \/ ClearWritten \/ CannotOpen \/ EndSync

Next ==
    \/ Scanning \/ Rating \/ Crash
    \/ \E f \in Files : Retag(f) \/ Move(f)

Spec == Init /\ [][Next]_vars

\* The event loop and the threads run; the user, other programs and failures need not.
GuiStep ==
    \/ \E schedule \in BOOLEAN : EndEdit(schedule)
    \/ HandlePump \/ IngestPlaceholders \/ IngestBatch \/ MarkMissing \/ HandleFinished
    \/ HandleScheduled \/ HandleRerun \/ HandleSynced

PipeStep(p) ==
    \/ p = "scan" /\ (Partition \/ \E f \in Files : Enumerate(f))
    \/ \E f \in Files : OpenFile(p, f)
    \/ \E o \in pipe[p].opened : ReadFile(p, o)
    \/ EndPipe(p)

SyncStep == \/ \E u \in sync.todo : SyncNext(u)
            \/ FailWrite \/ WriteTag \/ Reread \/ UpdateRow \/ ClearWritten \/ EndSync

FairSpec ==
    /\ Spec
    /\ WF_vars(GuiStep) /\ WF_vars(SyncStep)
    /\ \A p \in Pipelines : WF_vars(PipeStep(p))

----------------------------------------------------------------------------
(* What the library promises. *)

Editing(f) == gui.at # "idle" /\ gui.now.file = f

\* A rating the user gave is on the list of pending writes until it was written into the
\* file and read back there, whatever edits, failures and other syncs come between the
\* writer's steps.  It is lost only if its edit ended after the first statement, by a crash or
\* by a failure of the second that applyTrackRating() ignores, and until the next whole edit.
UnwrittenIsPending ==
    \A f \in Files :
        \/ user[f] = Unset \/ f \in torn \/ Editing(f)
        \/ pending[f] = user[f] \/ written[f] = user[f]

\* What is pending is what the user wants now: a failure recorded late, for a rating that
\* was replaced or cleared while it was being written, does not bring it back.  Again an edit
\* that ended after its first statement, which leaves the older pending write, is excepted.
PendingIsUsers ==
    \A f \in Files :
        \/ pending[f] = Unset \/ f \in torn \/ Editing(f)
        \/ pending[f] = user[f]

\* A row the next scan would leave alone has the rating the file has: a change of the file
\* while a scan, or the writer's second reading, is in the middle of it is never hidden
\* behind the new mtime.  What hides it is a write that left the file a stamp it had, in the
\* same second and of the same size, and only until the next write.
FreshRowIsTrue ==
    \A f \in Files :
        row[f].kind = "scanned" /\ ~row[f].error /\ disk[f].there /\ row[f].stamp = disk[f].stamp
            => row[f].rating = disk[f].rating \/ past[f].alike

\* "A write that finishes after a newer edit cannot [...] overwrite its UI value"
\* (docs/data-safety.md): a rating that is pending stays in its queue row, whatever the writer
\* reports of older ones, until an edit of it or a new reading of the file.
EditStaysShown ==
    [][\A f \in Files : \A r \in Ratings :
           /\ Free /\ user[f] = r /\ pending[f] = r /\ queued[f].shown = r
           /\ queued'[f].shown # r
           => mail # <<>> /\ Head(mail).type = "batch"]_vars

\* A track is marked missing only by a scan during which its file was gone for a moment:
\* not by a cancelled scan, nor by one that could not read a directory.
MissingWasGone ==
    [][\A f \in Files : ~row[f].missing /\ row'[f].missing => f \in gone]_vars

\* A rating given in the window is tried: its pending write does not wait for another edit
\* when the writer was busy, or just ending, as it came.
EditIsAttempted ==
    \A f \in Files :
        syncPending /\ f \in waiting
            ~> \/ f \notin waiting \/ row[f].kind = "none" \/ used.crash = 1
               \/ [file |-> f, rating |-> pending[f]] \in sync.todo \union {sync.now}

\* Every placeholder is read in the end, whatever scans cancel the fill under way.
PlaceholderIsRead ==
    \A f \in Files : row[f].kind = "placeholder" /\ ~row[f].missing
                          ~> row[f].kind # "placeholder" \/ row[f].missing

\* What the comment on existing placeholders in ScanPipeline::runScan() says, that the fill
\* reads them: a complete scan that found a file again whose row is marked missing reports it.
FoundIsReported ==
    [][\A t \in pipe["scan"].found :
           /\ pipe["scan"].phase = "reading" /\ pipe'["scan"].phase = "ended"
           /\ ~pipe["scan"].cancelled /\ row[t.file].missing
           => \E i \in DOMAIN mail' : /\ mail'[i].type = "batch"
                                      /\ \E read \in mail'[i].tracks : read.file = t.file]_vars

=============================================================================
