--------------------------- MODULE Library_proofs ---------------------------
(***************************************************************************)
(* Proofs about Library, for any set of files and ratings, any size of a   *)
(* batch and any bounds.                                                   *)
(***************************************************************************)
EXTENDS Library, TLAPS

----------------------------------------------------------------------------
(* The types of what the actions are built from. *)

LEMMA Blank ==
    /\ NoUpdate \in Update /\ NoEdit \in Edit /\ NoRow \in Row
    /\ NoPipe \in Pipe /\ NoSync \in Sync
    /\ Unset \in MaybeRating /\ Ratings \subseteq MaybeRating
    /\ 0 \in Stamps /\ "scan" \in Pipelines /\ "fill" \in Pipelines
    /\ \A m \in Pipelines : m \in {"scan", "fill"}
<1>1. NoUpdate \in Update /\ 0 \in Stamps /\ Unset \in MaybeRating
  BY LibraryAssumption DEF NoUpdate, Update, MaybeRating, Stamps
<1>2. NoEdit \in Edit
  BY <1>1 DEF NoEdit, Edit
<1>3. NoRow \in Row
  BY <1>1 DEF NoRow, Row
<1>4. NoPipe \in Pipe
  BY DEF NoPipe, Pipe
<1>5. NoSync \in Sync
  BY <1>1 DEF NoSync, Sync
<1> QED
  BY <1>1, <1>2, <1>3, <1>4, <1>5 DEF MaybeRating, Pipelines

LEMMA Posted ==
    ASSUME mail \in Seq(Messages)
    PROVE  /\ \A m \in Messages : Append(mail, m) \in Seq(Messages)
           /\ mail # <<>> => Head(mail) \in Messages /\ Tail(mail) \in Seq(Messages)
                             /\ \A m \in Messages : Append(Tail(mail), m) \in Seq(Messages)
OBVIOUS

\* What a message of each type carries.
LEMMA Contents ==
    /\ \A t \in {"pump", "scheduled", "rerun"} : [type |-> t] \in Messages
    /\ \A T \in SUBSET Found : [type |-> "placeholders", tracks |-> T] \in Messages
    /\ \A T \in SUBSET Track : [type |-> "batch", tracks |-> T] \in Messages
    /\ \A T \in SUBSET Files : [type |-> "missing", files |-> T] \in Messages
    /\ \A p \in Pipelines : [type |-> "finished", of |-> p] \in Messages
    /\ \A T \in SUBSET Update : [type |-> "synced", updates |-> T] \in Messages
    /\ \A m \in Messages :
           /\ m.type = "placeholders" => m.tracks \in SUBSET Found
           /\ m.type = "batch" => m.tracks \in SUBSET Track
           /\ m.type = "missing" => m.files \in SUBSET Files
           /\ m.type = "finished" => m.of \in Pipelines
           /\ m.type = "synced" => m.updates \in SUBSET Update
BY DEF Messages

\* A pipeline with a field changed.
LEMMA PipeWith ==
    ASSUME NEW p \in Pipe
    PROVE  /\ \A x \in BOOLEAN : [p EXCEPT !.cancelled = x] \in Pipe
           /\ \A x \in SUBSET Files : [p EXCEPT !.phase = "reading", !.left = x] \in Pipe
           /\ \A x \in SUBSET Files, y \in SUBSET Found :
                  [p EXCEPT !.left = x, !.found = y] \in Pipe
           /\ \A x \in SUBSET Files : [p EXCEPT !.left = x, !.incomplete = TRUE] \in Pipe
           /\ \A x \in SUBSET Files, y \in SUBSET Found :
                  [p EXCEPT !.left = x, !.opened = y] \in Pipe
           /\ \A x \in SUBSET Found, y \in SUBSET Track :
                  [p EXCEPT !.opened = x, !.batch = y] \in Pipe
<1>1. /\ \A x \in BOOLEAN : [p EXCEPT !.cancelled = x] \in Pipe
      /\ \A x \in SUBSET Files : [p EXCEPT !.phase = "reading", !.left = x] \in Pipe
  BY Zenon DEF Pipe
<1>2. /\ \A x \in SUBSET Files, y \in SUBSET Found :
             [p EXCEPT !.left = x, !.found = y] \in Pipe
      /\ \A x \in SUBSET Files : [p EXCEPT !.left = x, !.incomplete = TRUE] \in Pipe
  BY Zenon DEF Pipe
<1>3. /\ \A x \in SUBSET Files, y \in SUBSET Found :
             [p EXCEPT !.left = x, !.opened = y] \in Pipe
      /\ \A x \in SUBSET Found, y \in SUBSET Track :
             [p EXCEPT !.opened = x, !.batch = y] \in Pipe
  BY Zenon DEF Pipe
<1> QED
  BY <1>1, <1>2, <1>3, Zenon

LEMMA PipeFields ==
    ASSUME NEW p \in Pipe
    PROVE  /\ p.left \in SUBSET Files /\ p.found \in SUBSET Found
           /\ p.opened \in SUBSET Found /\ p.batch \in SUBSET Track
           /\ p.prints \in SUBSET Fingerprint /\ p.cancelled \in BOOLEAN
           /\ p.incomplete \in BOOLEAN
BY DEF Pipe

LEMMA FreshPipes ==
    /\ \A c \in SUBSET Files : [NoPipe EXCEPT !.phase = "reading", !.left = c] \in Pipe
    /\ [NoPipe EXCEPT !.phase = "ended"] \in Pipe
    /\ \A force \in BOOLEAN, P \in SUBSET Fingerprint :
         [NoPipe EXCEPT !.phase = "enumerating", !.force = force, !.prints = P,
                        !.left = Files] \in Pipe
<1>1. \A p \in Pipe : [p EXCEPT !.phase = "ended"] \in Pipe
  BY Zenon DEF Pipe
<1>2. \A p \in Pipe, force \in BOOLEAN, P \in SUBSET Fingerprint :
         [p EXCEPT !.phase = "enumerating", !.force = force, !.prints = P,
                   !.left = Files] \in Pipe
  BY Zenon DEF Pipe
<1> QED
  BY <1>1, <1>2, Blank, PipeWith, Zenon

LEMMA SetPipe ==
    ASSUME pipe \in [Pipelines -> Pipe], NEW p \in Pipelines, NEW q \in Pipe,
           pipe' = [pipe EXCEPT ![p] = q]
    PROVE  pipe' \in [Pipelines -> Pipe]
OBVIOUS

LEMMA EndedPipe ==
    ASSUME pipe \in [Pipelines -> Pipe], NEW p \in Pipelines,
           pipe' = [pipe EXCEPT ![p] = [NoPipe EXCEPT !.phase = "ended"]]
    PROVE  pipe' \in [Pipelines -> Pipe]
BY FreshPipes, SetPipe, Zenon

LEMMA PumpType ==
    ASSUME NEW pipes \in [Pipelines -> Pipe], NEW rows, Pump(pipes, rows)
    PROVE  pipe' \in [Pipelines -> Pipe]
<1>1. CASE pipe' = pipes
  BY <1>1
<1>2. CASE \E chunk \in SUBSET Backlog(rows) :
              pipe' = [pipes EXCEPT !["fill"] =
                          [NoPipe EXCEPT !.phase = "reading", !.left = chunk]]
  <2>1. PICK chunk \in SUBSET Files :
           pipe' = [pipes EXCEPT !["fill"] =
                        [NoPipe EXCEPT !.phase = "reading", !.left = chunk]]
    BY <1>2, Zenon DEF Backlog
  <2> DEFINE filling == [NoPipe EXCEPT !.phase = "reading", !.left = chunk]
  <2>2. filling \in Pipe
    BY FreshPipes, Zenon
  <2>3. pipe' = [pipes EXCEPT !["fill"] = filling]
    BY <2>1, Zenon
  <2> HIDE DEF filling
  <2> QED
    BY <2>2, <2>3
<1> QED
  BY <1>1, <1>2, Zenon DEF Pump

LEMMA UsedType ==
    ASSUME used \in Used
    PROVE  /\ Use("change", MaxChanges) => used' \in Used
           /\ Use("scan", MaxScans) => used' \in Used
           /\ Use("edit", MaxEdits) => used' \in Used
           /\ Use("fault", MaxFaults) => used' \in Used
           /\ Use("crash", 1) => used' \in Used
BY LibraryAssumption DEF Used, Use

\* The writer's state with a field changed.
LEMMA SyncWith ==
    ASSUME sync \in Sync
    PROVE  /\ \A x \in SUBSET Wanted, u \in Update, at \in {"next", "write"} :
                  [sync EXCEPT !.todo = x, !.now = u, !.read = Unset, !.at = at] \in Sync
           /\ \A at \in {"next", "reread"} : [sync EXCEPT !.at = at] \in Sync
           /\ \A x \in Stamps : [sync EXCEPT !.at = "update", !.stamp = x] \in Sync
           /\ \A x \in MaybeRating : [sync EXCEPT !.at = "clear", !.read = x] \in Sync
           /\ \A x \in SUBSET Update : [sync EXCEPT !.at = "next", !.updates = x] \in Sync
           /\ [NoSync EXCEPT !.at = "ended"] \in Sync
           /\ \A b \in BOOLEAN, x \in SUBSET Wanted :
                  [NoSync EXCEPT !.at = "next", !.saved = b, !.todo = x] \in Sync
<1>1. Unset \in MaybeRating /\ NoSync \in Sync
  BY Blank
<1>2. \A x \in SUBSET Wanted, u \in Update, at \in {"next", "write"} :
          [sync EXCEPT !.todo = x, !.now = u, !.read = Unset, !.at = at] \in Sync
  BY <1>1, Zenon DEF Sync
<1>3. /\ \A at \in {"next", "reread"} : [sync EXCEPT !.at = at] \in Sync
      /\ \A x \in Stamps : [sync EXCEPT !.at = "update", !.stamp = x] \in Sync
  BY Zenon DEF Sync
<1>4. /\ \A x \in MaybeRating : [sync EXCEPT !.at = "clear", !.read = x] \in Sync
      /\ \A x \in SUBSET Update : [sync EXCEPT !.at = "next", !.updates = x] \in Sync
  BY Zenon DEF Sync
<1>5. /\ \A s \in Sync : [s EXCEPT !.at = "ended"] \in Sync
      /\ \A s \in Sync, b \in BOOLEAN, x \in SUBSET Wanted :
             [s EXCEPT !.at = "next", !.saved = b, !.todo = x] \in Sync
  BY Zenon DEF Sync
<1> QED
  BY <1>1, <1>2, <1>3, <1>4, <1>5, Zenon

LEMMA SyncFields ==
    ASSUME sync \in Sync
    PROVE  /\ sync.todo \in SUBSET Wanted /\ sync.now \in Update /\ sync.saved \in BOOLEAN
           /\ sync.stamp \in Stamps /\ sync.read \in MaybeRating
           /\ sync.updates \in SUBSET Update
           /\ sync.now.file \in Files /\ sync.now.rating \in MaybeRating
BY DEF Sync, Update

\* A request names rated tracks only.
LEMMA Requests ==
    ASSUME user \in [Files -> MaybeRating]
    PROVE  /\ SavedRatings \in SUBSET Wanted /\ PendingWrites \in SUBSET Wanted
           /\ \A files : OfArtist(files) \in SUBSET Wanted
BY DEF SavedRatings, PendingWrites, OfArtist, Effective, Update, Wanted, MaybeRating

\* So does the current track's, and what a sync asked for does is to start the writer, or to
\* have it run again.
LEMMA MenuStarts ==
    ASSUME TypeOK, SyncFromMenu
    PROVE  \E todo \in SUBSET Wanted, saved \in BOOLEAN : StartSync(todo, saved, syncPending)
<1>1. /\ SavedRatings \in SUBSET Wanted /\ PendingWrites \in SUBSET Wanted
      /\ \A files : OfArtist(files) \in SUBSET Wanted
  BY Requests DEF TypeOK
<1>2. \A f \in Files : queued[f].shown # Unset
          => {[file |-> f, rating |-> queued[f].shown]} \in SUBSET Wanted
  BY DEF TypeOK, QueueRow, Wanted, MaybeRating
<1> QED
  BY <1>1, <1>2, Zenon DEF SyncFromMenu

LEMMA StartSyncType ==
    ASSUME sync \in Sync, NEW todo \in SUBSET Wanted, NEW saved \in BOOLEAN,
           NEW flag \in BOOLEAN, StartSync(todo, saved, flag)
    PROVE  sync' \in Sync /\ syncPending' \in BOOLEAN
<1>1. syncPending' \in BOOLEAN
  BY Zenon DEF StartSync
<1>2. sync' \in Sync
  BY SyncWith, Zenon DEF StartSync
<1> QED
  BY <1>1, <1>2

\* What a write does to the file, its stamp, and what is known of its stamps.
LEMMA WriteKeeps ==
    ASSUME disk \in [Files -> Disk], past \in [Files -> Past],
           NEW f \in Files, NEW r \in MaybeRating, Write(f, r)
    PROVE  /\ disk' \in [Files -> Disk] /\ past' \in [Files -> Past]
           /\ \A g \in Files :
                 /\ disk'[g].there = disk[g].there
                 /\ \/ disk'[g].stamp > past[g].newest /\ past'[g].newest = disk'[g].stamp
                    \/ /\ past'[g].alike /\ past'[g].newest = past[g].newest
                       /\ disk'[g].stamp <= past[g].newest /\ disk'[g].stamp >= 1
                    \/ disk'[g] = disk[g] /\ past'[g] = past[g]
<1>1. PICK s \in Stamps \ {0} :
         /\ disk' = [disk EXCEPT ![f].rating = r, ![f].stamp = s]
         /\ past' = [past EXCEPT ![f] = [newest |-> IF s > @.newest THEN s ELSE @.newest,
                                         alike |-> s <= @.newest]]
  BY DEF Write
<1>2. Stamps \subseteq Nat /\ s >= 1
  BY LibraryAssumption DEF Stamps
<1>3. /\ disk' \in [Files -> Disk] /\ disk'[f].stamp = s /\ disk'[f].there = disk[f].there
      /\ \A g \in Files \ {f} : disk'[g] = disk[g]
  BY <1>1 DEF Disk
<1>4. past[f].newest \in Stamps
  BY DEF Past
<1>5. s <= past[f].newest \/ s > past[f].newest
  <2>1. past[f].newest \in Nat /\ s \in Nat
    BY <1>2, <1>4, Zenon
  <2> QED
    BY <2>1
<1>6. /\ past'[f].newest = IF s > past[f].newest THEN s ELSE past[f].newest
      /\ past'[f].alike = (s <= past[f].newest)
      /\ \A g \in Files \ {f} : past'[g] = past[g]
  BY <1>1
<1>7. past' \in [Files -> Past]
  BY <1>1, <1>4 DEF Past
<1> QED
  BY <1>2, <1>3, <1>4, <1>5, <1>6, <1>7

LEMMA RowWith ==
    ASSUME row \in [Files -> Row], NEW f \in Files, NEW r \in MaybeRating, NEW x \in Stamps
    PROVE  [row EXCEPT ![f].rating = r, ![f].stamp = x] \in [Files -> Row]
BY DEF Row

----------------------------------------------------------------------------
(* Every variable keeps its type. *)

LEMMA InitType == Init => TypeOK
<1> SUFFICES ASSUME Init PROVE TypeOK
  OBVIOUS
<1>1. /\ disk \in [Files -> Disk] /\ user = [f \in Files |-> Unset] /\ pending = user
      /\ waiting = {} /\ queued = [f \in Files |-> Loaded(f)] /\ gui = NoEdit
      /\ mail = <<[type |-> "pump"]>> /\ pipe = [p \in Pipelines |-> NoPipe]
      /\ sync = NoSync /\ syncPending = FALSE /\ gone = {} /\ written = user /\ torn = {}
      /\ past = [f \in Files |-> [newest |-> 1, alike |-> FALSE]]
      /\ used = [b \in {"change", "scan", "edit", "fault", "crash"} |-> 0]
  BY Zenon DEF Init
<1>2. row \in [Files -> Row]
  <2>1. PICK known \in {{}, Present} : row = [f \in Files |->
           IF f \in known THEN [NoRow EXCEPT !.kind = "scanned", !.stamp = 1,
                                             !.rating = disk[f].rating]
           ELSE NoRow]
    BY Zenon DEF Init
  <2>2. \A x \in Row, r \in MaybeRating :
           [x EXCEPT !.kind = "scanned", !.stamp = 1, !.rating = r] \in Row
    <3>1. 1 \in Stamps
      BY LibraryAssumption DEF Stamps
    <3> QED
      BY <3>1, Zenon DEF Row
  <2>3. \A f \in Files : disk[f].rating \in MaybeRating
    BY <1>1 DEF Disk
  <2> DEFINE seen(f) == [NoRow EXCEPT !.kind = "scanned", !.stamp = 1,
                                        !.rating = disk[f].rating]
  <2>4. \A f \in Files : seen(f) \in Row
    BY <2>2, <2>3, Blank, Zenon
  <2>5. row = [f \in Files |-> IF f \in known THEN seen(f) ELSE NoRow]
    BY <2>1, Zenon
  <2> HIDE DEF seen
  <2> QED
    BY <2>4, <2>5, Blank
<1>3. mail \in Seq(Messages)
  BY <1>1, Contents
<1>4. used \in Used
  BY <1>1, LibraryAssumption DEF Used
<1>6. past \in [Files -> Past]
  <2>1. 1 \in Stamps
    BY LibraryAssumption DEF Stamps
  <2> QED
    BY <1>1, <2>1 DEF Past
<1>5. queued \in [Files -> QueueRow]
  <2>1. \A f \in Files : Loaded(f) \in QueueRow
    BY <1>1, <1>2, Blank DEF Loaded, Effective, QueueRow, Row
  <2> QED
    BY <1>1, <2>1
<1> QED
  BY <1>1, <1>2, <1>3, <1>4, <1>5, <1>6, Blank DEF TypeOK

LEMMA TypeStep == TypeOK /\ [Next]_vars => TypeOK'
<1> SUFFICES ASSUME TypeOK, [Next]_vars PROVE TypeOK'
  OBVIOUS
<1> USE Blank DEF TypeOK, tables, history
<1>1. ASSUME NEW force \in BOOLEAN, StartScan(force) PROVE TypeOK'
  <2> DEFINE first == [NoPipe EXCEPT !.phase = "enumerating", !.force = force,
                                     !.prints = Fingerprints, !.left = Files]
             other == [pipe["fill"] EXCEPT !.cancelled = ~Off("fill")]
  <2>1. first \in Pipe
    <3>1. Fingerprints \in SUBSET Fingerprint
      BY DEF Fingerprints
    <3> QED
      BY <3>1, FreshPipes, Zenon
  <2>2. other \in Pipe
    BY PipeWith, Zenon DEF Off
  <2>3. pipe' = [pipe EXCEPT !["scan"] = first, !["fill"] = other]
    BY <1>1, Zenon DEF StartScan
  <2>4. used' \in Used
    BY <1>1, UsedType DEF StartScan
  <2> HIDE DEF first, other
  <2>5. pipe' \in [Pipelines -> Pipe]
    BY <2>1, <2>2, <2>3
  <2> QED
    BY <1>1, <2>4, <2>5 DEF StartScan
<1>2. CASE AbortScan
  <2>1. pipe' \in [Pipelines -> Pipe] /\ used' \in Used
    BY <1>2, PumpType, UsedType DEF AbortScan
  <2> QED
    BY <1>2, <2>1 DEF AbortScan
<1>3. CASE CancelScan
  <2>1. [pipe["scan"] EXCEPT !.cancelled = TRUE] \in Pipe
    BY PipeWith, Zenon
  <2>2. pipe' = [pipe EXCEPT !["scan"] = [pipe["scan"] EXCEPT !.cancelled = TRUE]]
    BY <1>3, Zenon DEF CancelScan
  <2> QED
    BY <1>3, <2>1, <2>2 DEF CancelScan
<1>4. CASE HandlePump
  <2>1. pipe' \in [Pipelines -> Pipe] /\ mail' \in Seq(Messages)
    BY <1>4, PumpType, Posted DEF HandlePump, Arrives
  <2> QED
    BY <1>4, <2>1 DEF HandlePump
<1>5. CASE IngestPlaceholders
  <2>1. mail' \in Seq(Messages) /\ used' \in Used /\ Head(mail).tracks \in SUBSET Found
    BY <1>5, Posted, Contents, UsedType DEF IngestPlaceholders, Arrives
  <2>2. row' \in [Files -> Row]
    <3> DEFINE stamp(f) == (CHOOSE t \in Head(mail).tracks : t.file = f).stamp
    <3>1. CASE UNCHANGED row
      BY <3>1
    <3>2. CASE row' = [f \in Files |-> IF \E t \in Head(mail).tracks : t.file = f
                                       THEN Placeholder(f, stamp(f)) ELSE row[f]]
      <4>1. \A f \in Files : (\E t \in Head(mail).tracks : t.file = f)
                                => stamp(f) \in Stamps
        BY <2>1 DEF Found
      <4>2. \A f \in Files, x \in Stamps : Placeholder(f, x) \in Row
        BY DEF Placeholder, Row, NoRow
      <4> QED
        BY <3>2, <4>1, <4>2
    <3> QED
      BY <1>5, <3>1, <3>2 DEF IngestPlaceholders
  <2> QED
    BY <1>5, <2>1, <2>2 DEF IngestPlaceholders
<1>6. CASE IngestBatch
  <2>1. mail' \in Seq(Messages) /\ used' \in Used /\ Head(mail).tracks \in SUBSET Track
    BY <1>6, Posted, Contents, UsedType DEF IngestBatch, Arrives
  <2>2. row' \in [Files -> Row] /\ queued' \in [Files -> QueueRow]
    <3> DEFINE of(f) == CHOOSE t \in Head(mail).tracks : t.file = f
               in == {t.file : t \in Head(mail).tracks}
    <3>1. CASE UNCHANGED <<row, queued>>
      BY <3>1
    <3>2. CASE /\ row' = [f \in Files |-> IF f \in in THEN Scanned(of(f)) ELSE row[f]]
               /\ queued' = [f \in Files |-> IF f \in in THEN Patched(of(f)) ELSE queued[f]]
      <4>1. \A f \in in : of(f) \in Track
        BY <2>1
      <4>2. \A t \in Track : Scanned(t) \in Row /\ Patched(t) \in QueueRow
        BY DEF Scanned, Patched, Track, Row, QueueRow
      <4> HIDE DEF of, in
      <4> QED
        BY <3>2, <4>1, <4>2
    <3> QED
      BY <1>6, <3>1, <3>2 DEF IngestBatch
  <2> QED
    BY <1>6, <2>1, <2>2 DEF IngestBatch
<1>7. CASE MarkMissing
  <2>1. mail' \in Seq(Messages) /\ used' \in Used
    BY <1>7, Posted, UsedType DEF MarkMissing, Arrives
  <2>2. \A f \in Files : [row[f] EXCEPT !.missing = TRUE] \in Row
    BY DEF Row
  <2> QED
    BY <1>7, <2>1, <2>2 DEF MarkMissing
<1>8. CASE HandleFinished
  <2>1. mail' \in Seq(Messages) /\ [pipe EXCEPT ![Head(mail).of] = NoPipe] \in [Pipelines -> Pipe]
    BY <1>8, Posted DEF HandleFinished, Arrives
  <2>2. pipe' \in [Pipelines -> Pipe]
    BY <1>8, <2>1, PumpType DEF HandleFinished
  <2> QED
    BY <1>8, <2>1, <2>2 DEF HandleFinished
<1>9. CASE RemoveMissing
  BY <1>9 DEF RemoveMissing
<1>10. CASE Partition
  <2>1. CASE pipe["scan"].cancelled
    <3>1. /\ mail' = Append(mail, [type |-> "finished", of |-> "scan"])
          /\ pipe' = [pipe EXCEPT !["scan"] = [NoPipe EXCEPT !.phase = "ended"]]
      BY <1>10, <2>1, Zenon DEF Partition, Post
    <3>2. mail' \in Seq(Messages) /\ pipe' \in [Pipelines -> Pipe]
      BY <3>1, Posted, Contents, EndedPipe, Zenon
    <3> QED
      BY <1>10, <3>2, Zenon DEF Partition
  <2>2. CASE ~pipe["scan"].cancelled
    <3> DEFINE reading == [pipe["scan"] EXCEPT !.phase = "reading",
                                               !.left = Changed(pipe["scan"])]
    <3>1. /\ Changed(pipe["scan"]) \in SUBSET Files
          /\ NewFiles(pipe["scan"]) \in SUBSET Found
      BY PipeFields DEF Changed, NewFiles, Found
    <3>2. reading \in Pipe
      BY <3>1, PipeWith, Zenon
    <3>3. pipe' = [pipe EXCEPT !["scan"] = reading]
      BY <1>10, <2>2, Zenon DEF Partition
    <3>4. \/ mail' = mail
          \/ mail' = Append(mail, [type |-> "placeholders", tracks |-> NewFiles(pipe["scan"])])
      BY <1>10, <2>2, Zenon DEF Partition, Post
    <3>5. [type |-> "placeholders", tracks |-> NewFiles(pipe["scan"])] \in Messages
      BY <3>1, Contents
    <3>6. mail' \in Seq(Messages)
      BY <3>4, <3>5, Posted, Zenon
    <3> HIDE DEF reading
    <3> QED
      BY <1>10, <3>2, <3>3, <3>6 DEF Partition
  <2> QED
    BY <2>1, <2>2
<1>11. CASE RootUnavailable
  <2>1. mail' \in Seq(Messages) /\ used' \in Used
    BY <1>11, Posted, Contents, UsedType DEF RootUnavailable, Post
  <2>2. pipe' \in [Pipelines -> Pipe]
    BY <1>11, EndedPipe, Zenon DEF RootUnavailable
  <2> QED
    BY <1>11, <2>1, <2>2, Zenon DEF RootUnavailable
<1>12. ASSUME NEW f \in Files, Enumerate(f) PROVE TypeOK'
  <2> DEFINE p == pipe["scan"]
             seen == [p EXCEPT !.left = @ \ {f},
                               !.found = IF disk[f].there
                                         THEN @ \union {[file |-> f, stamp |-> disk[f].stamp]}
                                         ELSE @]
             unread == [p EXCEPT !.left = @ \ {f}, !.incomplete = TRUE]
  <2>1. [file |-> f, stamp |-> disk[f].stamp] \in Found
    BY DEF Found, Disk
  <2>2. seen \in Pipe /\ unread \in Pipe
    <3>1. p \in Pipe /\ p.left \ {f} \in SUBSET Files
      BY PipeFields
    <3>2. (IF disk[f].there THEN p.found \union {[file |-> f, stamp |-> disk[f].stamp]}
           ELSE p.found) \in SUBSET Found
      BY <2>1, PipeFields
    <3> HIDE DEF p
    <3> QED
      BY <3>1, <3>2, PipeWith, Zenon
  <2>3. \/ pipe' = [pipe EXCEPT !["scan"] = seen] /\ UNCHANGED used
        \/ pipe' = [pipe EXCEPT !["scan"] = unread] /\ Use("fault", MaxFaults)
    BY <1>12 DEF Enumerate
  <2>4. used' \in Used
    BY <2>3, UsedType
  <2>5. pipe' \in [Pipelines -> Pipe]
    BY <2>2, <2>3, SetPipe, Zenon
  <2> QED
    BY <1>12, <2>4, <2>5, Zenon DEF Enumerate
<1>13. ASSUME NEW p \in Pipelines, NEW f \in Files, OpenFile(p, f) PROVE TypeOK'
  <2> DEFINE opened == [pipe[p] EXCEPT !.left = @ \ {f},
                  !.opened = @ \union {[file |-> f, stamp |-> StampOf(f)]}]
  <2>1. [file |-> f, stamp |-> StampOf(f)] \in Found
    BY DEF Found, Disk, StampOf
  <2>2. opened \in Pipe
    <3>1. /\ pipe[p] \in Pipe /\ pipe[p].left \ {f} \in SUBSET Files
          /\ pipe[p].opened \union {[file |-> f, stamp |-> StampOf(f)]} \in SUBSET Found
      BY <2>1, PipeFields
    <3> QED
      BY <3>1, PipeWith, Zenon
  <2>3. pipe' = [pipe EXCEPT ![p] = opened]
    BY <1>13 DEF OpenFile
  <2>4. pipe' \in [Pipelines -> Pipe]
    BY <2>2, <2>3, SetPipe, Zenon
  <2> QED
    BY <1>13, <2>4, Zenon DEF OpenFile
<1>14. ASSUME NEW p \in Pipelines, NEW o \in pipe[p].opened, ReadFile(p, o) PROVE TypeOK'
  <2> DEFINE batch == pipe[p].batch \union {Tags(o.file, o.stamp)}
             full == Cardinality(batch) >= BatchSize
             kept == IF full THEN {} ELSE batch
             read == [pipe[p] EXCEPT !.opened = @ \ {o}, !.batch = kept]
  <2>1. o \in Found /\ pipe[p] \in Pipe /\ pipe[p].opened \ {o} \in SUBSET Found
    BY PipeFields
  <2>2. batch \in SUBSET Track
    <3>1. Tags(o.file, o.stamp) \in Track
      BY <2>1 DEF Tags, Found, Track, Disk
    <3> QED
      BY <2>1, <3>1, PipeFields
  <2>3. pipe' = [pipe EXCEPT ![p] = read]
    BY <1>14, Zenon DEF ReadFile
  <2>4. mail' = Append(mail, [type |-> "batch", tracks |-> batch]) \/ mail' = mail
    BY <1>14, Zenon DEF ReadFile, Post
  <2>5. kept \in SUBSET Track
    BY <2>2
  <2> HIDE DEF batch, kept
  <2>6. read \in Pipe
    BY <2>1, <2>5, PipeWith, Zenon
  <2>7. mail' \in Seq(Messages)
    BY <2>2, <2>4, Posted, Contents
  <2> HIDE DEF read
  <2> QED
    BY <1>14, <2>3, <2>6, <2>7 DEF ReadFile
<1>15. ASSUME NEW p \in Pipelines, EndPipe(p) PROVE TypeOK'
  <2> DEFINE rest == IF pipe[p].batch = {} THEN <<>>
                     ELSE <<[type |-> "batch", tracks |-> pipe[p].batch]>>
             missing == IF p = "scan" /\ CompleteScan(pipe[p]) /\ Vanished(pipe[p]) # {}
                        THEN <<[type |-> "missing", files |-> Vanished(pipe[p])]>> ELSE <<>>
             end == <<[type |-> "finished", of |-> p]>>
  <2>1. rest \in Seq(Messages) /\ end \in Seq(Messages)
    BY PipeFields, Contents
  <2>2. missing \in Seq(Messages)
    <3>1. Vanished(pipe[p]) \in SUBSET Files
      BY PipeFields DEF Vanished, Fingerprint
    <3> QED
      BY <3>1, Contents
  <2>3. mail' = mail \o rest \o missing \o end
    BY <1>15, Zenon DEF EndPipe
  <2>4. pipe' = [pipe EXCEPT ![p] = [NoPipe EXCEPT !.phase = "ended"]]
    BY <1>15, Zenon DEF EndPipe
  <2> HIDE DEF rest, missing, end
  <2>5. mail' \in Seq(Messages)
    BY <2>1, <2>2, <2>3
  <2>6. pipe' \in [Pipelines -> Pipe]
    BY <2>4, EndedPipe, Zenon
  <2> QED
    BY <1>15, <2>5, <2>6, Zenon DEF EndPipe
<1>16. ASSUME NEW f \in Files, NEW r \in MaybeRating, BeginEdit(f, r) PROVE TypeOK'
  <2>1. used' \in Used
    BY <1>16, UsedType DEF BeginEdit
  <2>2. gui' \in Edit
    BY <1>16 DEF BeginEdit, Edit, Update
  <2> QED
    BY <1>16, <2>1, <2>2 DEF BeginEdit
<1>17. ASSUME NEW schedule \in BOOLEAN, EndEdit(schedule) PROVE TypeOK'
  <2>1. gui.now.file \in Files /\ gui.now.rating \in MaybeRating
    BY DEF Edit, Update
  <2>2. mail' \in Seq(Messages) /\ syncPending' \in BOOLEAN
    BY <1>17, Posted, Contents DEF EndEdit, Post
  <2>3. queued' \in [Files -> QueueRow]
    <3>1. \A q \in QueueRow, r \in MaybeRating : Rated(q, r) \in QueueRow
      BY DEF Rated, QueueRow
    <3>2. queued' = [queued EXCEPT ![gui.now.file] =
                         Rated(queued[gui.now.file], gui.now.rating)]
      BY <1>17 DEF EndEdit
    <3> QED
      BY <2>1, <3>1, <3>2
  <2>4. /\ pending' \in [Files -> MaybeRating] /\ waiting' \in SUBSET Files
        /\ torn' \in SUBSET Files /\ used' \in Used
    BY <1>17, <2>1, UsedType DEF EndEdit
  <2> QED
    BY <1>17, <2>2, <2>3, <2>4 DEF EndEdit
<1>18. CASE SyncFromMenu
  <2>1. used' \in Used
    BY <1>18, UsedType DEF SyncFromMenu
  <2>2. sync' \in Sync /\ syncPending' \in BOOLEAN
    BY <1>18, MenuStarts, StartSyncType
  <2> QED
    BY <1>18, <2>1, <2>2 DEF SyncFromMenu
<1>19. CASE HandleScheduled
  <2>1. mail' \in Seq(Messages)
    BY <1>19, Posted DEF HandleScheduled, Arrives
  <2>2. sync' \in Sync /\ syncPending' \in BOOLEAN
    BY <1>19, Requests, StartSyncType DEF HandleScheduled
  <2> QED
    BY <1>19, <2>1, <2>2 DEF HandleScheduled
<1>20. CASE HandleRerun
  <2>1. mail' \in Seq(Messages)
    BY <1>20, Posted DEF HandleRerun, Arrives
  <2>2. sync' \in Sync /\ syncPending' \in BOOLEAN
    BY <1>20, Requests, StartSyncType DEF HandleRerun
  <2> QED
    BY <1>20, <2>1, <2>2 DEF HandleRerun
<1>21. CASE HandleSynced
  <2>1. mail' \in Seq(Messages) /\ Head(mail).updates \in SUBSET Update
    BY <1>21, Posted, Contents DEF HandleSynced, Arrives
  <2>2. queued' \in [Files -> QueueRow]
    <3>1. \A f \in Files, r \in MaybeRating : Synced(f, r) \in QueueRow
      <4>1. \A q \in QueueRow, r \in MaybeRating :
                /\ Rated(q, r) \in QueueRow
                /\ [shown |-> r, file |-> r] \in QueueRow
        BY DEF Rated, QueueRow
      <4>2. \A f \in Files : Effective(row[f], user[f], pending[f]) \in MaybeRating
        BY DEF Effective, Row
      <4> QED
        BY <4>1, <4>2, Zenon DEF Synced
    <3> DEFINE updates == {u \in Head(mail).updates : row[u.file].kind # "none"}
               rating(f) == (CHOOSE u \in updates : u.file = f).rating
    <3>2. queued' = [f \in Files |-> IF \E u \in updates : u.file = f
                                     THEN Synced(f, rating(f)) ELSE queued[f]]
      BY <1>21, Zenon DEF HandleSynced
    <3>3. \A f \in Files : (\E u \in updates : u.file = f) => rating(f) \in MaybeRating
      BY <2>1 DEF Update
    <3> HIDE DEF updates, rating
    <3> QED
      BY <3>1, <3>2, <3>3
  <2> QED
    BY <1>21, <2>1, <2>2 DEF HandleSynced
<1>22. ASSUME NEW u \in sync.todo, SyncNext(u) PROVE TypeOK'
  <2>1. u \in Update /\ sync.todo \ {u} \in SUBSET Wanted
    BY SyncFields DEF Wanted, Update
  <2>2. sync' \in Sync
    BY <1>22, <2>1, SyncWith, Zenon DEF SyncNext
  <2> QED
    BY <1>22, <2>2 DEF SyncNext
<1>23. CASE FailWrite
  <2>1. sync' \in Sync
    BY <1>23, SyncWith, Zenon DEF FailWrite
  <2>2. /\ row' = row /\ user' = user /\ pending' \in [Files -> MaybeRating]
        /\ waiting' \in SUBSET Files
    BY <1>23, SyncFields DEF FailWrite, RecordFailure
  <2>3. used' \in Used
    BY <1>23, UsedType DEF FailWrite
  <2>4. disk' \in [Files -> Disk] /\ past' \in [Files -> Past]
    <3>1. UNCHANGED <<disk, past>> \/ Write(sync.now.file, sync.now.rating)
      BY <1>23, Zenon DEF FailWrite
    <3> QED
      BY <3>1, SyncFields, WriteKeeps
  <2> QED
    BY <1>23, <2>1, <2>2, <2>3, <2>4 DEF FailWrite
<1>24. CASE WriteTag
  <2>1. sync' \in Sync
    BY <1>24, SyncWith, Zenon DEF WriteTag
  <2>3. disk' \in [Files -> Disk] /\ past' \in [Files -> Past]
    BY <1>24, SyncFields, WriteKeeps DEF WriteTag
  <2> QED
    BY <1>24, <2>1, <2>3, SyncFields DEF WriteTag
<1>25. CASE Reread
  <2>1. \A f \in Files : StampOf(f) \in Stamps
    BY DEF StampOf, Disk
  <2>2. sync' \in Sync
    BY <1>25, <2>1, SyncFields, SyncWith, Zenon DEF Reread
  <2> QED
    BY <1>25, <2>2 DEF Reread
<1>26. CASE UpdateRow
  <2> DEFINE t == Tags(sync.now.file, sync.stamp)
  <2>1. t \in Track
    BY SyncFields DEF Tags, Track, Disk
  <2>2. used' \in Used
    BY <1>26, UsedType DEF UpdateRow
  <2>3. sync' \in Sync
    <3>1. sync' = [sync EXCEPT !.at = "clear", !.read = t.rating]
          \/ sync' = [sync EXCEPT !.at = "next"]
      BY <1>26, Zenon DEF UpdateRow
    <3>2. t.rating \in MaybeRating
      BY <2>1 DEF Track
    <3> HIDE DEF t
    <3> QED
      BY <3>1, <3>2, SyncWith, Zenon
  <2>4. row' \in [Files -> Row]
    <3>1. row' = row \/ row' = [row EXCEPT ![sync.now.file].rating = t.rating,
                                           ![sync.now.file].stamp = t.stamp]
      BY <1>26, Zenon DEF UpdateRow
    <3>2. t.rating \in MaybeRating /\ t.stamp \in Stamps
      BY <2>1 DEF Track
    <3> HIDE DEF t
    <3>3. CASE row' = row
      BY <3>3
    <3>4. CASE row' = [row EXCEPT ![sync.now.file].rating = t.rating,
                                  ![sync.now.file].stamp = t.stamp]
      <4>1. sync.now.file \in Files
        BY SyncFields
      <4> QED
        BY <3>2, <3>4, <4>1, RowWith, Zenon
    <3> QED
      BY <3>1, <3>3, <3>4, Zenon
  <2> QED
    BY <1>26, <2>2, <2>3, <2>4 DEF UpdateRow
<1>27. CASE ClearWritten
  <2>1. used' \in Used
    BY <1>27, UsedType DEF ClearWritten
  <2>2. sync' \in Sync
    <3>1. sync.updates \union {[file |-> sync.now.file, rating |-> sync.read]} \in SUBSET Update
      BY SyncFields DEF Update
    <3> QED
      BY <1>27, <3>1, SyncWith, Zenon DEF ClearWritten
  <2>3. /\ row' = row /\ user' = user /\ pending' \in [Files -> MaybeRating]
        /\ waiting' \in SUBSET Files
    BY <1>27, SyncFields DEF ClearWritten, ClearPending
  <2> QED
    BY <1>27, <2>1, <2>2, <2>3 DEF ClearWritten
<1>28. CASE CannotOpen
  <2>1. used' \in Used /\ mail' \in Seq(Messages)
    BY <1>28, UsedType, Posted, Contents DEF CannotOpen, Post
  <2>2. sync' \in Sync
    BY <1>28, SyncWith, Zenon DEF CannotOpen
  <2> QED
    BY <1>28, <2>1, <2>2 DEF CannotOpen
<1>29. CASE EndSync
  <2>1. mail' \in Seq(Messages)
    BY <1>29, Posted, Contents, SyncFields DEF EndSync, Post
  <2>2. sync' \in Sync
    BY <1>29, SyncWith, Zenon DEF EndSync
  <2> QED
    BY <1>29, <2>1, <2>2 DEF EndSync
<1>30. CASE Crash
  <2>1. used' \in Used
    BY <1>30, UsedType DEF Crash
  <2>2. mail' \in Seq(Messages)
    BY <1>30, Contents DEF Crash
  <2>3. \A f \in Files : Loaded(f) \in QueueRow
    BY DEF Loaded, Effective, QueueRow, Row
  <2>4. gui.now.file \in Files
    BY DEF Edit, Update
  <2> QED
    BY <1>30, <2>1, <2>2, <2>3, <2>4 DEF Crash
<1>31. ASSUME NEW f \in Files, Retag(f) PROVE TypeOK'
  <2>1. used' \in Used
    BY <1>31, UsedType DEF Retag
  <2>2. disk' \in [Files -> Disk] /\ past' \in [Files -> Past]
    BY <1>31, WriteKeeps DEF Retag
  <2> QED
    BY <1>31, <2>1, <2>2 DEF Retag
<1>32. ASSUME NEW f \in Files, Move(f) PROVE TypeOK'
  <2>1. used' \in Used
    BY <1>32, UsedType DEF Move
  <2> QED
    BY <1>32, <2>1 DEF Move, Disk
<1>33. CASE UNCHANGED vars
  BY <1>33 DEF vars
<1> QED
  BY <1>1, <1>2, <1>3, <1>4, <1>5, <1>6, <1>7, <1>8, <1>9, <1>10, <1>11, <1>12,
      <1>13, <1>14, <1>15, <1>16, <1>17, <1>18, <1>19, <1>20, <1>21, <1>22, <1>23,
      <1>24, <1>25, <1>26, <1>27, <1>28, <1>29, <1>30, <1>31, <1>32, <1>33, Zenon
     DEF Next, Scanning, Rating

\* Every variable of the library keeps its type.
THEOREM TypeCorrect == Spec => []TypeOK
BY InitType, TypeStep, PTL DEF Spec

----------------------------------------------------------------------------
(* Ratings. *)

\* The statement an edit is in the middle of, and what the writer's place implies:
\* what it took up is still wanted or was replaced by a rating that is on the list, and
\* past the write the file has it.
RatingInv ==
    /\ UnwrittenIsPending /\ PendingIsUsers
    /\ gui.at # "idle" => user[gui.now.file] = gui.now.rating
    /\ sync.at = "write" =>
          LET f == sync.now.file
          IN \/ user[f] = Unset \/ user[f] = sync.now.rating
             \/ f \in torn \/ Editing(f) \/ pending[f] = user[f]
    /\ sync.at \in {"reread", "update", "clear"} =>
          written[sync.now.file] = sync.now.rating

LEMMA InitRating == Init => RatingInv
<1> SUFFICES ASSUME Init PROVE RatingInv
  OBVIOUS
<1>1. /\ user = [f \in Files |-> Unset] /\ pending = user /\ written = user /\ torn = {}
      /\ gui = NoEdit /\ sync = NoSync
  BY Zenon DEF Init
<1> QED
  BY <1>1 DEF RatingInv, UnwrittenIsPending, PendingIsUsers, NoEdit, NoSync

\* What the scans and other programs do leaves the ratings of the user alone.
LEMMA RatingsAlone ==
    ASSUME \/ \E force \in BOOLEAN : StartScan(force)
           \/ AbortScan \/ CancelScan \/ HandlePump \/ IngestPlaceholders \/ IngestBatch
           \/ MarkMissing \/ HandleFinished \/ RemoveMissing \/ Partition \/ RootUnavailable
           \/ \E f \in Files : Enumerate(f)
           \/ \E p \in Pipelines :
                  \/ \E f \in Files : OpenFile(p, f)
                  \/ \E o \in pipe[p].opened : ReadFile(p, o)
                  \/ EndPipe(p)
           \/ \E f \in Files : Retag(f) \/ Move(f)
           \/ UNCHANGED vars
    PROVE  UNCHANGED <<user, pending, gui, sync, written, torn>>
BY Zenon DEF StartScan, AbortScan, CancelScan, HandlePump, IngestPlaceholders, IngestBatch,
    MarkMissing, HandleFinished, RemoveMissing, Partition, RootUnavailable, Enumerate,
    OpenFile, ReadFile, EndPipe, Retag, Move, vars, tables, history

LEMMA StartSyncPlace ==
    ASSUME NEW todo, NEW saved, NEW flag, StartSync(todo, saved, flag)
    PROVE  sync' = sync \/ sync'.at = "next"
<1>1. \A s \in Sync : [s EXCEPT !.at = "next", !.saved = saved, !.todo = todo].at = "next"
  BY Zenon DEF Sync
<1> QED
  BY <1>1, Blank, Zenon DEF StartSync

LEMMA RatingStep == TypeOK /\ RatingInv /\ [Next]_vars => RatingInv'
<1> SUFFICES ASSUME TypeOK, RatingInv, [Next]_vars PROVE RatingInv'
  OBVIOUS
<1> USE DEF RatingInv, UnwrittenIsPending, PendingIsUsers, Editing
<1>t. /\ user \in [Files -> MaybeRating] /\ pending \in [Files -> MaybeRating]
      /\ written \in [Files -> MaybeRating] /\ torn \subseteq Files
      /\ sync.now.file \in Files /\ gui.now.file \in Files
  BY SyncFields DEF TypeOK, Edit, Update
<1>1. CASE UNCHANGED <<user, pending, gui, sync, written, torn>>
  BY <1>1
<1>2. ASSUME NEW f \in Files, NEW r \in MaybeRating, BeginEdit(f, r) PROVE RatingInv'
  <2>1. /\ user' = [user EXCEPT ![f] = r] /\ gui'.at # "idle"
        /\ gui'.now.file = f /\ gui'.now.rating = r
        /\ UNCHANGED <<pending, sync, written, torn>>
    BY <1>2 DEF BeginEdit
  <2> QED
    BY <1>2, <1>t, <2>1 DEF BeginEdit, Free
<1>3. ASSUME NEW schedule \in BOOLEAN, EndEdit(schedule) PROVE RatingInv'
  <2>1. gui'.at = "idle" /\ gui.at # "idle" /\ UNCHANGED <<user, sync, written>>
    BY <1>3 DEF EndEdit, NoEdit, Free
  <2>2. CASE /\ pending' = [pending EXCEPT ![gui.now.file] = gui.now.rating]
             /\ torn' = torn \ {gui.now.file}
    BY <1>t, <2>1, <2>2
  <2>3. CASE torn' = torn \union {gui.now.file} /\ UNCHANGED pending
    BY <1>t, <2>1, <2>3
  <2> QED
    BY <1>3, <2>2, <2>3, Zenon DEF EndEdit
<1>4. CASE \/ HandleScheduled \/ HandleRerun \/ HandleSynced \/ CannotOpen \/ EndSync
           \/ SyncFromMenu
  <2>1. UNCHANGED <<user, pending, gui, written, torn>>
    BY <1>4, Zenon DEF HandleScheduled, HandleRerun, HandleSynced, CannotOpen, EndSync,
        SyncFromMenu, tables, history
  <2>2. sync' = sync \/ sync'.at \in {"off", "next", "ended"}
    <3>1. CASE HandleSynced
      BY <3>1 DEF HandleSynced, NoSync
    <3>2. CASE CannotOpen \/ EndSync
      BY <3>2 DEF CannotOpen, EndSync, NoSync
    <3>3. CASE HandleScheduled \/ HandleRerun \/ SyncFromMenu
      <4>1. \A todo, saved, flag : StartSync(todo, saved, flag)
                                      => sync' = sync \/ sync'.at = "next"
        BY StartSyncPlace, Zenon
      <4> QED
        BY <3>3, <4>1, MenuStarts, Zenon DEF HandleScheduled, HandleRerun
    <3> QED
      BY <1>4, <3>1, <3>2, <3>3
  <2> QED
    BY <2>1, <2>2
<1>5. ASSUME NEW u \in sync.todo, SyncNext(u) PROVE RatingInv'
  <2>1. /\ UNCHANGED <<user, pending, gui, written, torn>>
        /\ sync'.now = u /\ sync'.at = IF Skips(u) THEN "next" ELSE "write"
    BY <1>5 DEF SyncNext, TypeOK, Sync, tables, history
  <2>2. ~Skips(u) => user[u.file] \in {Unset, u.rating}
    BY DEF Skips
  <2> QED
    BY <2>1, <2>2
<1>6. CASE FailWrite
  <2>1. sync'.at = "next" /\ UNCHANGED <<user, gui, written, torn>>
    BY <1>6 DEF FailWrite, RecordFailure, TypeOK, Sync, tables
  <2>2. \A f \in Files : pending'[f] = pending[f] \/ pending'[f] = user[f]
    BY <1>6, <1>t DEF FailWrite, RecordFailure, tables
  <2> QED
    BY <2>1, <2>2
<1>7. CASE WriteTag
  <2>1. /\ sync.at = "write" /\ UNCHANGED <<user, pending, gui, torn>>
        /\ written' = [written EXCEPT ![sync.now.file] = sync.now.rating]
        /\ sync'.at = "reread" /\ sync'.now = sync.now
    BY <1>7 DEF WriteTag, TypeOK, Sync, tables
  <2> QED
    BY <1>t, <2>1
<1>8. CASE Reread \/ UpdateRow
  <2>1. UNCHANGED <<user, pending, gui, written, torn>>
    BY <1>8, Zenon DEF Reread, UpdateRow, tables, history
  <2>2. /\ sync'.now = sync.now /\ sync'.at \in {"next", "update", "clear"}
        /\ sync.at \in {"reread", "update"}
    BY <1>8 DEF Reread, UpdateRow, TypeOK, Sync
  <2> QED
    BY <2>1, <2>2
<1>9. CASE ClearWritten
  <2>1. /\ sync.at = "clear" /\ sync'.at = "next"
        /\ UNCHANGED <<user, gui, written, torn>>
    BY <1>9 DEF ClearWritten, ClearPending, TypeOK, Sync, tables, history
  <2>2. CASE UNCHANGED pending
    BY <2>1, <2>2
  <2>3. CASE /\ pending[sync.now.file] = sync.now.rating
             /\ pending' = [pending EXCEPT ![sync.now.file] = Unset]
    BY <1>t, <2>1, <2>3
  <2> QED
    BY <1>9, <2>2, <2>3 DEF ClearWritten, ClearPending, tables
<1>10. CASE Crash
  <2>1. /\ UNCHANGED <<user, pending, written>> /\ gui'.at = "idle" /\ sync'.at = "off"
        /\ torn' = IF Free THEN torn ELSE torn \union {gui.now.file}
    BY <1>10 DEF Crash, NoEdit, NoSync, tables
  <2> QED
    BY <2>1 DEF Free
<1> QED
  BY <1>1, <1>2, <1>3, <1>4, <1>5, <1>6, <1>7, <1>8, <1>9, <1>10, RatingsAlone, Zenon
     DEF Next, Scanning, Rating

THEOREM RatingInvariance == Spec => []RatingInv
BY InitType, TypeStep, InitRating, RatingStep, PTL DEF Spec

\* THEOREM: a rating the user gave is on the list of pending writes until it was written and
\* verified, whatever the writer is in the middle of; but not one whose edit ended after its
\* first statement, by a crash or an ignored failure, and until the next whole edit.
THEOREM NoRatingIsLost == Spec => []UnwrittenIsPending
BY RatingInvariance, PTL DEF RatingInv

\* THEOREM: what is pending is what the user wants now, however late a failure is recorded;
\* the older pending write that an edit ended after its first statement leaves is excepted.
THEOREM NoStaleWrite == Spec => []PendingIsUsers
BY RatingInvariance, PTL DEF RatingInv

----------------------------------------------------------------------------
(* Rows and files. *)

\* A rating read with a stamp: the stamp is another content's, or it may be two contents', or
\* the rating is the file's.
Honest(f, stamp, rating) ==
    /\ stamp <= past[f].newest
    /\ stamp = disk[f].stamp => rating = disk[f].rating \/ past[f].alike
HonestTrack(t) == t.error \/ Honest(t.file, t.stamp, t.rating)
HonestPipe(p) ==
    /\ \A o \in p.opened : o.stamp <= past[o.file].newest
    /\ \A t \in p.batch : HonestTrack(t)
HonestMail(s) ==
    \A i \in 1 .. Len(s) : s[i].type = "batch" => \A t \in s[i].tracks : HonestTrack(t)

\* What is read travels from a pipeline through its batch and the mail to the row.
FreshInv ==
    /\ \A f \in Files :
          /\ disk[f].stamp >= 1 /\ disk[f].stamp <= past[f].newest
          /\ row[f].kind = "scanned" /\ ~row[f].error =>
                Honest(f, row[f].stamp, row[f].rating)
    /\ \A p \in Pipelines : HonestPipe(pipe[p])
    /\ HonestMail(mail)
    /\ sync.at = "update" => sync.stamp <= past[sync.now.file].newest

LEMMA FreshSuffices ==
    ASSUME FreshInv, UNCHANGED <<disk, past>>,
           \A f \in Files : row'[f].kind = "scanned" /\ ~row'[f].error =>
               Honest(f, row'[f].stamp, row'[f].rating),
           \A p \in Pipelines : HonestPipe(pipe'[p]),
           HonestMail(mail'),
           sync'.at = "update" => sync'.stamp <= past[sync'.now.file].newest
    PROVE  FreshInv'
BY DEF FreshInv, Honest, HonestTrack, HonestPipe, HonestMail

\* A new stamp makes what was read before older, whatever it was, and a stamp that is not new
\* excuses it.
LEMMA FreshOnChange ==
    ASSUME TypeOK, TypeOK', FreshInv, UNCHANGED <<row, pipe, mail>>,
           sync' = sync \/ sync'.at # "update",
           \A f \in Files :
               \/ disk'[f].stamp > past[f].newest /\ past'[f].newest = disk'[f].stamp
               \/ /\ past'[f].alike /\ past'[f].newest = past[f].newest
                  /\ disk'[f].stamp <= past[f].newest /\ disk'[f].stamp >= 1
               \/ /\ disk'[f].stamp = disk[f].stamp /\ disk'[f].rating = disk[f].rating
                  /\ past'[f] = past[f]
    PROVE  FreshInv'
<1>1. \A f \in Files : /\ disk[f].stamp \in Int /\ disk'[f].stamp \in Int
                       /\ past[f].newest \in Int /\ past'[f].newest \in Int
  BY LibraryAssumption DEF TypeOK, Disk, Past, Stamps
<1>2. \A f \in Files : past'[f].newest >= past[f].newest
                       /\ disk'[f].stamp >= 1 /\ disk'[f].stamp <= past'[f].newest
  <2> SUFFICES ASSUME NEW f \in Files
               PROVE  past'[f].newest >= past[f].newest
                      /\ disk'[f].stamp >= 1 /\ disk'[f].stamp <= past'[f].newest
    OBVIOUS
  <2>1. disk[f].stamp >= 1 /\ disk[f].stamp <= past[f].newest
    BY DEF FreshInv
  <2> QED
    BY <1>1, <2>1
<1>3. \A f \in Files, s \in Stamps : \A r : Honest(f, s, r) => Honest(f, s, r)'
  <2> SUFFICES ASSUME NEW f \in Files, NEW s \in Stamps, NEW r, Honest(f, s, r)
               PROVE  Honest(f, s, r)'
    OBVIOUS
  <2>1. s \in Int /\ s <= past[f].newest
        /\ (s = disk[f].stamp => r = disk[f].rating \/ past[f].alike)
    BY LibraryAssumption DEF Honest, Stamps
  <2>2. s <= past'[f].newest
    BY <1>1, <1>2, <2>1
  <2>3. s = disk'[f].stamp => r = disk'[f].rating \/ past'[f].alike
    BY <1>1, <2>1
  <2> QED
    BY <2>2, <2>3 DEF Honest
<1>4. \A t \in Track : HonestTrack(t) => HonestTrack(t)'
  BY <1>3 DEF HonestTrack, Track
<1>5. \A p \in Pipe : HonestPipe(p) => HonestPipe(p)'
  BY <1>1, <1>2, <1>4, LibraryAssumption DEF HonestPipe, Pipe, Found, Stamps
<1>6. \A s \in Seq(Messages) : HonestMail(s) => HonestMail(s)'
  BY <1>4, Contents DEF HonestMail
<1>7. (\A f \in Files : row[f].kind = "scanned" /\ ~row[f].error =>
                              Honest(f, row[f].stamp, row[f].rating))'
  <2>1. \A f \in Files : row[f].stamp \in Stamps
    BY DEF TypeOK, Row
  <2>2. \A f \in Files : row[f].kind = "scanned" /\ ~row[f].error =>
                             Honest(f, row[f].stamp, row[f].rating)
    BY DEF FreshInv
  <2>3. \A f \in Files : Honest(f, row[f].stamp, row[f].rating) =>
                             Honest(f, row[f].stamp, row[f].rating)'
    BY <1>3, <2>1
  <2> QED
    BY <2>2, <2>3
<1>8. \A p \in Pipelines : HonestPipe(pipe[p])'
  BY <1>5 DEF FreshInv, TypeOK
<1>9. HonestMail(mail)'
  BY <1>6 DEF FreshInv, TypeOK
<1>10. sync'.at = "update" => sync'.stamp <= past'[sync'.now.file].newest
  BY <1>1, <1>2, SyncFields, LibraryAssumption DEF FreshInv, TypeOK, Stamps
<1> QED
  BY <1>2, <1>7, <1>8, <1>9, <1>10 DEF FreshInv, Honest

LEMMA HonestMessages ==
    ASSUME mail \in Seq(Messages), HonestMail(mail)
    PROVE  /\ \A m \in Messages : (m.type = "batch" => \A t \in m.tracks : HonestTrack(t))
                                     => HonestMail(Append(mail, m))
           /\ mail # <<>> =>
                /\ HonestMail(Tail(mail))
                /\ Head(mail).type = "batch" => \A t \in Head(mail).tracks : HonestTrack(t)
                /\ \A m \in Messages : m.type # "batch" => HonestMail(Append(Tail(mail), m))
BY DEF HonestMail

LEMMA HonestConcat ==
    ASSUME NEW s \in Seq(Messages), NEW u \in Seq(Messages), HonestMail(s), HonestMail(u)
    PROVE  HonestMail(s \o u)
BY DEF HonestMail

\* A pipeline with a field changed that says nothing of what was read.
LEMMA HonestWith ==
    ASSUME NEW p \in Pipe, HonestPipe(p)
    PROVE  /\ \A x : HonestPipe([p EXCEPT !.cancelled = x])
           /\ \A x : HonestPipe([p EXCEPT !.phase = "reading", !.left = x])
           /\ \A x, y : HonestPipe([p EXCEPT !.left = x, !.found = y])
           /\ \A x : HonestPipe([p EXCEPT !.left = x, !.incomplete = TRUE])
           /\ HonestPipe([p EXCEPT !.phase = "ended"])
           /\ \A x, y : HonestPipe([p EXCEPT !.phase = "enumerating", !.force = x,
                                             !.prints = y, !.left = Files])
<1>1. \A q : q.opened = p.opened /\ q.batch = p.batch => HonestPipe(q)
  BY Zenon DEF HonestPipe
<1>2. /\ \A x : [p EXCEPT !.cancelled = x].opened = p.opened
      /\ \A x : [p EXCEPT !.cancelled = x].batch = p.batch
      /\ \A x : [p EXCEPT !.phase = "reading", !.left = x].opened = p.opened
      /\ \A x : [p EXCEPT !.phase = "reading", !.left = x].batch = p.batch
  BY Zenon DEF Pipe
<1>3. /\ \A x, y : [p EXCEPT !.left = x, !.found = y].opened = p.opened
      /\ \A x, y : [p EXCEPT !.left = x, !.found = y].batch = p.batch
      /\ \A x : [p EXCEPT !.left = x, !.incomplete = TRUE].opened = p.opened
      /\ \A x : [p EXCEPT !.left = x, !.incomplete = TRUE].batch = p.batch
  BY Zenon DEF Pipe
<1>4. /\ [p EXCEPT !.phase = "ended"].opened = p.opened
      /\ [p EXCEPT !.phase = "ended"].batch = p.batch
      /\ \A x, y : [p EXCEPT !.phase = "enumerating", !.force = x,
                             !.prints = y, !.left = Files].opened = p.opened
      /\ \A x, y : [p EXCEPT !.phase = "enumerating", !.force = x,
                             !.prints = y, !.left = Files].batch = p.batch
  BY Zenon DEF Pipe
<1> QED
  BY <1>1, <1>2, <1>3, <1>4, Zenon

LEMMA HonestStart ==
    /\ HonestPipe(NoPipe)
    /\ \A x : HonestPipe([NoPipe EXCEPT !.phase = "reading", !.left = x])
    /\ HonestPipe([NoPipe EXCEPT !.phase = "ended"])
    /\ \A x, y : HonestPipe([NoPipe EXCEPT !.phase = "enumerating", !.force = x,
                                           !.prints = y, !.left = Files])
<1>1. HonestPipe(NoPipe)
  BY DEF HonestPipe, NoPipe
<1> QED
  BY <1>1, HonestWith, Blank, Zenon

LEMMA SetHonest ==
    ASSUME TypeOK, \A p \in Pipelines : HonestPipe(pipe[p]),
           NEW p \in Pipelines, NEW q, HonestPipe(q), pipe' = [pipe EXCEPT ![p] = q]
    PROVE  \A r \in Pipelines : HonestPipe(pipe'[r])
BY DEF TypeOK

LEMMA PumpHonest ==
    ASSUME NEW pipes \in [Pipelines -> Pipe], \A p \in Pipelines : HonestPipe(pipes[p]),
           NEW rows, Pump(pipes, rows)
    PROVE  \A p \in Pipelines : HonestPipe(pipe'[p])
<1>1. CASE pipe' = pipes
  BY <1>1
<1>2. ASSUME NEW chunk, pipe' = [pipes EXCEPT !["fill"] =
                                    [NoPipe EXCEPT !.phase = "reading", !.left = chunk]]
      PROVE  \A p \in Pipelines : HonestPipe(pipe'[p])
  <2> DEFINE filling == [NoPipe EXCEPT !.phase = "reading", !.left = chunk]
  <2>1. HonestPipe(filling)
    BY HonestStart, Zenon
  <2>2. pipe' = [pipes EXCEPT !["fill"] = filling]
    BY <1>2, Zenon
  <2> HIDE DEF filling
  <2> QED
    BY <2>1, <2>2
<1> QED
  BY <1>1, <1>2, Zenon DEF Pump

LEMMA InitFresh == Init => FreshInv
<1> SUFFICES ASSUME Init PROVE FreshInv
  OBVIOUS
<1>1. /\ pipe = [p \in Pipelines |-> NoPipe] /\ mail = <<[type |-> "pump"]>> /\ sync = NoSync
      /\ past = [f \in Files |-> [newest |-> 1, alike |-> FALSE]]
      /\ \A f \in Files : disk[f] = IF f \in Present
             THEN [there |-> TRUE, stamp |-> 1, rating |-> disk[f].rating]
             ELSE [there |-> FALSE, stamp |-> 1, rating |-> Unset]
  BY Zenon DEF Init
<1>2. \A f \in Files : row[f].kind = "scanned" => row[f].stamp = 1 /\ row[f].rating = disk[f].rating
  <2>1. PICK known \in {{}, Present} : row = [f \in Files |->
           IF f \in known THEN [NoRow EXCEPT !.kind = "scanned", !.stamp = 1,
                                             !.rating = disk[f].rating]
           ELSE NoRow]
    BY Zenon DEF Init
  <2> DEFINE seen(f) == [NoRow EXCEPT !.kind = "scanned", !.stamp = 1,
                                      !.rating = disk[f].rating]
  <2>2. \A x \in Row : \A r : /\ [x EXCEPT !.kind = "scanned", !.stamp = 1, !.rating = r].stamp = 1
                          /\ [x EXCEPT !.kind = "scanned", !.stamp = 1, !.rating = r].rating = r
    BY Zenon DEF Row
  <2>3. \A f \in Files : seen(f).stamp = 1 /\ seen(f).rating = disk[f].rating
    BY <2>2, Blank, Zenon
  <2>4. row = [f \in Files |-> IF f \in known THEN seen(f) ELSE NoRow]
    BY <2>1, Zenon
  <2>5. NoRow.kind = "none"
    BY DEF NoRow
  <2> HIDE DEF seen
  <2> QED
    BY <2>3, <2>4, <2>5
<1>3. \A f \in Files : disk[f].stamp = 1
  <2> SUFFICES ASSUME NEW f \in Files PROVE disk[f].stamp = 1
    OBVIOUS
  <2>1. \A b, x : [there |-> b, stamp |-> 1, rating |-> x].stamp = 1
    OBVIOUS
  <2>2. disk[f] = [there |-> TRUE, stamp |-> 1, rating |-> disk[f].rating]
        \/ disk[f] = [there |-> FALSE, stamp |-> 1, rating |-> Unset]
    BY <1>1, Zenon
  <2> QED
    BY <2>1, <2>2, Zenon
<1>4. HonestMail(mail)
  BY <1>1 DEF HonestMail
<1>5. \A p \in Pipelines : HonestPipe(pipe[p])
  <2>1. HonestPipe(NoPipe)
    BY HonestStart, Zenon
  <2> QED
    BY <1>1, <2>1
<1> QED
  BY <1>1, <1>2, <1>3, <1>4, <1>5 DEF FreshInv, Honest, NoSync

LEMMA FreshStep == TypeOK /\ TypeOK' /\ FreshInv /\ [Next]_vars => FreshInv'
<1> SUFFICES ASSUME TypeOK, TypeOK', FreshInv, [Next]_vars PROVE FreshInv'
  OBVIOUS
<1> DEFINE Rows == \A f \in Files : row'[f].kind = "scanned" /\ ~row'[f].error =>
                       Honest(f, row'[f].stamp, row'[f].rating)
           Pipes == \A p \in Pipelines : HonestPipe(pipe'[p])
           Mails == HonestMail(mail')
           Writer == sync'.at = "update" => sync'.stamp <= past[sync'.now.file].newest
<1>s. UNCHANGED <<disk, past>> /\ Rows /\ Pipes /\ Mails /\ Writer => FreshInv'
  BY FreshSuffices
<1>t. /\ disk \in [Files -> Disk] /\ past \in [Files -> Past] /\ row \in [Files -> Row]
      /\ mail \in Seq(Messages)
      /\ pipe \in [Pipelines -> Pipe] /\ sync \in Sync /\ disk' \in [Files -> Disk]
      /\ \A p \in Pipelines : pipe[p] \in Pipe /\ HonestPipe(pipe[p])
      /\ HonestMail(mail)
  BY DEF TypeOK, FreshInv
<1>r. UNCHANGED row => Rows
  BY DEF FreshInv
<1>p. UNCHANGED pipe => Pipes
  BY <1>t
<1>m. /\ UNCHANGED mail => Mails
      /\ mail # <<>> /\ mail' = Tail(mail) => Mails
      /\ \A m \in Messages : m.type # "batch" /\ mail' = Append(mail, m) => Mails
      /\ \A m \in Messages : m.type # "batch" /\ mail # <<>> /\ mail' = Append(Tail(mail), m)
                                => Mails
  BY <1>t, HonestMessages
<1>w. UNCHANGED sync \/ sync'.at # "update" => Writer
  BY DEF FreshInv
<1>a. \A f \in Files : StampOf(f) <= past[f].newest
  <2> SUFFICES ASSUME NEW f \in Files PROVE StampOf(f) <= past[f].newest
    OBVIOUS
  <2>1. disk[f].stamp >= 1 /\ disk[f].stamp <= past[f].newest
    BY DEF FreshInv
  <2>2. disk[f].stamp \in Int /\ past[f].newest \in Int
    BY <1>t, LibraryAssumption DEF Disk, Past, Stamps
  <2> QED
    BY <2>1, <2>2 DEF StampOf
<1> HIDE DEF Rows, Pipes, Mails, Writer
<1>1. ASSUME NEW force \in BOOLEAN, StartScan(force) PROVE FreshInv'
  <2> DEFINE first == [NoPipe EXCEPT !.phase = "enumerating", !.force = force,
                                     !.prints = Fingerprints, !.left = Files]
             other == [pipe["fill"] EXCEPT !.cancelled = ~Off("fill")]
  <2>1. HonestPipe(first)
    BY HonestStart, Zenon
  <2>2. HonestPipe(other)
    BY <1>t, HonestWith, Blank, Zenon
  <2>3. pipe' = [pipe EXCEPT !["scan"] = first, !["fill"] = other]
        /\ UNCHANGED <<disk, past, row, mail, sync>>
    BY <1>1, Zenon DEF StartScan, tables, history
  <2> HIDE DEF first, other
  <2>4. Pipes
    BY <1>t, <2>1, <2>2, <2>3, Blank DEF Pipes
  <2> QED
    BY <1>s, <1>r, <1>m, <1>w, <2>3, <2>4
<1>2. CASE AbortScan
  <2>1. Pipes
    BY <1>2, <1>t, PumpHonest, Zenon DEF AbortScan, Pipes
  <2>2. UNCHANGED <<disk, past, row, mail, sync>>
    BY <1>2, Zenon DEF AbortScan, tables, history
  <2> QED
    BY <1>s, <1>r, <1>m, <1>w, <2>1, <2>2
<1>3. CASE CancelScan
  <2> DEFINE cancelled == [pipe["scan"] EXCEPT !.cancelled = TRUE]
  <2>1. HonestPipe(cancelled)
    BY <1>t, HonestWith, Blank, Zenon
  <2>2. pipe' = [pipe EXCEPT !["scan"] = cancelled] /\ UNCHANGED <<disk, past, row, mail, sync>>
    BY <1>3, Zenon DEF CancelScan, tables, history
  <2>3. Pipes
    BY <1>t, <2>1, <2>2, SetHonest, Blank, Zenon DEF Pipes
  <2> QED
    BY <1>s, <1>r, <1>m, <1>w, <2>2, <2>3
<1>4. CASE HandlePump
  <2>1. Pipes
    BY <1>4, <1>t, PumpHonest, Zenon DEF HandlePump, Pipes
  <2>2. UNCHANGED <<disk, past, row, sync>> /\ mail # <<>> /\ mail' = Tail(mail)
    BY <1>4, Zenon DEF HandlePump, Arrives, tables, history
  <2> QED
    BY <1>s, <1>r, <1>m, <1>w, <2>1, <2>2
<1>5. CASE IngestPlaceholders
  <2>1. UNCHANGED <<disk, past, pipe, sync>> /\ mail # <<>> /\ mail' = Tail(mail)
    BY <1>5, Zenon DEF IngestPlaceholders, Arrives, history
  <2>2. \A f \in Files : row'[f] = row[f] \/ row'[f].kind = "placeholder"
    <3> DEFINE stamp(f) == (CHOOSE t \in Head(mail).tracks : t.file = f).stamp
    <3>1. UNCHANGED row \/ row' = [f \in Files |-> IF \E t \in Head(mail).tracks : t.file = f
                                       THEN Placeholder(f, stamp(f)) ELSE row[f]]
      BY <1>5, Zenon DEF IngestPlaceholders
    <3>2. \A f \in Files : \A x : Placeholder(f, x) = row[f]
                              \/ Placeholder(f, x).kind = "placeholder"
      BY DEF Placeholder, NoRow
    <3> HIDE DEF stamp
    <3> QED
      BY <3>1, <3>2
  <2>3. Rows
    BY <2>2 DEF Rows, FreshInv
  <2> QED
    BY <1>s, <1>p, <1>m, <1>w, <2>1, <2>3
<1>6. CASE IngestBatch
  <2>1. UNCHANGED <<disk, past, pipe, sync>> /\ mail # <<>> /\ mail' = Tail(mail)
    BY <1>6, Zenon DEF IngestBatch, Arrives, history
  <2>2. \A t \in Head(mail).tracks : HonestTrack(t)
    BY <1>6, <1>t, HonestMessages DEF IngestBatch, Arrives
  <2>3. Rows
    <3> DEFINE of(f) == CHOOSE t \in Head(mail).tracks : t.file = f
               in == {t.file : t \in Head(mail).tracks}
    <3>1. UNCHANGED row
          \/ row' = [f \in Files |-> IF f \in in THEN Scanned(of(f)) ELSE row[f]]
      BY <1>6, Zenon DEF IngestBatch
    <3>2. \A f \in in : of(f) \in Head(mail).tracks /\ of(f).file = f
      OBVIOUS
    <3>3. \A t : HonestTrack(t) /\ ~Scanned(t).error =>
                     Honest(t.file, Scanned(t).stamp, Scanned(t).rating)
      BY DEF HonestTrack, Scanned
    <3> HIDE DEF of, in
    <3> QED
      BY <2>2, <3>1, <3>2, <3>3, <1>r DEF Rows, FreshInv
  <2> QED
    BY <1>s, <1>p, <1>m, <1>w, <2>1, <2>3
<1>7. CASE MarkMissing \/ RemoveMissing
  <2>1. UNCHANGED <<disk, past, pipe, sync>>
    BY <1>7, Zenon DEF MarkMissing, RemoveMissing, history
  <2>2. mail' = mail \/ (mail # <<>> /\ mail' = Tail(mail))
    <3>1. CASE MarkMissing
      BY <3>1, Zenon DEF MarkMissing, Arrives
    <3>2. CASE RemoveMissing
      BY <3>2, Zenon DEF RemoveMissing
    <3> QED
      BY <1>7, <3>1, <3>2
  <2>3. \A f \in Files : row'[f].kind = "none"
                         \/ row'[f] = row[f] \/ row'[f] = [row[f] EXCEPT !.missing = TRUE]
    <3>1. NoRow.kind = "none"
      BY DEF NoRow
    <3>2. CASE MarkMissing
      BY <3>2, <1>t DEF MarkMissing
    <3>3. CASE RemoveMissing
      BY <3>1, <3>3, <1>t DEF RemoveMissing
    <3> QED
      BY <1>7, <3>2, <3>3
  <2>4. \A f \in Files : LET x == [row[f] EXCEPT !.missing = TRUE]
                         IN  x.kind = row[f].kind /\ x.error = row[f].error
                             /\ x.stamp = row[f].stamp /\ x.rating = row[f].rating
    BY <1>t DEF Row
  <2>5. Rows
    BY <2>3, <2>4 DEF Rows, FreshInv
  <2>6. Mails
    BY <1>m, <2>2
  <2> QED
    BY <1>s, <1>p, <1>w, <2>1, <2>5, <2>6
<1>8. CASE HandleFinished
  <2> DEFINE ended == [pipe EXCEPT ![Head(mail).of] = NoPipe]
  <2>1. ended \in [Pipelines -> Pipe] /\ \A p \in Pipelines : HonestPipe(ended[p])
    <3>1. HonestPipe(NoPipe) /\ NoPipe \in Pipe
      BY HonestStart, Blank, Zenon
    <3> QED
      BY <1>t, <3>1
  <2>2. Pump(ended, row) /\ UNCHANGED <<disk, past, row, sync>> /\ mail # <<>> /\ mail' = Tail(mail)
    BY <1>8, Zenon DEF HandleFinished, Arrives, tables, history
  <2> HIDE DEF ended
  <2>3. Pipes
    BY <2>1, <2>2, PumpHonest, Zenon DEF Pipes
  <2> QED
    BY <1>s, <1>r, <1>m, <1>w, <2>2, <2>3
<1>9. CASE Partition
  <2>1. UNCHANGED <<disk, past, row, sync>>
    BY <1>9, Zenon DEF Partition, tables, history
  <2>2. PICK q : HonestPipe(q) /\ pipe' = [pipe EXCEPT !["scan"] = q]
    <3> DEFINE end == [NoPipe EXCEPT !.phase = "ended"]
               reading == [pipe["scan"] EXCEPT !.phase = "reading",
                                               !.left = Changed(pipe["scan"])]
    <3>1. HonestPipe(end) /\ HonestPipe(reading)
      BY <1>t, HonestStart, HonestWith, Blank, Zenon
    <3>2. pipe' = [pipe EXCEPT !["scan"] = end] \/ pipe' = [pipe EXCEPT !["scan"] = reading]
      BY <1>9, Zenon DEF Partition
    <3> HIDE DEF end, reading
    <3> QED
      BY <3>1, <3>2
  <2>3. Pipes
    BY <1>t, <2>2, SetHonest, Blank, Zenon DEF Pipes
  <2>4. Mails
    <3>1. NewFiles(pipe["scan"]) \in SUBSET Found
      BY <1>t, PipeFields, Blank DEF NewFiles
    <3>2. \/ mail' = mail
          \/ mail' = Append(mail, [type |-> "finished", of |-> "scan"])
          \/ mail' = Append(mail, [type |-> "placeholders", tracks |-> NewFiles(pipe["scan"])])
      BY <1>9, Zenon DEF Partition, Post
    <3> QED
      BY <1>m, <3>1, <3>2, Contents, Blank
  <2> QED
    BY <1>s, <1>r, <1>w, <2>1, <2>3, <2>4
<1>10. CASE RootUnavailable
  <2> DEFINE end == [NoPipe EXCEPT !.phase = "ended"]
  <2>1. /\ pipe' = [pipe EXCEPT !["scan"] = end] /\ UNCHANGED <<disk, past, row, sync>>
        /\ mail' = Append(mail, [type |-> "finished", of |-> "scan"])
    BY <1>10, Zenon DEF RootUnavailable, Post, tables, history
  <2>2. HonestPipe(end)
    BY HonestStart, Zenon
  <2>3. Pipes
    BY <1>t, <2>1, <2>2, SetHonest, Blank, Zenon DEF Pipes
  <2>4. Mails
    BY <1>m, <2>1, Contents, Blank
  <2> QED
    BY <1>s, <1>r, <1>w, <2>1, <2>3, <2>4
<1>11. ASSUME NEW f \in Files, Enumerate(f) PROVE FreshInv'
  <2> DEFINE p == pipe["scan"]
             found == IF disk[f].there
                      THEN p.found \union {[file |-> f, stamp |-> disk[f].stamp]} ELSE p.found
             seen == [p EXCEPT !.left = p.left \ {f}, !.found = found]
             unread == [p EXCEPT !.left = p.left \ {f}, !.incomplete = TRUE]
  <2>1. HonestPipe(seen) /\ HonestPipe(unread)
    BY <1>t, HonestWith, Blank, Zenon
  <2>2. pipe' = [pipe EXCEPT !["scan"] = seen] \/ pipe' = [pipe EXCEPT !["scan"] = unread]
    BY <1>11 DEF Enumerate
  <2>3. UNCHANGED <<disk, past, row, mail, sync>>
    BY <1>11, Zenon DEF Enumerate, tables, history
  <2>4. Pipes
    BY <1>t, <2>1, <2>2, SetHonest, Blank, Zenon DEF Pipes
  <2> QED
    BY <1>s, <1>r, <1>m, <1>w, <2>3, <2>4
<1>12. ASSUME NEW p \in Pipelines, NEW f \in Files, OpenFile(p, f) PROVE FreshInv'
  <2> DEFINE o == [file |-> f, stamp |-> StampOf(f)]
             q == [pipe[p] EXCEPT !.left = @ \ {f}, !.opened = @ \union {o}]
  <2>1. o.stamp <= past[o.file].newest
    BY <1>a
  <2>2. q.opened = pipe[p].opened \union {o} /\ q.batch = pipe[p].batch
    BY <1>t DEF Pipe
  <2>3. pipe' = [pipe EXCEPT ![p] = q] /\ UNCHANGED <<disk, past, row, mail, sync>>
    BY <1>12, Zenon DEF OpenFile, tables, history
  <2> HIDE DEF o, q
  <2>4. HonestPipe(q)
    BY <1>t, <2>1, <2>2 DEF HonestPipe
  <2>5. Pipes
    BY <1>t, <2>3, <2>4, SetHonest, Zenon DEF Pipes
  <2> QED
    BY <1>s, <1>r, <1>m, <1>w, <2>3, <2>5
<1>13. ASSUME NEW p \in Pipelines, NEW o \in pipe[p].opened, ReadFile(p, o) PROVE FreshInv'
  <2> DEFINE batch == pipe[p].batch \union {Tags(o.file, o.stamp)}
             full == Cardinality(batch) >= BatchSize
             kept == IF full THEN {} ELSE batch
             q == [pipe[p] EXCEPT !.opened = @ \ {o}, !.batch = kept]
  <2>1. o \in Found /\ o.file \in Files /\ o.stamp <= past[o.file].newest
    BY <1>t, PipeFields DEF HonestPipe, Found
  <2>2. HonestTrack(Tags(o.file, o.stamp)) /\ Tags(o.file, o.stamp) \in Track
    <3>1. disk[o.file].rating \in MaybeRating /\ o.stamp \in Stamps
          /\ disk[o.file].there \in BOOLEAN
      BY <1>t, <2>1 DEF Found, Disk
    <3>2. Tags(o.file, o.stamp) \in Track
      BY <2>1, <3>1, Blank DEF Tags, Track
    <3>3. HonestTrack(Tags(o.file, o.stamp))
      BY <2>1 DEF HonestTrack, Honest, Tags
    <3> QED
      BY <3>2, <3>3
  <2>3. (\A t \in batch : HonestTrack(t)) /\ batch \in SUBSET Track
    BY <1>t, <2>2, PipeFields DEF HonestPipe
  <2>4. /\ pipe' = [pipe EXCEPT ![p] = q] /\ UNCHANGED <<disk, past, row, sync>>
        /\ mail' = mail \/ mail' = Append(mail, [type |-> "batch", tracks |-> batch])
    BY <1>13, Zenon DEF ReadFile, Post, tables, history
  <2>5. q.opened \subseteq pipe[p].opened /\ q.batch \subseteq batch
    BY <1>t, Zenon DEF Pipe
  <2> HIDE DEF batch, q
  <2>6. HonestPipe(q)
    BY <1>t, <2>3, <2>5 DEF HonestPipe
  <2>7. Pipes
    BY <1>t, <2>4, <2>6, SetHonest, Zenon DEF Pipes
  <2>8. Mails
    BY <1>t, <1>m, <2>3, <2>4, HonestMessages, Contents DEF Mails
  <2> QED
    BY <1>s, <1>r, <1>w, <2>4, <2>7, <2>8
<1>14. ASSUME NEW p \in Pipelines, EndPipe(p) PROVE FreshInv'
  <2> DEFINE rest == IF pipe[p].batch = {} THEN <<>>
                     ELSE <<[type |-> "batch", tracks |-> pipe[p].batch]>>
             missing == IF p = "scan" /\ CompleteScan(pipe[p]) /\ Vanished(pipe[p]) # {}
                        THEN <<[type |-> "missing", files |-> Vanished(pipe[p])]>> ELSE <<>>
             end == <<[type |-> "finished", of |-> p]>>
             ended == [NoPipe EXCEPT !.phase = "ended"]
  <2>1. /\ mail' = mail \o rest \o missing \o end /\ pipe' = [pipe EXCEPT ![p] = ended]
        /\ UNCHANGED <<disk, past, row, sync>>
    BY <1>14, Zenon DEF EndPipe, tables, history
  <2>2. /\ pipe[p].batch \in SUBSET Track
        /\ \A t \in pipe[p].batch : HonestTrack(t)
    BY <1>t, PipeFields DEF HonestPipe
  <2>3. rest \in Seq(Messages) /\ HonestMail(rest)
    BY <2>2, Contents DEF HonestMail
  <2>4. missing \in Seq(Messages) /\ HonestMail(missing)
    <3>1. Vanished(pipe[p]) \in SUBSET Files
      BY <1>t, PipeFields DEF Vanished, Fingerprint
    <3> QED
      BY <3>1, Contents DEF HonestMail
  <2>5. end \in Seq(Messages) /\ HonestMail(end)
    BY Contents DEF HonestMail
  <2>6. HonestPipe(ended)
    BY HonestStart, Zenon
  <2> HIDE DEF rest, missing, end, ended
  <2>7. Mails
    <3> DEFINE first == mail \o rest
               second == first \o missing
    <3>1. first \in Seq(Messages) /\ HonestMail(first)
      BY <1>t, <2>3, HonestConcat
    <3>2. mail' = second \o end
      BY <2>1
    <3> HIDE DEF first
    <3>3. second \in Seq(Messages) /\ HonestMail(second)
      BY <3>1, <2>4, HonestConcat
    <3> HIDE DEF second
    <3> QED
      BY <3>2, <3>3, <2>5, HonestConcat DEF Mails
  <2>8. Pipes
    BY <1>t, <2>1, <2>6, SetHonest, Zenon DEF Pipes
  <2> QED
    BY <1>s, <1>r, <1>w, <2>1, <2>7, <2>8
<1>15. ASSUME NEW f \in Files, NEW r \in MaybeRating, BeginEdit(f, r) PROVE FreshInv'
  <2>1. UNCHANGED <<disk, past, row, mail, pipe, sync>>
    BY <1>15, Zenon DEF BeginEdit, history
  <2> QED
    BY <1>s, <1>r, <1>p, <1>m, <1>w, <2>1
<1>16. ASSUME NEW schedule \in BOOLEAN, EndEdit(schedule) PROVE FreshInv'
  <2>1. /\ UNCHANGED <<disk, past, row, pipe, sync>>
        /\ UNCHANGED mail \/ mail' = Append(mail, [type |-> "scheduled"])
    BY <1>16, Zenon DEF EndEdit, Post, history
  <2>2. Mails
    BY <1>m, <2>1, Contents
  <2> QED
    BY <1>s, <1>r, <1>p, <1>w, <2>1, <2>2
<1>17. CASE HandleScheduled \/ HandleRerun \/ SyncFromMenu
  <2>1. /\ UNCHANGED <<disk, past, row, pipe>>
        /\ mail' = mail \/ (mail # <<>> /\ mail' = Tail(mail))
    <3>1. CASE HandleScheduled \/ HandleRerun
      BY <3>1, Zenon DEF HandleScheduled, HandleRerun, Arrives, tables, history
    <3>2. CASE SyncFromMenu
      BY <3>2, Zenon DEF SyncFromMenu, tables
    <3> QED
      BY <1>17, <3>1, <3>2
  <2>2. \A todo, saved, flag : StartSync(todo, saved, flag)
                                  => sync' = sync \/ sync'.at = "next"
    BY StartSyncPlace, Zenon
  <2>3. sync' = sync \/ sync'.at = "next"
    BY <1>17, <2>2, MenuStarts, Zenon DEF HandleScheduled, HandleRerun
  <2> QED
    BY <1>s, <1>r, <1>p, <1>m, <1>w, <2>1, <2>3
<1>18. CASE HandleSynced
  <2>1. /\ UNCHANGED <<disk, past, row, pipe>> /\ sync' = NoSync /\ mail # <<>>
        /\ mail' = Tail(mail) \/ mail' = Append(Tail(mail), [type |-> "rerun"])
    BY <1>18, Zenon DEF HandleSynced, Arrives, tables, history
  <2>2. Mails
    BY <1>m, <2>1, Contents
  <2>3. sync'.at # "update"
    BY <2>1 DEF NoSync
  <2> QED
    BY <1>s, <1>r, <1>p, <1>w, <2>1, <2>2, <2>3
<1>19. ASSUME NEW u \in sync.todo, SyncNext(u) PROVE FreshInv'
  <2>1. UNCHANGED <<disk, past, row, mail, pipe>>
    BY <1>19, Zenon DEF SyncNext, tables, history
  <2>2. sync'.at # "update"
    BY <1>19, <1>t DEF SyncNext, Sync
  <2> QED
    BY <1>s, <1>r, <1>p, <1>m, <1>w, <2>1, <2>2
<1>20. CASE FailWrite \/ WriteTag
  <2>1. UNCHANGED <<row, mail, pipe>>
    BY <1>20, Zenon DEF FailWrite, WriteTag, RecordFailure, tables
  <2>2. sync'.at # "update"
    BY <1>20, <1>t DEF FailWrite, WriteTag, Sync
  <2>3. UNCHANGED <<disk, past>> \/ Write(sync.now.file, sync.now.rating)
    BY <1>20, Zenon DEF FailWrite, WriteTag
  <2>4. CASE UNCHANGED <<disk, past>>
    BY <1>s, <1>r, <1>p, <1>m, <1>w, <2>1, <2>2, <2>4
  <2>5. CASE Write(sync.now.file, sync.now.rating)
    BY <1>t, <2>1, <2>2, <2>5, SyncFields, WriteKeeps, FreshOnChange
  <2> QED
    BY <2>3, <2>4, <2>5
<1>21. CASE ClearWritten
  <2>1. UNCHANGED <<disk, past, row, mail, pipe>>
    BY <1>21, Zenon DEF ClearWritten, ClearPending, tables
  <2>2. sync'.at # "update"
    BY <1>21, <1>t DEF ClearWritten, Sync
  <2> QED
    BY <1>s, <1>r, <1>p, <1>m, <1>w, <2>1, <2>2
<1>22. CASE Reread
  <2>1. /\ UNCHANGED <<disk, past, row, mail, pipe>>
        /\ sync'.now = sync.now /\ sync'.stamp = StampOf(sync.now.file)
    BY <1>22, <1>t DEF Reread, tables, Sync, history
  <2>2. sync.now.file \in Files
    BY <1>t, SyncFields
  <2>3. Writer
    BY <1>a, <2>1, <2>2 DEF Writer
  <2> QED
    BY <1>s, <1>r, <1>p, <1>m, <2>1, <2>3
<1>23. CASE UpdateRow
  <2> DEFINE f == sync.now.file
             t == Tags(f, sync.stamp)
  <2>1. UNCHANGED <<disk, past, mail, pipe>> /\ sync'.at # "update"
    BY <1>23, <1>t DEF UpdateRow, Sync, history
  <2>2. f \in Files /\ sync.stamp <= past[f].newest
    BY <1>23, SyncFields, <1>t DEF UpdateRow, FreshInv
  <2>3. t.rating # Unset => Honest(f, t.stamp, t.rating)
    BY <2>2 DEF Tags, Honest
  <2>4. row' = row \/ /\ t.rating # Unset
                      /\ row' = [row EXCEPT ![f].rating = t.rating, ![f].stamp = t.stamp]
    BY <1>23, Zenon DEF UpdateRow
  <2> HIDE DEF f, t
  <2>5. CASE row' = row
    BY <1>s, <1>r, <1>p, <1>m, <1>w, <2>1, <2>5
  <2>6. CASE t.rating # Unset /\ row' = [row EXCEPT ![f].rating = t.rating,
                                                    ![f].stamp = t.stamp]
    <3>1. /\ row'[f].rating = t.rating /\ row'[f].stamp = t.stamp
          /\ \A g \in Files \ {f} : row'[g] = row[g]
      BY <1>t, <2>2, <2>6 DEF Row
    <3>2. Rows
      BY <2>3, <2>6, <3>1 DEF Rows, FreshInv
    <3> QED
      BY <1>s, <1>p, <1>m, <1>w, <2>1, <3>2
  <2> QED
    BY <2>4, <2>5, <2>6
<1>24. CASE CannotOpen \/ EndSync
  <2>1. /\ UNCHANGED <<disk, past, row, pipe>>
        /\ \E updates \in SUBSET Update :
               mail' = Append(mail, [type |-> "synced", updates |-> updates])
    <3>1. {} \in SUBSET Update /\ sync.updates \in SUBSET Update
      BY <1>t, SyncFields
    <3> QED
      BY <1>24, <3>1, Zenon DEF CannotOpen, EndSync, Post, tables, history
  <2>2. Mails
    BY <1>m, <2>1, Contents
  <2>3. sync'.at # "update"
    BY <1>24 DEF CannotOpen, EndSync, NoSync
  <2> QED
    BY <1>s, <1>r, <1>p, <1>w, <2>1, <2>2, <2>3
<1>25. CASE Crash
  <2>1. /\ UNCHANGED <<disk, past, row>> /\ mail' = <<[type |-> "pump"]>>
        /\ pipe' = [p \in Pipelines |-> NoPipe] /\ sync' = NoSync
    BY <1>25, Zenon DEF Crash, tables, history
  <2>2. Mails
    BY <2>1 DEF Mails, HonestMail
  <2>3. HonestPipe(NoPipe)
    BY HonestStart, Zenon
  <2>4. Pipes
    BY <2>1, <2>3 DEF Pipes
  <2>5. sync'.at # "update"
    BY <2>1 DEF NoSync
  <2> QED
    BY <1>s, <1>r, <1>w, <2>1, <2>2, <2>4, <2>5
<1>26. ASSUME NEW f \in Files, Retag(f) PROVE FreshInv'
  <2>1. UNCHANGED <<row, mail, pipe, sync>>
    BY <1>26, Zenon DEF Retag, tables
  <2>2. PICK r \in MaybeRating : Write(f, r)
    BY <1>26, Zenon DEF Retag
  <2> QED
    BY <1>t, <2>1, <2>2, WriteKeeps, FreshOnChange
<1>27. ASSUME NEW f \in Files, Move(f) PROVE FreshInv'
  <2>1. UNCHANGED <<row, mail, pipe, sync, past>>
    BY <1>27, Zenon DEF Move, tables
  <2>2. \A g \in Files : disk'[g].stamp = disk[g].stamp /\ disk'[g].rating = disk[g].rating
    BY <1>27, <1>t DEF Move, Disk
  <2> QED
    BY <1>t, <2>1, <2>2, FreshOnChange
<1>28. CASE UNCHANGED vars
  <2>1. UNCHANGED <<disk, past, row, mail, pipe, sync>>
    BY <1>28, Zenon DEF vars, tables, history
  <2> QED
    BY <1>s, <1>r, <1>p, <1>m, <1>w, <2>1
<1> QED
  BY <1>1, <1>2, <1>3, <1>4, <1>5, <1>6, <1>7, <1>8, <1>9, <1>10, <1>11, <1>12, <1>13,
      <1>14, <1>15, <1>16, <1>17, <1>18, <1>19, <1>20, <1>21, <1>22, <1>23, <1>24, <1>25,
      <1>26, <1>27, <1>28, Zenon
     DEF Next, Scanning, Rating

THEOREM FreshInvariance == Spec => []FreshInv
BY InitType, TypeStep, InitFresh, FreshStep, PTL DEF Spec

\* THEOREM: a row the next scan would leave alone has the rating the file has, however the
\* file changes between the steps that read it, but where a write leaves a stamp that may
\* have been of another content.
THEOREM FreshRows == Spec => []FreshRowIsTrue
<1>1. FreshInv => FreshRowIsTrue
  BY DEF FreshInv, Honest, FreshRowIsTrue
<1> QED
  BY <1>1, FreshInvariance, PTL

----------------------------------------------------------------------------
(* Missing tracks. *)

ScanDone(m) == m.type = "finished" /\ m.of = "scan"
Ordinary(m) == ~ScanDone(m) /\ m.type # "missing"
WereGone(s, G) == \A i \in 1 .. Len(s) : s[i].type = "missing" => s[i].files \subseteq G
NotDone(s) == \A i \in 1 .. Len(s) : ~ScanDone(s[i])

\* The missing tracks a scan reports are in the mail before its end, so that the next scan,
\* which starts a history of its own, cannot start while they are there.
Ordered(s) ==
    /\ \A i, j \in 1 .. Len(s) : ScanDone(s[i]) /\ ScanDone(s[j]) => i = j
    /\ \A i \in 1 .. Len(s) : s[i].type = "missing" =>
           \E j \in 1 .. Len(s) : i < j /\ ScanDone(s[j])

Accounted(f) == f \in gone \/ \E t \in pipe["scan"].found : t.file = f

MailInv ==
    /\ Ordered(mail) /\ WereGone(mail, gone)
    /\ pipe["scan"].phase # "ended" => NotDone(mail)

\* A file the scan is past was there as it was looked at, or gone for a moment.
GoneInv ==
    /\ pipe["scan"].phase # "off" => \A f \in Files : disk[f].there \/ f \in gone
    /\ pipe["scan"].phase = "enumerating" /\ ~pipe["scan"].incomplete =>
           \A f \in Files : f \in pipe["scan"].left \/ Accounted(f)
    /\ pipe["scan"].phase = "reading" /\ CompleteScan(pipe["scan"]) =>
           \A f \in Files : Accounted(f)

MissingInv == MailInv /\ GoneInv

LEMMA InitMissing == Init => MissingInv
<1> SUFFICES ASSUME Init PROVE MissingInv
  OBVIOUS
<1>1. pipe = [p \in Pipelines |-> NoPipe] /\ mail = <<[type |-> "pump"]>>
  BY Zenon DEF Init
<1>2. pipe["scan"].phase = "off"
  BY <1>1, Blank DEF NoPipe
<1>3. Ordered(mail) /\ WereGone(mail, gone) /\ NotDone(mail)
  BY <1>1 DEF Ordered, WereGone, NotDone, ScanDone
<1> QED
  BY <1>2, <1>3 DEF MissingInv, MailInv, GoneInv

\* What stays true of a mail as its head is taken.
LEMMA Taken ==
    ASSUME NEW s \in Seq(Messages), s # <<>>, Ordered(s), NEW G, WereGone(s, G)
    PROVE  /\ Ordered(Tail(s)) /\ WereGone(Tail(s), G)
           /\ NotDone(s) \/ ScanDone(Head(s)) => NotDone(Tail(s))
<1>1. /\ Len(Tail(s)) = Len(s) - 1 /\ Len(s) \in Nat \ {0} /\ Head(s) = s[1]
      /\ \A i \in 1 .. Len(Tail(s)) : Tail(s)[i] = s[i + 1]
  OBVIOUS
<1> DEFINE t == Tail(s)
<1> HIDE DEF t
<1>2. /\ Len(t) = Len(s) - 1 /\ Len(s) \in Nat \ {0} /\ Head(s) = s[1]
      /\ \A i \in 1 .. Len(t) : t[i] = s[i + 1]
  BY <1>1 DEF t
<1>3. ASSUME NEW i \in 1 .. Len(t), NEW j \in 1 .. Len(t), ScanDone(t[i]), ScanDone(t[j])
      PROVE  i = j
  <2>1. i + 1 \in 1 .. Len(s) /\ j + 1 \in 1 .. Len(s) /\ ScanDone(s[i + 1]) /\ ScanDone(s[j + 1])
    BY <1>2, <1>3
  <2>2. i + 1 = j + 1
    BY <2>1 DEF Ordered
  <2> QED
    BY <2>2
<1>4. ASSUME NEW i \in 1 .. Len(t), t[i].type = "missing"
      PROVE  \E j \in 1 .. Len(t) : i < j /\ ScanDone(t[j])
  <2>1. i + 1 \in 1 .. Len(s) /\ s[i + 1].type = "missing"
    BY <1>2, <1>4
  <2>2. PICK k \in 1 .. Len(s) : i + 1 < k /\ ScanDone(s[k])
    BY <2>1 DEF Ordered
  <2>3. k - 1 \in 1 .. Len(t) /\ i < k - 1 /\ t[k - 1] = s[k]
    BY <1>2, <2>2
  <2> QED
    BY <2>2, <2>3
<1>5. WereGone(t, G)
  BY <1>2 DEF WereGone
<1>6. NotDone(s) => NotDone(t)
  BY <1>2 DEF NotDone
<1>7. ScanDone(Head(s)) => NotDone(t)
  BY <1>2 DEF Ordered, NotDone
<1> QED
  BY <1>3, <1>4, <1>5, <1>6, <1>7 DEF Ordered, t

LEMMA Added ==
    ASSUME NEW s \in Seq(Messages), Ordered(s), NEW G, WereGone(s, G), NEW m \in Messages
    PROVE  /\ Ordinary(m) => /\ Ordered(Append(s, m)) /\ WereGone(Append(s, m), G)
                             /\ NotDone(s) => NotDone(Append(s, m))
           /\ ScanDone(m) /\ NotDone(s) => Ordered(Append(s, m)) /\ WereGone(Append(s, m), G)
<1> DEFINE t == Append(s, m)
<1>1. /\ Len(t) = Len(s) + 1 /\ Len(s) \in Nat /\ t[Len(t)] = m
      /\ \A i \in 1 .. Len(s) : t[i] = s[i]
      /\ \A i \in 1 .. Len(t) : i \in 1 .. Len(s) \/ i = Len(t)
  OBVIOUS
<1> HIDE DEF t
<1>2. ASSUME Ordinary(m) PROVE Ordered(t) /\ WereGone(t, G) /\ (NotDone(s) => NotDone(t))
  <2>1. Ordered(t)
    BY <1>1, <1>2 DEF Ordered, Ordinary
  <2>2. WereGone(t, G)
    BY <1>1, <1>2 DEF WereGone, Ordinary
  <2>3. NotDone(s) => NotDone(t)
    BY <1>1, <1>2 DEF NotDone, Ordinary
  <2> QED
    BY <2>1, <2>2, <2>3
<1>3. ASSUME ScanDone(m), NotDone(s) PROVE Ordered(t) /\ WereGone(t, G)
  <2>1. m.type # "missing"
    BY <1>3 DEF ScanDone
  <2>2. \A i \in 1 .. Len(s) : i < Len(t)
    BY <1>1
  <2>3. Len(t) \in 1 .. Len(t)
    BY <1>1
  <2>4. \A i \in 1 .. Len(t) : t[i].type = "missing" =>
            \E j \in 1 .. Len(t) : i < j /\ ScanDone(t[j])
    BY <1>1, <1>3, <2>1, <2>2, <2>3
  <2>5. \A i, j \in 1 .. Len(t) : ScanDone(t[i]) /\ ScanDone(t[j]) => i = j
    BY <1>1, <1>3 DEF NotDone
  <2>6. WereGone(t, G)
    BY <1>1, <2>1 DEF WereGone
  <2> QED
    BY <2>4, <2>5, <2>6 DEF Ordered
<1> QED
  BY <1>2, <1>3 DEF t

\* A scan's missing tracks are posted right before its end.
LEMMA AddedMissing ==
    ASSUME NEW s \in Seq(Messages), Ordered(s), NotDone(s), NEW G, WereGone(s, G),
           NEW F \in SUBSET Files, F \subseteq G
    PROVE  LET end == [type |-> "finished", of |-> "scan"]
               t   == Append(Append(s, [type |-> "missing", files |-> F]), end)
           IN  Ordered(t) /\ WereGone(t, G)
<1> DEFINE end == [type |-> "finished", of |-> "scan"]
           gap == [type |-> "missing", files |-> F]
           t == Append(Append(s, gap), end)
<1>1. /\ Len(t) = Len(s) + 2 /\ Len(s) \in Nat /\ t[Len(s) + 2] = end /\ t[Len(s) + 1] = gap
      /\ \A i \in 1 .. Len(s) : t[i] = s[i]
      /\ \A i \in 1 .. Len(t) : i \in 1 .. Len(s) \/ i = Len(s) + 1 \/ i = Len(s) + 2
  <2>1. gap \in Messages /\ end \in Messages
    BY Contents, Blank
  <2> QED
    BY <2>1
<1>2. ScanDone(end) /\ ~ScanDone(gap) /\ gap.type = "missing" /\ gap.files = F
      /\ end.type # "missing"
  BY DEF ScanDone
<1> HIDE DEF t, end, gap
<1>3. Len(s) + 2 \in 1 .. Len(t) /\ \A i \in 1 .. Len(s) : i < Len(s) + 2
  BY <1>1
<1>4. \A i, j \in 1 .. Len(t) : ScanDone(t[i]) /\ ScanDone(t[j]) => i = j
  BY <1>1, <1>2 DEF NotDone
<1>5. \A i \in 1 .. Len(t) : t[i].type = "missing" =>
          \E j \in 1 .. Len(t) : i < j /\ ScanDone(t[j])
  BY <1>1, <1>2, <1>3
<1>6. WereGone(t, G)
  BY <1>1, <1>2 DEF WereGone
<1> QED
  BY <1>4, <1>5, <1>6 DEF Ordered, t, end, gap

LEMMA PumpScan ==
    ASSUME NEW pipes \in [Pipelines -> Pipe], NEW rows, Pump(pipes, rows)
    PROVE  pipe'["scan"] = pipes["scan"]
<1>1. \/ pipe' = pipes
      \/ \E chunk : pipe' = [pipes EXCEPT !["fill"] =
                                [NoPipe EXCEPT !.phase = "reading", !.left = chunk]]
  BY Zenon DEF Pump
<1>2. \A x : [pipes EXCEPT !["fill"] = x]["scan"] = pipes["scan"]
  BY Blank
<1> QED
  BY <1>1, <1>2, Zenon

LEMMA ScanSet ==
    ASSUME pipe \in [Pipelines -> Pipe], NEW q
    PROVE  /\ pipe' = [pipe EXCEPT !["scan"] = q] => pipe'["scan"] = q
           /\ pipe' = [pipe EXCEPT !["fill"] = q] => pipe'["scan"] = pipe["scan"]
BY Blank

\* Every message but a scan's missing tracks and its end is ordinary.
LEMMA OrdinaryMessages ==
    /\ \A t \in {"pump", "scheduled", "rerun"} :
           [type |-> t] \in Messages /\ Ordinary([type |-> t])
    /\ \A T \in SUBSET Found : LET m == [type |-> "placeholders", tracks |-> T]
                               IN  m \in Messages /\ Ordinary(m)
    /\ \A T \in SUBSET Track : LET m == [type |-> "batch", tracks |-> T]
                               IN  m \in Messages /\ Ordinary(m)
    /\ \A T \in SUBSET Update : LET m == [type |-> "synced", updates |-> T]
                                IN  m \in Messages /\ Ordinary(m)
    /\ LET m == [type |-> "finished", of |-> "fill"] IN m \in Messages /\ Ordinary(m)
    /\ LET m == [type |-> "finished", of |-> "scan"] IN m \in Messages /\ ScanDone(m)
BY Contents, Blank DEF Ordinary, ScanDone

\* What a step leaves of the mail's order: the scan is not over before its end is posted.
LEMMA MailKept ==
    ASSUME mail \in Seq(Messages), MailInv, gone \subseteq gone',
           pipe'["scan"].phase # "ended" => pipe["scan"].phase # "ended"
    PROVE  /\ UNCHANGED mail => MailInv'
           /\ mail # <<>> /\ mail' = Tail(mail) => MailInv'
           /\ \A m \in Messages : Ordinary(m) /\ mail' = Append(mail, m) => MailInv'
           /\ \A m \in Messages : Ordinary(m) /\ mail # <<>> /\ mail' = Append(Tail(mail), m)
                                     => MailInv'
<1> DEFINE Goal(s) == Ordered(s) /\ WereGone(s, gone') /\ (pipe["scan"].phase # "ended" => NotDone(s))
<1>1. Goal(mail)
  BY DEF MailInv, WereGone
<1>2. Goal(mail') => MailInv'
  BY DEF MailInv
<1>3. \A s \in Seq(Messages), m \in Messages : Goal(s) /\ Ordinary(m) => Goal(Append(s, m))
  BY Added
<1>4. mail # <<>> => Goal(Tail(mail)) /\ Tail(mail) \in Seq(Messages)
  BY <1>1, Taken
<1> HIDE DEF Goal
<1> QED
  BY <1>1, <1>2, <1>3, <1>4

\* What of the pipeline and the files the second part is about.
LEMMA GoneKept ==
    ASSUME GoneInv
    PROVE  /\ (\A f \in Files : disk'[f].there = disk[f].there) =>
                  (pipe'["scan"] = pipe["scan"] /\ UNCHANGED gone => GoneInv')
           /\ pipe'["scan"].phase = "off" => GoneInv'
           /\ pipe'["scan"].phase = "ended" /\ pipe["scan"].phase # "off"
                  => (UNCHANGED <<disk, gone>> => GoneInv')
<1>1. ASSUME pipe'["scan"] = pipe["scan"], UNCHANGED gone,
             \A f \in Files : disk'[f].there = disk[f].there
      PROVE  GoneInv'
  BY <1>1 DEF GoneInv, Accounted, CompleteScan
<1>2. ASSUME pipe'["scan"].phase = "off" PROVE GoneInv'
  BY <1>2 DEF GoneInv
<1>3. ASSUME pipe'["scan"].phase = "ended", pipe["scan"].phase # "off", UNCHANGED <<disk, gone>>
      PROVE  GoneInv'
  BY <1>3 DEF GoneInv
<1> QED
  BY <1>1, <1>2, <1>3

\* A scan that ends without a report.
LEMMA ScanEnds ==
    ASSUME mail \in Seq(Messages), pipe \in [Pipelines -> Pipe], MailInv, GoneInv,
           pipe["scan"].phase = "enumerating", UNCHANGED <<disk, gone>>,
           pipe' = [pipe EXCEPT !["scan"] = [NoPipe EXCEPT !.phase = "ended"]],
           mail' = Append(mail, [type |-> "finished", of |-> "scan"])
    PROVE  MissingInv'
<1>1. pipe'["scan"].phase = "ended"
  <2>1. pipe'["scan"] = [NoPipe EXCEPT !.phase = "ended"]
    BY ScanSet
  <2> QED
    BY <2>1 DEF NoPipe
<1>2. NotDone(mail) /\ Ordered(mail) /\ WereGone(mail, gone)
  BY DEF MailInv
<1>3. Ordered(mail') /\ WereGone(mail', gone)
  BY <1>2, OrdinaryMessages, Added
<1>4. MailInv'
  BY <1>1, <1>3 DEF MailInv
<1>5. GoneInv'
  BY <1>1, GoneKept
<1> QED
  BY <1>4, <1>5 DEF MissingInv

LEMMA MissingStep == TypeOK /\ MissingInv /\ [Next]_vars => MissingInv'
<1> SUFFICES ASSUME TypeOK, MissingInv, [Next]_vars PROVE MissingInv'
  OBVIOUS
<1>t. /\ disk \in [Files -> Disk] /\ mail \in Seq(Messages) /\ pipe \in [Pipelines -> Pipe]
      /\ pipe["scan"] \in Pipe /\ sync \in Sync /\ MailInv /\ GoneInv
  BY Blank DEF TypeOK, MissingInv
<1>q. MailInv' /\ GoneInv' => MissingInv'
  BY DEF MissingInv
<1> DEFINE Still == /\ pipe'["scan"] = pipe["scan"] /\ UNCHANGED gone
                    /\ \A f \in Files : disk'[f].there = disk[f].there
           Quiet == \/ UNCHANGED mail
                    \/ mail # <<>> /\ mail' = Tail(mail)
                    \/ \E m \in Messages : Ordinary(m) /\ mail' = Append(mail, m)
                    \/ \E m \in Messages : /\ Ordinary(m) /\ mail # <<>>
                                           /\ mail' = Append(Tail(mail), m)
<1>k. ASSUME gone \subseteq gone', Quiet,
             pipe'["scan"].phase # "ended" => pipe["scan"].phase # "ended"
      PROVE  MailInv'
  BY <1>k, <1>t, MailKept
<1>s. Still /\ Quiet => MissingInv'
  BY <1>k, <1>q, <1>t, GoneKept
<1>u. UNCHANGED <<disk, pipe, gone>> => Still
  OBVIOUS
<1> HIDE DEF Still, Quiet
<1>1. ASSUME NEW force \in BOOLEAN, StartScan(force) PROVE MissingInv'
  <2>1. pipe["scan"].phase = "off" /\ gone' = {f \in Files : ~disk[f].there}
        /\ UNCHANGED <<disk, mail>>
    BY <1>1, Zenon DEF StartScan, Off
  <2>2. NotDone(mail) /\ Ordered(mail)
    BY <1>t, <2>1 DEF MailInv
  <2>3. \A i \in 1 .. Len(mail) : mail[i].type # "missing"
    BY <2>2 DEF Ordered, NotDone
  <2>4. MailInv'
    BY <2>1, <2>2, <2>3 DEF MailInv, WereGone
  <2> DEFINE first == [NoPipe EXCEPT !.phase = "enumerating", !.force = force,
                                     !.prints = Fingerprints, !.left = Files]
             other == [pipe["fill"] EXCEPT !.cancelled = ~Off("fill")]
  <2>5. first.phase = "enumerating" /\ first.left = Files
    BY DEF NoPipe
  <2>6. pipe' = [pipe EXCEPT !["scan"] = first, !["fill"] = other]
    BY <1>1, Zenon DEF StartScan
  <2> HIDE DEF first, other
  <2>7. pipe'["scan"] = first
    BY <1>t, <2>6, Blank
  <2>8. GoneInv'
    BY <2>1, <2>5, <2>7 DEF GoneInv
  <2> QED
    BY <1>q, <2>4, <2>8
<1>2. CASE AbortScan \/ HandlePump
  <2>1. Pump(pipe, row) /\ UNCHANGED <<disk, gone>>
        /\ (mail' = mail \/ (mail # <<>> /\ mail' = Tail(mail)))
    BY <1>2, Zenon DEF AbortScan, HandlePump, Arrives, history
  <2>2. Still /\ Quiet
    BY <1>t, <2>1, PumpScan DEF Still, Quiet
  <2> QED
    BY <1>s, <2>2
<1>3. CASE CancelScan
  <2> DEFINE cancelled == [pipe["scan"] EXCEPT !.cancelled = TRUE]
  <2>1. /\ pipe' = [pipe EXCEPT !["scan"] = cancelled]
        /\ UNCHANGED <<disk, mail, gone>>
    BY <1>3, Zenon DEF CancelScan, history
  <2>2. pipe'["scan"] = cancelled
    BY <1>t, <2>1, ScanSet, Zenon
  <2>3. /\ cancelled.phase = pipe["scan"].phase /\ cancelled.cancelled = TRUE
        /\ cancelled.left = pipe["scan"].left /\ cancelled.found = pipe["scan"].found
        /\ cancelled.incomplete = pipe["scan"].incomplete
    BY <1>t DEF Pipe
  <2> HIDE DEF cancelled
  <2>4. GoneInv'
    BY <1>t, <2>1, <2>2, <2>3 DEF GoneInv, Accounted, CompleteScan
  <2>5. MailInv'
    BY <1>k, <2>1, <2>2, <2>3 DEF Quiet
  <2> QED
    BY <1>q, <2>4, <2>5
<1>4. CASE IngestPlaceholders \/ IngestBatch \/ MarkMissing
  <2>1. UNCHANGED <<disk, pipe, gone>> /\ mail # <<>> /\ mail' = Tail(mail)
    BY <1>4, Zenon DEF IngestPlaceholders, IngestBatch, MarkMissing, Arrives
  <2> QED
    BY <1>s, <1>u, <2>1 DEF Quiet
<1>5. CASE HandleFinished
  <2> DEFINE ended == [pipe EXCEPT ![Head(mail).of] = NoPipe]
  <2>1. Pump(ended, row) /\ UNCHANGED <<disk, gone>> /\ mail # <<>> /\ mail' = Tail(mail)
        /\ Head(mail).type = "finished"
    BY <1>5, Zenon DEF HandleFinished, Arrives, history
  <2>2. ended \in [Pipelines -> Pipe] /\ Head(mail).of \in Pipelines
    BY <1>t, <2>1, Posted, Contents, Blank
  <2>3. pipe'["scan"] = ended["scan"]
    BY <2>1, <2>2, PumpScan, Zenon
  <2>4. CASE Head(mail).of = "fill"
    <3>1. pipe'["scan"] = pipe["scan"]
      BY <1>t, <2>3, <2>4, Blank
    <3> QED
      BY <1>s, <2>1, <3>1 DEF Still, Quiet
  <2>5. CASE Head(mail).of = "scan"
    <3>1. pipe'["scan"].phase = "off"
      BY <1>t, <2>3, <2>5, Blank DEF NoPipe
    <3>2. ScanDone(Head(mail))
      BY <2>1, <2>5 DEF ScanDone
    <3>3. Ordered(mail') /\ WereGone(mail', gone) /\ NotDone(mail')
      BY <1>t, <2>1, <3>2, Taken DEF MailInv
    <3>4. MailInv'
      BY <2>1, <3>3 DEF MailInv
    <3> QED
      BY <1>q, <1>t, <3>1, <3>4, GoneKept
  <2> QED
    BY <2>2, <2>4, <2>5, Blank
<1>6. CASE RemoveMissing
  BY <1>6, <1>s, <1>u, Zenon DEF RemoveMissing, history, Quiet
<1>7. CASE Partition
  <2> DEFINE end == [NoPipe EXCEPT !.phase = "ended"]
             p == pipe["scan"]
             reading == [p EXCEPT !.phase = "reading", !.left = Changed(p)]
             new == [type |-> "placeholders", tracks |-> NewFiles(p)]
  <2>1. UNCHANGED <<disk, gone>> /\ p.phase = "enumerating" /\ (p.left = {} \/ p.cancelled)
    BY <1>7, Zenon DEF Partition, history
  <2>2. ASSUME p.cancelled, pipe' = [pipe EXCEPT !["scan"] = end],
               mail' = Append(mail, [type |-> "finished", of |-> "scan"])
        PROVE  MissingInv'
    BY <1>t, <2>1, <2>2, ScanEnds
  <2>3. ASSUME ~p.cancelled, pipe' = [pipe EXCEPT !["scan"] = reading],
               mail' = mail \/ mail' = Append(mail, new)
        PROVE  MissingInv'
    <3>1. pipe'["scan"] = reading
      BY <1>t, <2>3, ScanSet, Zenon
    <3>2. /\ reading.phase = "reading" /\ reading.found = p.found
          /\ reading.cancelled = p.cancelled /\ reading.incomplete = p.incomplete
      BY <1>t DEF Pipe
    <3>3. NewFiles(p) \in SUBSET Found
      BY <1>t, PipeFields DEF NewFiles
    <3> HIDE DEF reading
    <3>4. MailInv'
      BY <1>k, <2>1, <2>3, <3>1, <3>2, <3>3, OrdinaryMessages DEF Quiet
    <3>5. p.incomplete \in BOOLEAN
      BY <1>t, PipeFields
    <3>6. GoneInv'
      BY <1>t, <2>1, <2>3, <3>1, <3>2, <3>5 DEF GoneInv, Accounted, CompleteScan
    <3> QED
      BY <1>q, <3>4, <3>6
  <2> QED
    BY <1>7, <2>2, <2>3, Zenon DEF Partition, Post
<1>8. CASE RootUnavailable
  <2>1. /\ pipe["scan"].phase = "enumerating" /\ UNCHANGED <<disk, gone>>
        /\ pipe' = [pipe EXCEPT !["scan"] = [NoPipe EXCEPT !.phase = "ended"]]
        /\ mail' = Append(mail, [type |-> "finished", of |-> "scan"])
    BY <1>8, Zenon DEF RootUnavailable, Post
  <2> QED
    BY <1>t, <2>1, ScanEnds
<1>9. ASSUME NEW f \in Files, Enumerate(f) PROVE MissingInv'
  <2> DEFINE p == pipe["scan"]
             found == IF disk[f].there
                      THEN p.found \union {[file |-> f, stamp |-> disk[f].stamp]} ELSE p.found
             seen == [p EXCEPT !.left = p.left \ {f}, !.found = found]
             unread == [p EXCEPT !.left = p.left \ {f}, !.incomplete = TRUE]
  <2>1. pipe' = [pipe EXCEPT !["scan"] = seen] \/ pipe' = [pipe EXCEPT !["scan"] = unread]
    BY <1>9 DEF Enumerate
  <2>2. UNCHANGED <<disk, mail, gone>> /\ p.phase = "enumerating"
    BY <1>9, Zenon DEF Enumerate
  <2>3. /\ seen.phase = p.phase /\ seen.left = p.left \ {f} /\ seen.found = found
        /\ seen.incomplete = p.incomplete
        /\ unread.phase = p.phase /\ unread.incomplete = TRUE
    BY <1>t DEF Pipe
  <2>4. p.found \subseteq found /\ (disk[f].there => \E t \in found : t.file = f)
    <3>1. CASE disk[f].there
      <4>1. [file |-> f, stamp |-> disk[f].stamp] \in found
        BY <3>1
      <4> QED
        BY <3>1, <4>1
    <3> QED
      BY <3>1
  <2>5. pipe'["scan"] = seen \/ pipe'["scan"] = unread
    BY <1>t, <2>1, ScanSet, Zenon
  <2> HIDE DEF seen, unread, found
  <2>6. GoneInv'
    BY <1>t, <2>2, <2>3, <2>4, <2>5 DEF GoneInv, Accounted
  <2>7. MailInv'
    BY <1>k, <2>2, <2>3, <2>5 DEF Quiet
  <2> QED
    BY <1>q, <2>6, <2>7
<1>10. ASSUME NEW p \in Pipelines, NEW f \in Files, OpenFile(p, f) PROVE MissingInv'
  <2> DEFINE q == [pipe[p] EXCEPT !.left = @ \ {f},
                          !.opened = @ \union {[file |-> f, stamp |-> StampOf(f)]}]
  <2>1. /\ pipe' = [pipe EXCEPT ![p] = q] /\ pipe[p].phase = "reading"
        /\ UNCHANGED <<disk, mail, gone>>
    BY <1>10, Zenon DEF OpenFile, history
  <2>2. /\ q.phase = pipe[p].phase /\ q.found = pipe[p].found
        /\ q.cancelled = pipe[p].cancelled /\ q.incomplete = pipe[p].incomplete
    BY <1>t DEF Pipe
  <2> HIDE DEF q
  <2>3. \/ pipe'["scan"] = pipe["scan"]
        \/ p = "scan" /\ pipe'["scan"] = q
    BY <1>t, <2>1, ScanSet, Blank
  <2>4. GoneInv'
    BY <1>t, <2>1, <2>2, <2>3 DEF GoneInv, Accounted, CompleteScan
  <2>5. MailInv'
    BY <1>k, <2>1, <2>2, <2>3 DEF Quiet
  <2> QED
    BY <1>q, <2>4, <2>5
<1>11. ASSUME NEW p \in Pipelines, NEW o \in pipe[p].opened, ReadFile(p, o) PROVE MissingInv'
  <2> DEFINE batch == pipe[p].batch \union {Tags(o.file, o.stamp)}
             kept == IF Cardinality(batch) >= BatchSize THEN {} ELSE batch
             q == [pipe[p] EXCEPT !.opened = @ \ {o}, !.batch = kept]
  <2>1. /\ pipe' = [pipe EXCEPT ![p] = q] /\ UNCHANGED <<disk, gone>>
        /\ mail' = mail \/ mail' = Append(mail, [type |-> "batch", tracks |-> batch])
    BY <1>11, Zenon DEF ReadFile, Post, history
  <2>2. /\ q.phase = pipe[p].phase /\ q.found = pipe[p].found /\ q.left = pipe[p].left
        /\ q.cancelled = pipe[p].cancelled /\ q.incomplete = pipe[p].incomplete
    BY <1>t DEF Pipe
  <2>3. batch \in SUBSET Track
    <3>1. o \in Found /\ pipe[p].batch \in SUBSET Track
      BY <1>t, PipeFields
    <3>2. Tags(o.file, o.stamp) \in Track
      BY <1>t, <3>1, Blank DEF Tags, Track, Found, Disk
    <3> QED
      BY <3>1, <3>2
  <2> HIDE DEF q, batch
  <2>4. \/ pipe'["scan"] = pipe["scan"]
        \/ p = "scan" /\ pipe'["scan"] = q
    BY <1>t, <2>1, ScanSet, Blank
  <2>5. GoneInv'
    BY <1>t, <2>1, <2>2, <2>4 DEF GoneInv, Accounted, CompleteScan
  <2>6. MailInv'
    BY <1>k, <2>1, <2>2, <2>3, <2>4, OrdinaryMessages DEF Quiet
  <2> QED
    BY <1>q, <2>5, <2>6
<1>12. ASSUME NEW p \in Pipelines, EndPipe(p) PROVE MissingInv'
  <2> DEFINE it == pipe[p]
             end == [type |-> "finished", of |-> p]
             left == [type |-> "batch", tracks |-> it.batch]
             lost == [type |-> "missing", files |-> Vanished(it)]
             rest == IF it.batch = {} THEN <<>> ELSE <<left>>
             reports == p = "scan" /\ CompleteScan(it) /\ Vanished(it) # {}
             missing == IF reports THEN <<lost>> ELSE <<>>
             first == mail \o rest
  <2>1. /\ it.phase = "reading" /\ UNCHANGED <<disk, gone>>
        /\ mail' = mail \o rest \o missing \o <<end>>
        /\ pipe' = [pipe EXCEPT ![p] = [NoPipe EXCEPT !.phase = "ended"]]
    BY <1>12, Zenon DEF EndPipe, history
  <2>2. it.batch \in SUBSET Track /\ Vanished(it) \in SUBSET Files
    BY <1>t, PipeFields DEF Vanished, Fingerprint
  <2>3. left \in Messages /\ Ordinary(left) /\ lost \in Messages /\ end \in Messages
    BY <2>2, OrdinaryMessages, Contents
  <2> DEFINE Fine(s) == Ordered(s) /\ WereGone(s, gone)
                        /\ (pipe["scan"].phase # "ended" => NotDone(s))
  <2>4. first \in Seq(Messages) /\ Fine(first)
    <3>1. Fine(mail)
      BY <1>t DEF MailInv
    <3>2. CASE rest = <<>>
      <4>1. first = mail
        BY <1>t, <3>2
      <4> QED
        BY <1>t, <3>1, <4>1
    <3>3. CASE rest = <<left>>
      <4>1. first = Append(mail, left)
        BY <1>t, <3>3
      <4> HIDE DEF left, first
      <4> QED
        BY <1>t, <2>3, <3>1, <4>1, Added
    <3> QED
      BY <3>2, <3>3
  <2>5. mail' = IF reports THEN Append(Append(first, lost), end) ELSE Append(first, end)
    <3> HIDE DEF lost, end, first, reports
    <3>1. /\ first \o <<lost>> = Append(first, lost) /\ first \o <<>> = first
          /\ Append(first, lost) \o <<end>> = Append(Append(first, lost), end)
          /\ first \o <<end>> = Append(first, end)
      BY <2>3, <2>4
    <3>2. mail' = first \o missing \o <<end>>
      BY <2>1, Zenon DEF first
    <3> QED
      BY <3>1, <3>2
  <2> HIDE DEF left, first, rest
  <2>6. CASE p = "fill"
    <3>1. ~reports /\ Ordinary(end)
      BY <2>6, OrdinaryMessages
    <3>2. Fine(mail')
      BY <2>3, <2>4, <2>5, <3>1, Added
    <3>3. Still
      BY <1>t, <2>1, <2>6, ScanSet DEF Still
    <3>4. MailInv' /\ GoneInv'
      BY <1>t, <3>2, <3>3, GoneKept DEF MailInv, Still
    <3> QED
      BY <1>q, <3>4
  <2>7. CASE p = "scan"
    <3>1. NotDone(first) /\ Ordered(first) /\ WereGone(first, gone)
      BY <2>1, <2>4, <2>7
    <3>2. CompleteScan(it) => Vanished(it) \subseteq gone
      <4>1. CompleteScan(it) => \A f \in Files : Accounted(f)
        BY <1>t, <2>1, <2>7 DEF GoneInv
      <4>2. \A f \in Vanished(it) : ~\E t \in it.found : t.file = f
        BY DEF Vanished
      <4> QED
        BY <2>2, <2>7, <4>1, <4>2 DEF Accounted
    <3>3. Ordered(mail') /\ WereGone(mail', gone)
      <4>1. CASE reports
        BY <2>2, <2>4, <2>5, <2>7, <3>1, <3>2, <4>1, AddedMissing
      <4>2. CASE ~reports
        <5>1. ScanDone(end)
          BY <2>7 DEF ScanDone
        <5> QED
          BY <2>3, <2>4, <2>5, <3>1, <4>2, <5>1, Added
      <4> QED
        BY <4>1, <4>2
    <3>4. pipe'["scan"].phase = "ended"
      <4>1. pipe'["scan"] = [NoPipe EXCEPT !.phase = "ended"]
        BY <1>t, <2>1, <2>7, ScanSet
      <4> QED
        BY <4>1 DEF NoPipe
    <3>5. MailInv' /\ GoneInv'
      BY <1>t, <2>1, <2>7, <3>3, <3>4, GoneKept DEF MailInv
    <3> QED
      BY <1>q, <3>5
  <2> QED
    BY <2>6, <2>7, Blank
<1>13. CASE \/ \E f \in Files, r \in MaybeRating : BeginEdit(f, r)
            \/ SyncFromMenu
            \/ \E u \in sync.todo : SyncNext(u)
            \/ Reread \/ UpdateRow \/ ClearWritten
  <2>1. UNCHANGED <<disk, pipe, gone, mail>>
    BY <1>13, Zenon DEF BeginEdit, SyncFromMenu, SyncNext, Reread, UpdateRow, ClearWritten,
                        history
  <2> QED
    BY <1>s, <1>u, <2>1 DEF Quiet
<1>14. CASE \/ \E schedule \in BOOLEAN : EndEdit(schedule)
            \/ HandleScheduled \/ HandleRerun \/ HandleSynced \/ CannotOpen \/ EndSync
  <2>1. UNCHANGED <<disk, pipe, gone>>
    BY <1>14, Zenon DEF EndEdit, HandleScheduled, HandleRerun, HandleSynced, CannotOpen, EndSync,
                        history
  <2>2. \/ mail' = mail
        \/ mail' = Append(mail, [type |-> "scheduled"])
        \/ mail # <<>> /\ mail' = Tail(mail)
        \/ mail # <<>> /\ mail' = Append(Tail(mail), [type |-> "rerun"])
        \/ mail' = Append(mail, [type |-> "synced", updates |-> {}])
        \/ mail' = Append(mail, [type |-> "synced", updates |-> sync.updates])
    BY <1>14, Zenon DEF EndEdit, HandleScheduled, HandleRerun, HandleSynced, CannotOpen, EndSync,
                        Post, Arrives
  <2>3. sync.updates \in SUBSET Update
    BY <1>t DEF Sync
  <2> QED
    BY <1>s, <1>u, <2>1, <2>2, <2>3, OrdinaryMessages DEF Quiet
<1>15. CASE WriteTag \/ FailWrite \/ \E f \in Files : Retag(f)
  <2>1. UNCHANGED <<pipe, gone, mail>>
    BY <1>15, Zenon DEF WriteTag, FailWrite, Retag
  <2>2. \A f \in Files : disk'[f].there = disk[f].there
    <3>1. /\ sync.now.file \in Files /\ sync.now.rating \in MaybeRating
          /\ past \in [Files -> Past]
      BY SyncFields DEF TypeOK
    <3>2. \/ UNCHANGED disk
          \/ \E f \in Files, r \in MaybeRating : Write(f, r)
      BY <1>15, <3>1, Zenon DEF WriteTag, FailWrite, Retag
    <3> QED
      BY <1>t, <3>1, <3>2, WriteKeeps, Zenon
  <2> QED
    BY <1>s, <2>1, <2>2 DEF Still, Quiet
<1>16. ASSUME NEW f \in Files, Move(f) PROVE MissingInv'
  <2>1. UNCHANGED <<pipe, mail>>
    BY <1>16, Zenon DEF Move
  <2>2. gone \subseteq gone' /\ (disk[f].there => f \in gone')
    BY <1>16 DEF Move
  <2>3. \A g \in Files : disk'[g].there = disk[g].there \/ (g = f /\ ~disk[f].there)
                         \/ (g = f /\ disk[f].there)
    BY <1>16, <1>t DEF Move
  <2>4. \A g \in Files : disk[g].there \/ g \in gone => disk'[g].there \/ g \in gone'
    BY <1>16, <1>t, <2>2 DEF Move, Disk
  <2>5. GoneInv'
    BY <1>t, <2>1, <2>2, <2>4 DEF GoneInv, Accounted
  <2>6. MailInv'
    BY <1>k, <2>1, <2>2 DEF Quiet
  <2> QED
    BY <1>q, <2>5, <2>6
<1>17. CASE Crash
  <2>1. mail' = <<[type |-> "pump"]>> /\ pipe' = [p \in Pipelines |-> NoPipe]
    BY <1>17, Zenon DEF Crash
  <2>2. pipe'["scan"].phase = "off"
    BY <2>1, Blank DEF NoPipe
  <2>3. MailInv'
    BY <2>1 DEF MailInv, Ordered, WereGone, NotDone, ScanDone
  <2> QED
    BY <1>q, <1>t, <2>2, <2>3, GoneKept
<1>18. CASE UNCHANGED vars
  BY <1>18, <1>s, <1>u DEF vars, history, Quiet
<1> QED
  BY <1>1, <1>2, <1>3, <1>4, <1>5, <1>6, <1>7, <1>8, <1>9, <1>10, <1>11, <1>12, <1>13, <1>14,
     <1>15, <1>16, <1>17, <1>18, Zenon DEF Next, Scanning, Rating


LEMMA MissingInvariance == Spec => [](TypeOK /\ MissingInv)
<1>1. TypeOK /\ MissingInv /\ [Next]_vars => (TypeOK /\ MissingInv)'
  BY TypeStep, MissingStep
<1> QED
  BY <1>1, InitType, InitMissing, PTL DEF Spec

\* A track is marked missing only as the message of a scan says so.
LEMMA MarkedWhenGone ==
    ASSUME TypeOK, MissingInv, [Next]_vars, NEW f \in Files,
           ~row[f].missing, row'[f].missing
    PROVE  f \in gone
<1>t. /\ row \in [Files -> Row] /\ mail \in Seq(Messages)
  BY DEF TypeOK
<1>1. CASE MarkMissing
  <2>1. f \in Head(mail).files /\ mail # <<>> /\ Head(mail).type = "missing"
    BY <1>1, <1>t, Zenon DEF MarkMissing, Arrives
  <2>2. Head(mail) = mail[1] /\ 1 \in 1 .. Len(mail)
    BY <1>t, <2>1
  <2> QED
    BY <2>1, <2>2 DEF MissingInv, MailInv, WereGone
<1>2. CASE IngestPlaceholders
  <2> DEFINE stamp(g) == (CHOOSE t \in Head(mail).tracks : t.file = g).stamp
  <2>1. UNCHANGED row \/ row' = [g \in Files |-> IF \E t \in Head(mail).tracks : t.file = g
                                     THEN Placeholder(g, stamp(g)) ELSE row[g]]
    BY <1>2, Zenon DEF IngestPlaceholders
  <2>2. \A x : Placeholder(f, x) = row[f] \/ ~Placeholder(f, x).missing
    BY DEF Placeholder, NoRow
  <2> HIDE DEF stamp
  <2> QED
    BY <2>1, <2>2
<1>3. CASE IngestBatch
  <2> DEFINE of(g) == CHOOSE t \in Head(mail).tracks : t.file = g
             in == {t.file : t \in Head(mail).tracks}
  <2>1. UNCHANGED row
        \/ row' = [g \in Files |-> IF g \in in THEN Scanned(of(g)) ELSE row[g]]
    BY <1>3, Zenon DEF IngestBatch
  <2>2. \A t : ~Scanned(t).missing
    BY DEF Scanned
  <2> HIDE DEF of, in
  <2> QED
    BY <2>1, <2>2
<1>4. CASE RemoveMissing
  BY <1>4 DEF RemoveMissing, NoRow
<1>5. CASE UpdateRow
  <2> DEFINE as(x, y) == [row EXCEPT ![sync.now.file].rating = x,
                                     ![sync.now.file].stamp = y]
  <2>1. \A x, y : as(x, y)[f].missing = row[f].missing
    <3>1. ASSUME NEW g \in [Files -> Row], NEW a, NEW x, a \in Files
          PROVE  /\ [g EXCEPT ![a].rating = x][f].missing = g[f].missing
                 /\ [g EXCEPT ![a].stamp = x][f].missing = g[f].missing
      BY <3>1 DEF Row
    <3> QED
      BY <1>t, <3>1 DEF Row
  <2>2. UNCHANGED row \/ \E x, y : row' = as(x, y)
    BY <1>5, Zenon DEF UpdateRow
  <2> HIDE DEF as
  <2> QED
    BY <2>1, <2>2
<1>6. ASSUME UNCHANGED row PROVE FALSE
  BY <1>6
<1>7. CASE \/ \E force \in BOOLEAN : StartScan(force)
           \/ AbortScan \/ CancelScan \/ HandlePump \/ HandleFinished
           \/ Partition \/ RootUnavailable
           \/ \E g \in Files : Enumerate(g) \/ Retag(g) \/ Move(g)
           \/ \E p \in Pipelines : \E g \in Files : OpenFile(p, g)
           \/ \E p \in Pipelines : \E o \in pipe[p].opened : ReadFile(p, o)
           \/ \E p \in Pipelines : EndPipe(p)
  BY <1>6, <1>7, Zenon DEF StartScan, AbortScan, CancelScan, HandlePump, HandleFinished,
       Partition, RootUnavailable, Enumerate, Retag, Move, OpenFile, ReadFile, EndPipe, tables
<1>8. CASE \/ \E g \in Files, r \in MaybeRating : BeginEdit(g, r)
           \/ \E schedule \in BOOLEAN : EndEdit(schedule)
           \/ SyncFromMenu \/ HandleScheduled \/ HandleRerun \/ HandleSynced
           \/ \E u \in sync.todo : SyncNext(u)
           \/ FailWrite \/ WriteTag \/ Reread \/ ClearWritten \/ CannotOpen \/ EndSync
           \/ Crash \/ UNCHANGED vars
  BY <1>6, <1>8, Zenon DEF BeginEdit, EndEdit, SyncFromMenu, HandleScheduled, HandleRerun,
       HandleSynced, SyncNext, FailWrite, RecordFailure, WriteTag, Reread, ClearWritten,
       ClearPending, CannotOpen, EndSync, Crash, tables, vars
<1> QED
  BY <1>1, <1>2, <1>3, <1>4, <1>5, <1>7, <1>8, Zenon DEF Next, Scanning, Rating

\* THEOREM: a track is marked missing only by a scan during which its file was gone for a
\* moment, however the files come and go between the scan's steps, and whatever messages of
\* other pipelines are in the mail before the one that marks it.
THEOREM OnlyGoneAreMissing == Spec => MissingWasGone
<1>1. TypeOK /\ MissingInv /\ [Next]_vars =>
        [\A f \in Files : ~row[f].missing /\ row'[f].missing => f \in gone]_vars
  BY MarkedWhenGone, Zenon
<1> QED
  BY <1>1, MissingInvariance, PTL DEF Spec, MissingWasGone

----------------------------------------------------------------------------
(* What the window shows. *)

LEMMA ShownKept ==
    ASSUME TypeOK, [Next]_vars, NEW f \in Files, NEW r \in Ratings,
           Free, user[f] = r, pending[f] = r, queued[f].shown = r, queued'[f].shown # r
    PROVE  mail # <<>> /\ Head(mail).type = "batch"
<1>1. r # Unset
  BY LibraryAssumption
<1>2. Effective(row[f], user[f], pending[f]) = r
  BY <1>1 DEF Effective
<1>3. queued'[f] # queued[f]
  OBVIOUS
<1>4. CASE IngestBatch
  BY <1>4 DEF IngestBatch, Arrives
<1>5. CASE HandleSynced
  <2> DEFINE updates == {u \in Head(mail).updates : row[u.file].kind # "none"}
             of == (CHOOSE u \in updates : u.file = f).rating
             in == \E u \in updates : u.file = f
  <2>1. queued'[f] = IF in THEN Synced(f, of) ELSE queued[f]
    BY <1>5 DEF HandleSynced
  <2>2. \A x : Synced(f, x).shown = r
    BY <1>1, <1>2 DEF Synced, Rated
  <2> HIDE DEF of, in
  <2> QED
    BY <1>3, <2>1, <2>2
<1>6. CASE Crash
  BY <1>2, <1>6 DEF Crash, Loaded
<1>7. CASE UNCHANGED queued
  BY <1>3, <1>7
<1>8. CASE \E schedule \in BOOLEAN : EndEdit(schedule)
  BY <1>8, Zenon DEF EndEdit
<1>9. CASE \/ \E force \in BOOLEAN : StartScan(force)
           \/ AbortScan \/ CancelScan \/ HandlePump \/ IngestPlaceholders \/ MarkMissing
           \/ HandleFinished \/ RemoveMissing \/ Partition \/ RootUnavailable
           \/ \E g \in Files : Enumerate(g) \/ Retag(g) \/ Move(g)
           \/ \E p \in Pipelines : \E g \in Files : OpenFile(p, g)
           \/ \E p \in Pipelines : \E o \in pipe[p].opened : ReadFile(p, o)
           \/ \E p \in Pipelines : EndPipe(p)
  BY <1>7, <1>9, Zenon DEF StartScan, AbortScan, CancelScan, HandlePump, IngestPlaceholders,
       MarkMissing, HandleFinished, RemoveMissing, Partition, RootUnavailable, Enumerate,
       Retag, Move, OpenFile, ReadFile, EndPipe
<1>10. CASE \/ \E g \in Files, x \in MaybeRating : BeginEdit(g, x)
            \/ SyncFromMenu \/ HandleScheduled \/ HandleRerun
            \/ \E u \in sync.todo : SyncNext(u)
            \/ FailWrite \/ WriteTag \/ Reread \/ UpdateRow \/ ClearWritten \/ CannotOpen
            \/ EndSync \/ UNCHANGED vars
  BY <1>7, <1>10, Zenon DEF BeginEdit, SyncFromMenu, HandleScheduled, HandleRerun, SyncNext,
       FailWrite, WriteTag, Reread, UpdateRow, ClearWritten, CannotOpen, EndSync, vars
<1> QED
  BY <1>4, <1>5, <1>6, <1>8, <1>9, <1>10, Zenon DEF Next, Scanning, Rating

\* THEOREM: while a rating is pending its queue row shows it, whatever the writer reports of
\* older ones and whenever its messages arrive, until it is edited or its file is read again.
THEOREM PendingStaysShown == Spec => EditStaysShown
<1>1. TypeOK /\ [Next]_vars =>
        [\A f \in Files : \A r \in Ratings :
            /\ Free /\ user[f] = r /\ pending[f] = r /\ queued[f].shown = r
            /\ queued'[f].shown # r
            => mail # <<>> /\ Head(mail).type = "batch"]_vars
  BY ShownKept, Zenon
<1> QED
  BY <1>1, TypeCorrect, PTL DEF Spec, EditStaysShown

=============================================================================
